SPECIFICATION ClaimsSpec
CONSTANTS
  w1 = w1
  w2 = w2
  d1 = d1
  d2 = d2
  d3 = d3
  g1 = g1
  Nobody = Nobody
  Workers <- TwoWorkers
  Refunders <- OneWorker
  Instances <- TwoWorkers
  LastDay = 2
  Senders <- TwoWorkers
  MaxMessages = 2
  Sids <- ThreeDevices
  MaxSessions = 2
  MaxToken = 2
  LegacyOrders = {d1, d2}
  OrderedQuantity <- SmallAndLarge
  TotalCap = 2
  TargetQuantity = 2
  MinQuantity = 2
  LegacyCancellers <- TwoWorkers
  GroupRuns <- OneRun
INVARIANTS
  LegacyCountersMatchOrders
  LegacyRefundsStopOrders
  ClaimsTypeOK
  BooksKnowOfRefunds
  OneRefundOperation
  RepeatsNeedASilentSender
  HonestTabsRaiseNoAlarm
PROPERTIES
  KeepsRefundContract
  RetriedRefundIsRecorded
  CompletedDaysStayDone
  LastDayIsCompleted
  AnswersStay
  EndedSessionsStayEnded
  RefundedSaleKeepsSettlement
CHECK_DEADLOCK FALSE
