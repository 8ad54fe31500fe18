CONSTANTS
  o1 = o1
  o2 = o2
  o3 = o3
  u1 = u1
  u2 = u2
  k1 = k1
  k2 = k2
  pot = pot
  card = card
  Orders = {o1, o2, o3}
  Users = {u1, u2}
  Keys = {k1, k2}
  Items = {pot}
  Stocks = {card}
  UserOf <- MCUserOf
  KeyOf <- MCKeyOf
  Lines <- MCLines
  MaxHolds = 1
  MaxQuantityPerCustomer <- MCMaxQuantityPerCustomer
  RoundLimits <- MCRoundLimits
  InitialStock <- MCInitialStock
  StockBound = 2
SPECIFICATION Spec
CHECK_DEADLOCK FALSE
PROPERTY CompletedRoundIsFinal
