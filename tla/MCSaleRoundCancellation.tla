------------------------ MODULE MCSaleRoundCancellation ------------------------
(* One or two orders of a round, and two requests in the roles a question  *)
(* needs.                                                                  *)
EXTENDS SaleRoundCancellation

CONSTANTS o1, o2, a1, a2, c1

OneOrder == {o1}
TwoOrders == {o1, o2}
OneAdministrator == {a1}
TwoAdministrators == {a1, a2}
OneCanceller == {c1}
AllRequests == {a1, a2, c1}
OnlyA2 == {a2}
Nothing == {}
==============================================================================
