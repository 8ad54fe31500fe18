---------------------------- MODULE MCOrderPayment ----------------------------
(* One order, its payment, and two workers in the roles a question needs.  *)
EXTENDS OrderPayment

CONSTANTS w1, w2

TwoWorkers == {w1, w2}
OnlyW1 == {w1}
OnlyW2 == {w2}
NoWorkers == {}
BothAmounts == {"matches", "differs"}
RightAmount == {"matches"}
===============================================================================
