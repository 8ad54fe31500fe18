----------------------------- MODULE MCRedelivery -----------------------------
(* One finaliser of redelivery fees and one cancellation.                  *)
EXTENDS Redelivery

CONSTANTS f1, c1

OneFinaliser == {f1}
OneCanceller == {c1}
PaidOnly == {"Paid"}
NoNotice == {}
===============================================================================
