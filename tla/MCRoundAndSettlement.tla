------------------------- MODULE MCRoundAndSettlement -------------------------
(* How orders end without their money: a round is cancelled, or a single   *)
(* delivered order is refunded around its settlement.  The two meet in no  *)
(* document (a round with a delivered order is not cancelled); one of them *)
(* is picked and runs alone.                                               *)
EXTENDS MCSaleRoundCancellation, Settlement

CONSTANTS r1, s1

OneRefunder == {r1}
OneSaleCanceller == {s1}

VARIABLE focus

EndInit == focus \in {"round", "settlement"} /\ Init /\ SettlementInit

EndNext ==
  /\ UNCHANGED focus
  /\ \/ focus = "round" /\ Next /\ UNCHANGED settlementVars
     \/ focus = "settlement" /\ SettlementNext /\ UNCHANGED vars

EndFairness ==
  \/ focus = "round" /\ Fairness
  \/ focus = "settlement" /\ SettlementFairness

EndSpec == EndInit /\ [][EndNext]_<<focus, vars, settlementVars>> /\ EndFairness
===============================================================================
