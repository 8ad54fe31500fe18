---------------------------- MODULE MCOrderAndFees ----------------------------
(* The payment of an order until it is booked, and then the delivery with  *)
(* its redelivery fees: the second phase begins once the first one rests.  *)
EXTENDS MCOrderPayment, MCRedelivery

VARIABLE phase

PhaseInit == phase = "payment" /\ OrderInit /\ RedeliveryInit

AcceptedAndQuiet ==
  /\ order = [status |-> "ACCEPTED", reason |-> "none", cancellation |-> "none",
              lateRefund |-> "none"]
  /\ payment = "PAID" /\ provider.status = "PAID" /\ webhook = "acknowledged"
  /\ stray = {} /\ claim = NoClaim /\ finalRefund.status = "NONE"
  /\ \A w \in Workers : job[w] = Free

PhaseNext ==
  \/ phase = "payment" /\ OrderNext /\ UNCHANGED <<phase, redeliveryVars>>
  \/ /\ phase = "payment" /\ AcceptedAndQuiet
     /\ phase' = "delivery"
     /\ UNCHANGED <<vars, redeliveryVars>>
  \/ phase = "delivery" /\ RedeliveryNext /\ UNCHANGED <<phase, vars>>

PhaseFairness ==
  \/ <>[](phase = "payment") /\ OrderFairness
  \/ <>[](phase = "delivery") /\ RedeliveryFairness

PhaseSpec == PhaseInit /\ [][PhaseNext]_<<phase, vars, redeliveryVars>> /\ PhaseFairness
===============================================================================
