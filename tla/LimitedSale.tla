----------------------------- MODULE LimitedSale -----------------------------
(***************************************************************************)
(* What a sale of limited goods promises, without counters, reservations,  *)
(* request ids or clocks: every buyer gets what he takes at most once, a   *)
(* share is given only if it still fits beside all shares given out, as if *)
(* they were added up again each time, and a share returned stays returned,*)
(* except that one which expired may still be bought if it fits.           *)
(***************************************************************************)
EXTENDS Quantities

CONSTANTS
  Buyers,
  Goods,
  FixedGoods, \* goods whose offer stays as it is once the sale has begun
  Takes       \* Takes[b][x]: what the share of b is of the goods x

VARIABLES
  phase,      \* of the sale: "preparing", "running" or "over"
  offered,    \* offered[x]: how much of x there is for all
  share       \* share[b]: "none", "held", "bought", "expired" or "returned"

saleVars == <<phase, offered, share>>

Holders == {b \in Buyers : share[b] \in {"held", "bought"}}
Taken(x) == Quantity(Holders, [b \in Buyers |-> Takes[b][x]])

Fits(b) == \A x \in Goods : Takes[b][x] > 0 => Taken(x) + Takes[b][x] <= offered[x]

ShareBecomes(b, next) == share' = [share EXCEPT ![b] = next]

Init ==
  /\ phase = "preparing"
  /\ offered \in [Goods -> Nat]
  /\ share = [b \in Buyers |-> "none"]

Give(b) ==
  /\ phase # "over" /\ Fits(b)
  /\ \/ share[b] = "none" /\ ShareBecomes(b, "held")
     \/ share[b] = "expired" /\ ShareBecomes(b, "bought")
  /\ phase' = "running"
  /\ UNCHANGED offered

Settle(b) ==
  /\ phase = "running"
  /\ \/ share[b] = "held" /\ ShareBecomes(b, "bought")
     \/ share[b] = "held" /\ ShareBecomes(b, "expired")
     \/ share[b] \in {"held", "bought"} /\ ShareBecomes(b, "returned")
  /\ UNCHANGED <<phase, offered>>

Offer ==
  /\ offered' \in [Goods -> Nat]
  /\ \A x \in Goods : Taken(x) <= offered'[x]
  /\ (\E x \in FixedGoods : offered'[x] # offered[x]) => phase = "preparing"
  /\ UNCHANGED <<phase, share>>

Begin ==
  /\ phase = "preparing"
  /\ phase' = "running"
  /\ UNCHANGED <<offered, share>>

Finish ==
  /\ phase # "over" /\ \A b \in Buyers : share[b] # "held"
  /\ phase' = "over"
  /\ UNCHANGED <<offered, share>>

Next == (\E b \in Buyers : Give(b) \/ Settle(b)) \/ Offer \/ Begin \/ Finish

Spec == Init /\ [][Next]_saleVars
===============================================================================
