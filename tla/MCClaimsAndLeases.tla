--------------------------- MODULE MCClaimsAndLeases ---------------------------
(* Claims and leases that end by themselves: the refund of a payment, a    *)
(* daily job, a notification, the refresh sessions of a user, and the      *)
(* orders of the shop without rounds; and the refund of a payment inside   *)
(* the refunds of its order.  One of them is picked and runs alone.        *)
EXTENDS RefundedSale, JobLease, NotificationDelivery, RefreshSessions, LegacyShop

CONSTANTS w1, w2, d1, d2, d3, g1

TwoWorkers == {w1, w2}
OneWorker == {w1}
ThreeDevices == {d1, d2, d3}
OneRun == {g1}
SmallAndLarge == [d \in LegacyOrders |-> IF d = d1 THEN 1 ELSE 2]

(* Two orders compete for a day and one request cancels, or two requests   *)
(* cancel one order; a group purchase has one order, which suffices for the*)
(* target or falls short, one run and one request.                         *)
Created == {o \in LegacyOrders : Status(o) # "none"}
ShopBound ==
  /\ saleType = "group" => Cardinality(Created) <= 1
  /\ ~CallerAt(w2, "idle") => saleType = "normal" /\ Created = {d1}

(* Settlements, reviews and the provider's reversals, which leave the      *)
(* payment alone, are explored as long as no refund or cancellation began. *)
SaleBound ==
  \/ reversal = "provider" \/ settlement.status # "none" \/ creation # "none"
  \/ confirming = "listed" \/ sale.status = "REVIEWED"
  => sale.cancellation = "none" /\ \A w \in Workers : run[w] = "idle"

VARIABLE focus

claimsVars == <<focus, refundVars, orderVars, jobVars, notificationVars, sessionVars, legacyVars>>

ClaimsInit ==
  /\ focus \in {"refund", "sale", "job", "notification", "sessions", "shop"}
  /\ SaleInit /\ JobInit /\ NotificationInit /\ SessionInit /\ LegacyInit
  /\ focus # "shop" => saleType = "normal"
  /\ focus # "job" => job = "purge"
  /\ focus # "sale" => saleFee = "none"

ClaimsNext ==
  /\ UNCHANGED focus
  /\ \/ /\ focus = "refund" /\ Next
        /\ UNCHANGED <<orderVars, jobVars, notificationVars, sessionVars, legacyVars>>
     \/ /\ focus = "sale" /\ SaleNext /\ SaleBound'
        /\ UNCHANGED <<jobVars, notificationVars, sessionVars, legacyVars>>
     \/ /\ focus = "job" /\ JobNext
        /\ UNCHANGED <<refundVars, orderVars, notificationVars, sessionVars, legacyVars>>
     \/ /\ focus = "notification" /\ NotificationNext
        /\ UNCHANGED <<refundVars, orderVars, jobVars, sessionVars, legacyVars>>
     \/ /\ focus = "sessions" /\ SessionNext
        /\ UNCHANGED <<refundVars, orderVars, jobVars, notificationVars, legacyVars>>
     \/ /\ focus = "shop" /\ LegacyNext /\ ShopBound'
        /\ UNCHANGED <<refundVars, orderVars, jobVars, notificationVars, sessionVars>>

ClaimsFairness ==
  \/ focus = "refund" /\ Fairness
  \/ focus = "job" /\ JobFairness
  \/ focus \in {"sale", "notification", "sessions", "shop"}

ClaimsSpec ==
  ClaimsInit /\ [][ClaimsNext]_claimsVars /\ ClaimsFairness

(* Every document keeps its types; no lease runs for nobody, a finished    *)
(* delivery shows its outcome, no user has more sessions than allowed, and *)
(* no day more used slots than it has.                                     *)
ClaimsTypeOK == TypeOK /\ JobTypeOK /\ NotificationTypeOK /\ SessionTypeOK /\ LegacyTypeOK

(* The refund of the payment, inside the refunds of its order, moves the   *)
(* order's side the way Settlement says.                                   *)
RefundedSaleKeepsSettlement == [][focus = "sale" => SettlementStep]_claimsVars

(* Where refunds of the payment alone are tried again and again, a claimed *)
(* one is recorded in the end.                                             *)
RetriedRefundIsRecorded == focus = "refund" => RefundIsRecorded
===============================================================================
