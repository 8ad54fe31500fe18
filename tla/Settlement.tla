------------------------------ MODULE Settlement ------------------------------
(***************************************************************************)
(* What follows the delivery of one round order: its settlement is created,*)
(* confirmed after seven days and paid out to the seller, while seller and *)
(* admin may still refund the order, the provider may report that the      *)
(* money was taken back, and an older cancellation may join in.  The order,*)
(* its payment, the settlement and the reversal's issue are separate       *)
(* documents; a refund touches them in separate transactions.  Of the      *)
(* payment's refund only what it does to the payment is modelled here;     *)
(* RefundedSale puts PaymentRefund in its place.                           *)
(***************************************************************************)
CONSTANTS
  Refunders,      \* runs of PostDeliveryRefundService.refund
  SaleCancellers  \* runs of RoundOrderLifecycleService.cancel (seller, admin)

RefundRuns == Refunders \union SaleCancellers

ASSUME SettlementAssumption == Refunders \intersect SaleCancellers = {}

VARIABLES
  sale,        \* the order: status, cancellation and postDeliveryRefund
  salePayment, \* its payment: PAID, PAID under a refund claim, or CANCELLED
  saleFee,     \* its redelivery charge, if it has one
  restocked,   \* whether the round got the order's quantities back
  settlement,  \* its settlement document
  reversal,    \* the open issue about money the provider took back, by
               \* whose cancellation the provider reported
  creation,    \* whether a call of createSettlement is under way
  confirming,  \* whether the daily job has the settlement on its list
  run,         \* run[w]: where w is in the refund
  told         \* whether a caller was told that the order is refunded

bookVars == <<settlement, reversal, creation, confirming>>
saleVars == <<sale, salePayment, saleFee, restocked>>
settlementVars == <<saleVars, bookVars, run, told>>

SaleInProgress == {"REFUNDING", "LOCAL_PENDING", "LOCAL_FAILED", "REFUND_FAILED"}
SaleCancelling == sale.cancellation \in SaleInProgress
SaleCancelled == sale.status = "CANCELLED"
SaleRefundComplete == SaleCancelled /\ sale.cancellation = "COMPLETED"
PaymentIsPaid == salePayment # "CANCELLED"

Delivered == {"DELIVERED", "REVIEWED"}
RunAt(w, step) == run[w] = step
RunTo(w, step) == run' = [run EXCEPT ![w] = step]
Record(status) == sale' = [sale EXCEPT !.cancellation = status]
-------------------------------------------------------------------------------
(* Delivery, review and the settlement's creation after either. *)

Deliver ==
  /\ sale.status = "PREPARING" /\ ~SaleCancelling
  /\ sale' = [sale EXCEPT !.status = "DELIVERED"]
  /\ creation' = "underway"
  /\ UNCHANGED <<salePayment, saleFee, restocked, settlement, reversal, confirming, run, told>>

(* A review is taken even while the order is being refunded. *)
Review ==
  /\ sale.status \in Delivered
  /\ sale' = [sale EXCEPT !.status = "REVIEWED"]
  /\ creation' = "underway"
  /\ UNCHANGED <<salePayment, saleFee, restocked, settlement, reversal, confirming, run, told>>

ReconcileDelivery ==
  /\ sale.status = "DELIVERED" /\ creation = "none"
  /\ creation' = "underway"
  /\ UNCHANGED <<saleVars, settlement, reversal, confirming, run, told>>

NewSettlement == [status |-> "pending", recovery |-> "no"]
Created == IF settlement.status = "none" THEN NewSettlement ELSE settlement

CreateSettlement ==
  /\ creation = "underway"
  /\ creation' = "none"
  /\ settlement' \in {Created, settlement}  \* the call may die first
  /\ UNCHANGED <<saleVars, reversal, confirming, run, told>>
-------------------------------------------------------------------------------
(* Confirming and paying out. *)

ReversalOpen == reversal # "none"

(* readOrderPayoutHoldInTransaction *)
PayoutHeldOnceCancelled == SaleCancelled
PayoutHeld == SaleCancelled \/ SaleCancelling

ListDueSettlements ==
  /\ confirming = "no" /\ settlement.status = "pending"
  /\ confirming' = "listed"
  /\ UNCHANGED <<saleVars, settlement, reversal, creation, run, told>>

StillListed == TRUE
StillPending == settlement.status = "pending"

ConfirmListed ==
  /\ confirming = "listed"
  /\ confirming' \in {"no", "listed"}  \* every instance runs the job
  /\ settlement' = IF StillPending /\ ~ReversalOpen /\ ~PayoutHeld
                   THEN [settlement EXCEPT !.status = "confirmed"] ELSE settlement
  /\ UNCHANGED <<saleVars, reversal, creation, run, told>>

MarkAsPaid ==
  /\ settlement.status = "confirmed" /\ ~ReversalOpen /\ ~PayoutHeld
  /\ settlement' = [settlement EXCEPT !.status = "paid"]
  /\ UNCHANGED <<saleVars, reversal, creation, confirming, run, told>>

(* cancelSettlement *)
UnpaidSettlementCancelled ==
  IF settlement.status \in {"none", "paid"} THEN settlement
  ELSE [settlement EXCEPT !.status = "cancelled"]
CancelledSettlement ==
  CASE settlement.status = "none" -> settlement
    [] settlement.status = "paid" -> [settlement EXCEPT !.recovery = "yes"]
    [] OTHER -> [settlement EXCEPT !.status = "cancelled"]
-------------------------------------------------------------------------------
(* The provider's webhooks about cancelled or disputed payments. *)

OwnedLocally == SaleCancelled \/ salePayment # "PAID"

ReversalIssue(origin) == IF ReversalOpen THEN reversal ELSE origin

OwnCancellationWebhook ==
  /\ salePayment # "PAID"
  /\ reversal' = IF OwnedLocally THEN reversal ELSE ReversalIssue("own")
  /\ UNCHANGED <<saleVars, settlement, creation, confirming, run, told>>

(* A dispute, or a cancellation made on the provider's console: reported,  *)
(* and reported again, at any time.                                        *)
ReversalWebhook ==
  /\ sale.status # "PREPARING"
  /\ reversal' = ReversalIssue("provider")
  /\ UNCHANGED <<saleVars, settlement, creation, confirming, run, told>>

ResolveReversal ==
  /\ ReversalOpen
  /\ reversal' = "none"
  /\ UNCHANGED <<saleVars, settlement, creation, confirming, run, told>>
-------------------------------------------------------------------------------
(* A refund after delivery. *)

SellerIgnoresPayout == settlement.status # "none"
SellerMayRefund == settlement.status \notin {"none", "paid"}

StartRefund(r, actor) ==
  /\ RunAt(r, "idle") /\ sale.refund = "none"
  /\ sale.status \in Delivered /\ ~SaleCancelling
  /\ actor = "seller" => SellerMayRefund
  /\ PaymentIsPaid
  /\ sale' = [sale EXCEPT !.refund = "started", !.by = actor, !.cancellation = "REFUNDING"]
  /\ RunTo(r, "refund")
  /\ UNCHANGED <<salePayment, saleFee, restocked, bookVars, told>>

ResumeFailedRefund(r) ==
  /\ RunAt(r, "idle") /\ sale.refund # "none"
  /\ sale.cancellation # "REFUNDING"
  /\ RunTo(r, "refund")
  /\ UNCHANGED <<saleVars, bookVars, told>>
ResumeRefund(r) ==
  /\ RunAt(r, "idle") /\ sale.refund # "none"
  /\ RunTo(r, "refund")
  /\ UNCHANGED <<saleVars, bookVars, told>>

(* What PaymentRefund and then Redelivery's refundCharge do to the payment *)
(* and the charge, told apart no further than by what others can see: the  *)
(* payment is claimed or returned, and the charge is returned.             *)
RefundUnderWay(w) ==
  /\ RunAt(w, "refund")
  /\ \/ /\ salePayment' \in IF salePayment = "CANCELLED" THEN {} ELSE {"CLAIMED", "CANCELLED"}
        /\ UNCHANGED saleFee
     \/ saleFee = "PAID" /\ saleFee' = "REFUNDED" /\ UNCHANGED salePayment
  /\ UNCHANGED <<sale, restocked, bookVars, run, told>>

FeeNotCounted == TRUE
FeeSettled == saleFee # "PAID"

(* Both calls returned, whether or not they returned the money; or one of  *)
(* them threw, or the charge is not settled.                               *)
RefundAfterDelivery(r) ==
  /\ RunAt(r, "refund")
  /\ RunTo(r, "refundFailed") \/ (FeeSettled /\ RunTo(r, "complete"))
  /\ UNCHANGED <<saleVars, bookVars, told>>

CompleteLocally(r) ==
  /\ RunAt(r, "complete")
  /\ IF SaleRefundComplete THEN RunTo(r, "settlement") /\ UNCHANGED sale
     ELSE IF PaymentIsPaid THEN RunTo(r, "localFailed") /\ UNCHANGED sale
     ELSE /\ sale' = [sale EXCEPT !.status = "CANCELLED", !.cancellation = "COMPLETED",
                                  !.refund = "completed"]
          /\ RunTo(r, "settlement")
  /\ UNCHANGED <<salePayment, saleFee, restocked, bookVars, told>>

RecordFailedRefund(r) ==
  /\ run[r] \in {"refundFailed", "localFailed"}
  /\ IF SaleRefundComplete THEN UNCHANGED sale
     ELSE Record(IF RunAt(r, "refundFailed") THEN "REFUND_FAILED" ELSE "LOCAL_FAILED")
  /\ RunTo(r, "idle")
  /\ UNCHANGED <<salePayment, saleFee, restocked, bookVars, told>>

CancelSaleSettlement(w) ==
  /\ RunAt(w, "settlement")
  /\ settlement' = CancelledSettlement
  /\ told' = "refunded"
  /\ RunTo(w, "idle")
  /\ UNCHANGED <<saleVars, reversal, creation, confirming>>

PostDeliveryRefund(r) ==
  \/ \E actor \in {"seller", "admin"} : StartRefund(r, actor)
  \/ ResumeRefund(r) \/ RefundAfterDelivery(r) \/ CompleteLocally(r) \/ RecordFailedRefund(r)
-------------------------------------------------------------------------------
(* The cancellation of an order that is not delivered.  It also takes part *)
(* in whatever refund it finds under way.                                  *)

LocalStates == {"LOCAL_PENDING", "LOCAL_FAILED"}

ClaimSaleCancellation(c) ==
  /\ RunAt(c, "idle") /\ sale.status = "PREPARING"
  /\ sale.cancellation \in {"none", "REFUND_FAILED"}
  /\ Record("REFUNDING") /\ RunTo(c, "refund")
  /\ UNCHANGED <<salePayment, saleFee, restocked, bookVars, told>>

(* An admin's forced refund of a cancelled order reaches its settlement.   *)
JoinCancellation(c) ==
  /\ RunAt(c, "idle")
  /\ \/ SaleRefundComplete /\ ~PaymentIsPaid /\ RunTo(c, "settlement")
     \/ /\ SaleCancelled \/ sale.cancellation \in LocalStates \union {"REFUNDING"}
        /\ ~(SaleRefundComplete /\ ~PaymentIsPaid)
        /\ RunTo(c, IF PaymentIsPaid /\ (SaleCancelled \/ sale.cancellation = "REFUNDING")
                    THEN "refund" ELSE "local")
  /\ UNCHANGED <<saleVars, bookVars, told>>

RefundCancelledSale(c) ==
  /\ RunAt(c, "refund")
  /\ RunTo(c, "refundFailed") \/ (saleFee # "PAID" /\ RunTo(c, "refunded"))
  /\ UNCHANGED <<saleVars, bookVars, told>>

RecordSaleCancellation(c) ==
  /\ \/ RunAt(c, "refunded") /\ Record("LOCAL_PENDING") /\ RunTo(c, "local")
     \/ RunAt(c, "refundFailed") /\ Record("REFUND_FAILED") /\ RunTo(c, "idle")
     \/ RunAt(c, "localFailed") /\ Record("LOCAL_FAILED") /\ RunTo(c, "idle")
  /\ UNCHANGED <<salePayment, saleFee, restocked, bookVars, told>>

AnyStatusCancellable == TRUE
StillCancellable == sale.status = "PREPARING"

ApplySaleCancellation(c) ==
  /\ RunAt(c, "local")
  /\ IF PaymentIsPaid /\ (SaleCancelled \/ sale.cancellation \in LocalStates)
     THEN Record("REFUNDING") /\ (RunTo(c, "refund") \/ RunTo(c, "idle")) /\ UNCHANGED restocked
     ELSE IF SaleCancelled
     THEN Record("COMPLETED") /\ RunTo(c, "settlement") /\ UNCHANGED restocked
     ELSE IF sale.cancellation \in LocalStates /\ StillCancellable
     THEN /\ sale' = [sale EXCEPT !.status = "CANCELLED", !.cancellation = "COMPLETED"]
          /\ restocked' = "yes"
          /\ RunTo(c, "settlement")
     ELSE RunTo(c, "localFailed") /\ UNCHANGED <<sale, restocked>>
  /\ UNCHANGED <<salePayment, saleFee, bookVars, told>>

CancelSale(c) ==
  \/ ClaimSaleCancellation(c) \/ JoinCancellation(c) \/ RefundCancelledSale(c)
  \/ RecordSaleCancellation(c) \/ ApplySaleCancellation(c)

(* A process dies; in CancelSaleSettlement's place, the transaction may fail.  *)
StopRun(w) ==
  /\ ~RunAt(w, "idle")
  /\ IF w \in SaleCancellers /\ RunAt(w, "settlement")
     THEN RunTo(w, "idle") \/ RunTo(w, "localFailed")
     ELSE RunTo(w, "idle")
  /\ UNCHANGED <<saleVars, bookVars, told>>
-------------------------------------------------------------------------------
SettlementInit ==
  /\ sale = [status |-> "PREPARING", cancellation |-> "none", refund |-> "none", by |-> "nobody"]
  /\ salePayment = "PAID" /\ saleFee \in {"none", "PAID"} /\ restocked = "no"
  /\ settlement = [status |-> "none", recovery |-> "no"]
  /\ reversal = "none"
  /\ creation = "none" /\ confirming = "no"
  /\ run = [w \in RefundRuns |-> "idle"] /\ told = "nothing"

SettlementNext ==
  \/ Deliver \/ Review \/ ReconcileDelivery \/ CreateSettlement
  \/ ListDueSettlements \/ ConfirmListed \/ MarkAsPaid
  \/ OwnCancellationWebhook \/ ReversalWebhook \/ ResolveReversal
  \/ \E r \in Refunders : PostDeliveryRefund(r)
  \/ \E c \in SaleCancellers : CancelSale(c)
  \/ \E w \in RefundRuns : RefundUnderWay(w) \/ CancelSaleSettlement(w) \/ StopRun(w)

SettlementSpec == SettlementInit /\ [][SettlementNext]_settlementVars

(* A started refund is requested again until it is done, and an attempt    *)
(* that may succeed again and again does.                                  *)
SettlementFairness ==
  \A r \in Refunders :
    /\ WF_settlementVars(ResumeRefund(r) \/ RecordFailedRefund(r) \/ StopRun(r))
    /\ SF_settlementVars(RefundUnderWay(r) /\ salePayment' = "CANCELLED")
    /\ SF_settlementVars(RefundUnderWay(r) /\ saleFee' = "REFUNDED")
    /\ SF_settlementVars(RefundAfterDelivery(r) /\ run'[r] = "complete")
    /\ SF_settlementVars(CompleteLocally(r)) /\ SF_settlementVars(CancelSaleSettlement(r))
-------------------------------------------------------------------------------
(* The documents and runs keep their types, and money to be recovered from *)
(* the seller is money that was paid out.                                  *)
SettlementTypeOK ==
  /\ sale \in [status : {"PREPARING", "CANCELLED"} \union Delivered,
               cancellation : {"none", "COMPLETED"} \union SaleInProgress,
               refund : {"none", "started", "completed"}, by : {"nobody", "seller", "admin"}]
  /\ salePayment \in {"PAID", "CLAIMED", "CANCELLED"} /\ saleFee \in {"none", "PAID", "REFUNDED"}
  /\ restocked \in {"no", "yes"} /\ told \in {"nothing", "refunded"}
  /\ settlement \in [status : {"none", "pending", "confirmed", "paid", "cancelled"},
                     recovery : {"no", "yes"}]
  /\ settlement.recovery = "yes" => settlement.status = "paid"
  /\ reversal \in {"none", "own", "provider"}
  /\ creation \in {"none", "underway"} /\ confirming \in {"no", "listed"}
  /\ run \in [RefundRuns -> {"idle", "refund", "refunded", "refundFailed", "complete", "local",
                             "localFailed", "settlement"}]

(* The seller is never paid for an order whose money is being returned, or *)
(* is no longer there, or disputed: whoever pays and whoever refunds meets *)
(* in the order document, before any of the money moves.  And a payout is  *)
(* never erased from the books, nor repeated by a settlement created anew. *)
PayoutsAreForKeptMoney ==
  [][/\ settlement.status = "paid" => settlement'.status = "paid"
     /\ settlement'.status = "paid" /\ settlement.status # "paid" =>
          /\ salePayment = "PAID" /\ ~ReversalOpen
          /\ \A w \in RefundRuns : run[w] \notin {"refund", "complete", "local"}]_settlementVars

(* A completed refund after delivery returned the redelivery fee as well,  *)
(* however many attempts it took (the cancellation before delivery does    *)
(* not keep this: CompletedCancellationReturnedTheFee).  And whoever was   *)
(* told that an order is refunded can rely on its settlement: it is not on *)
(* its way to the seller, or the payout is marked for recovery.  (One that *)
(* is created late for the refunded order is held.)                        *)
RefundsReachTheBooks ==
  /\ sale.refund = "completed" => salePayment = "CANCELLED" /\ saleFee # "PAID"
  /\ told = "refunded" =>
       \/ settlement.status \in {"none", "pending", "cancelled"}
       \/ settlement.status = "paid" /\ settlement.recovery = "yes"

(* A refund the seller may start on his own never costs him a payout he    *)
(* already has, even if the payout is made while he starts it.             *)
SellerRefundsNeedNoRecovery ==
  sale.by = "seller" => settlement.status # "paid"

(* Goods that were delivered do not go on sale again, whichever of the two *)
(* refunds ends up closing the order.                                      *)
DeliveredGoodsAreNotRestocked ==
  restocked = "yes" => sale.refund = "none" /\ sale.status = "CANCELLED" /\ settlement.status = "none"

(* The shop's own refunds never look like money taken back by the provider:*)
(* no webhook of theirs stops the seller's payout and calls the operators. *)
(* (That the webhook finds the payment claimed is shown by RefundedSale.)  *)
OwnRefundsRaiseNoAlarm == reversal # "own"

(* A refund that was started is completed and its settlement closed, as    *)
(* long as somebody repeats the request.                                   *)
StartedRefundsEnd ==
  sale.refund = "started" ~>
    SaleRefundComplete /\ (settlement.status = "paid" => settlement.recovery = "yes")
===============================================================================
