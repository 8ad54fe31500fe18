------------------------------ MODULE RefundedSale ------------------------------
(***************************************************************************)
(* The refunds of one round order (Settlement) and the refund of its       *)
(* payment that they call (PaymentRefund), together.  Settlement sees of   *)
(* the payment only whether it is paid, claimed or returned, and lets it   *)
(* change at will while a run is in its refund.  Here the payment changes  *)
(* by PaymentRefund's transactions, which the order's other steps, another *)
(* run's refund, lost answers and the provider's webhooks interleave with. *)
(***************************************************************************)
EXTENDS PaymentRefund

CONSTANT Refunders  \* the workers that refund after delivery; the others cancel

ASSUME RefundersAssumption == Refunders \subseteq Workers

Cancellers == Workers \ Refunders

VARIABLES
  sale, saleFee, restocked, settlement, reversal, creation, confirming,
  run,  \* run[w]: where w is around the refund; refund[w] is where it is in it
  told

orderVars == <<sale, saleFee, restocked, settlement, reversal, creation, confirming, run, told>>
refundedSaleVars == <<refundVars, orderVars>>

(* What the order's side tells apart of the payment document. *)
PaymentSeen ==
  CASE payment = "CANCELLED" -> "CANCELLED"
    [] payment = "PAID" /\ claim.status = "NONE" -> "PAID"
    [] payment = "PAID" /\ claim.status # "NONE" -> "CLAIMED"

Settle == INSTANCE Settlement WITH SaleCancellers <- Cancellers, salePayment <- PaymentSeen

(* Everything that leaves the payment alone. *)
SaleStep ==
  \/ Settle!Deliver \/ Settle!Review \/ Settle!ReconcileDelivery \/ Settle!CreateSettlement
  \/ Settle!ListDueSettlements \/ Settle!ConfirmListed \/ Settle!MarkAsPaid
  \/ Settle!ReversalWebhook \/ Settle!ResolveReversal
  \/ \E r \in Refunders :
       \/ \E actor \in {"seller", "admin"} : Settle!StartRefund(r, actor)
       \/ Settle!ResumeRefund(r) \/ Settle!CompleteLocally(r) \/ Settle!RecordFailedRefund(r)
  \/ \E c \in Cancellers :
       \/ Settle!ClaimSaleCancellation(c) \/ Settle!JoinCancellation(c)
       \/ Settle!RecordSaleCancellation(c) \/ Settle!ApplySaleCancellation(c)
  \/ \E w \in Workers : Settle!CancelSaleSettlement(w)

(* The run is inside refundByOrderId. *)
ReturnPaymentUnmarked(w) ==
  /\ RefundByOrderId(w) \/ RefundSteps(w)
  /\ UNCHANGED orderVars
ReturnPayment(w) ==
  /\ Settle!RunAt(w, "refund")
  /\ RefundByOrderId(w) \/ RefundSteps(w)
  /\ UNCHANGED orderVars

(* refundOrderChargesByOrderId, once refundByOrderId returned. *)
ReturnFee(w) ==
  /\ refund[w].pc = "returned"
  /\ saleFee = "PAID" /\ saleFee' = "REFUNDED"
  /\ UNCHANGED <<refundVars, sale, restocked, settlement, reversal, creation, confirming, run, told>>

(* refundByOrderId may return although another worker is at the refund: the*)
(* caller finds out when it looks at the payment again.                    *)
EndRefund(w) ==
  /\ Return(w)
  /\ IF w \in Refunders THEN Settle!RefundAfterDelivery(w) ELSE Settle!RefundCancelledSale(w)
  /\ refund[w].pc = "threw" => Settle!RunTo(w, "refundFailed")

StopRefund(w) ==
  /\ Return(w) \/ Crash(w) \/ (refund[w].pc = "idle" /\ UNCHANGED refundVars)
  /\ Settle!StopRun(w)

(* The provider reports the refund it made for the shop as soon as it made *)
(* it, and again: the payment may not be in the books yet, and the sender  *)
(* of the request may be dead.                                             *)
OwnCancellationWebhook ==
  /\ provider.status = "CANCELLED" /\ provider.by \in Workers
  /\ reversal' = IF Settle!OwnedLocally THEN reversal ELSE Settle!ReversalIssue("own")
  /\ UNCHANGED <<refundVars, sale, saleFee, restocked, settlement, creation, confirming, run, told>>

SaleInit == Init /\ Settle!SettlementInit

SaleNext ==
  \/ UNCHANGED refundVars /\ SaleStep
  \/ OwnCancellationWebhook
  \/ Environment /\ UNCHANGED orderVars
  \/ \E w \in Workers : ReturnPayment(w) \/ ReturnFee(w) \/ EndRefund(w) \/ StopRefund(w)

SaleSpec == SaleInit /\ [][SaleNext]_refundedSaleVars
-------------------------------------------------------------------------------
(* The order's side can rely on the payment's: no takeover, lost answer or *)
(* crash makes a payment that was claimed look untouched, or one that was  *)
(* returned look paid; it changes while a run that marked the order is at  *)
(* its refund, and at no other time; and when the provider reports the     *)
(* shop's own refund, the books already know of it.  So what Settlement    *)
(* promises holds with the real refund inside.                             *)
SettlementStep == [Settle!SettlementNext]_(Settle!settlementVars)
KeepsSettlement == Settle!SettlementSpec
===============================================================================
