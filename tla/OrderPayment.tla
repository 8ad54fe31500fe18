----------------------------- MODULE OrderPayment -----------------------------
(***************************************************************************)
(* One order and its money.  Processes finalise the payment (the           *)
(* provider's webhook, the customer's check, the clean-up job), time the   *)
(* order out, cancel it for the customer or the seller, and dispatch it.   *)
(* All of them may refund.  The order document, the payment document and   *)
(* the provider's payment change in separate transactions and calls, and   *)
(* each of those is one action.                                            *)
(*                                                                         *)
(* A cancellation and the settlement of a cancelled order refund through   *)
(* PaymentRefund.  A payment that must not become an order (its amount is  *)
(* wrong, or it is late and the round is full) is refunded directly, under *)
(* a second claim in the order document and without an idempotency key.    *)
(***************************************************************************)
EXTENDS PaymentRefund

CONSTANTS
  Finalizers,  \* workers that finalise payments
  Cancellers,  \* workers that cancel orders
  Amounts,     \* how the amount paid may compare: "matches", "differs"
  Crashing     \* workers that may crash

ASSUME RolesAssumption ==
  /\ Finalizers \union Cancellers \union Crashing \subseteq Workers
  /\ "finalization" \notin Workers \union {Nobody}
  /\ Amounts \subseteq {"matches", "differs"}

VARIABLES
  order,       \* orders document: status, cancelReason, cancellation, late refund
  finalRefund, \* its finalizationRefund
  amount,      \* the amount paid against the amount ordered
  webhook,     \* the provider's notification of the payment
  job          \* job[w]: the step of worker w outside refundByOrderId, and for whom

orderVars == <<order, finalRefund, amount, webhook, job>>
vars == <<payment, claim, provider, stray, refund, order, finalRefund, amount, webhook, job>>

Free == [step |-> "free", for |-> "nobody"]
FinalizerSteps ==
  {"lookedUp", "settle", "settleRefund", "markRefundFailed", "cancelMismatch", "timeOut",
   "claimFinal", "readFinal", "recheckFinal", "postFinal", "recordLate", "markFinal",
   "uncertainFinal"}
CancellerSteps ==
  {"cancelRefund", "refundFailed", "refundDone", "applyLocal",
   "cancelRefundAgain", "refundDoneAgain", "applyLocalAgain", "cancelSettlement", "localFailed"}

InProgress == {"REFUNDING", "LOCAL_PENDING", "LOCAL_FAILED", "REFUND_FAILED"}

TimedOut == order.status = "CANCELLED" /\ order.reason = "timeout"

CanFinalize == order.status = "PENDING" \/ (TimedOut /\ order.lateRefund = "none")

SettlementCandidate ==
  \/ order.status = "CANCELLED" /\ order.reason # "timeout"
  \/ order.cancellation \in {"LOCAL_PENDING", "LOCAL_FAILED", "REFUNDING"}

(* Worker w goes on, ends well, or ends with an error.  The provider sends *)
(* its notification again until it is answered without an error.           *)
Go(w, step) == job' = [job EXCEPT ![w].step = step] /\ UNCHANGED webhook
End(w) ==
  /\ job' = [job EXCEPT ![w] = Free]
  /\ webhook' = IF job[w].for = "webhook" THEN "acknowledged" ELSE webhook
Throw(w) == job' = [job EXCEPT ![w] = Free] /\ UNCHANGED webhook

-------------------------------------------------------------------------------
(* The customer pays in the payment window, which does not know whether    *)
(* the order still stands.                                                 *)
Pay ==
  /\ provider.status = "READY"
  /\ provider' = [provider EXCEPT !.status = "PAID"]
  /\ webhook' = "due"
  /\ UNCHANGED <<payment, claim, stray, refund, order, finalRefund, amount, job>>

(* handleWebhook, checkOrderPayment and the clean-up job look the payment  *)
(* up; the latter two only for a PENDING order.                            *)
LookUpPayment(w) ==
  /\ job[w] = Free /\ provider.status = "PAID"
  /\ \/ webhook = "due" /\ job' = [job EXCEPT ![w] = [step |-> "lookedUp", for |-> "webhook"]]
     \/ order.status = "PENDING" /\ job' = [job EXCEPT ![w] = [step |-> "lookedUp", for |-> "us"]]
  /\ UNCHANGED <<refundVars, order, finalRefund, amount, webhook>>

(* Whatever is not PAID counts as not paid, a payment refunded meanwhile   *)
(* included.                                                               *)
UnpaidReadyOnly == provider.status = "READY"
Unpaid == provider.status # "PAID"

LookUpUnpaid(w) ==
  /\ job[w] = Free /\ Unpaid /\ order.status = "PENDING"
  /\ job' = [job EXCEPT ![w] = [step |-> "timeOut", for |-> "us"]]
  /\ UNCHANGED <<refundVars, order, finalRefund, amount, webhook>>

(* The provider's payment may be cancelled by the time its webhook is      *)
(* handled: then there is nothing to finalise.                             *)
WebhookTooLate(w) ==
  /\ job[w] = Free /\ webhook = "due" /\ provider.status = "CANCELLED"
  /\ webhook' = "acknowledged"
  /\ UNCHANGED <<refundVars, order, finalRefund, amount, job>>

CancelPendingOrder(reason) ==
  order' = IF order.status = "PENDING"
           THEN [order EXCEPT !.status = "CANCELLED", !.reason = reason] ELSE order

TimeOutOrder(w) ==
  /\ job[w].step = "timeOut"
  /\ CancelPendingOrder("timeout") /\ End(w)
  /\ UNCHANGED <<refundVars, finalRefund, amount>>

(* A failed attempt at paying is reported, possibly after a later one      *)
(* succeeded.                                                              *)
PaymentFailed ==
  /\ order.status = "PENDING"
  /\ CancelPendingOrder("payment_failed")
  /\ UNCHANGED <<refundVars, finalRefund, amount, webhook, job>>

(* finalizePaidOrder reads the order outside the transaction first.        *)
ReadOrder(w) ==
  /\ job[w].step = "lookedUp"
  /\ IF ~CanFinalize /\ ~SettlementCandidate THEN End(w)
     ELSE Go(w, IF amount = "differs" THEN "claimFinal" ELSE "settle")
  /\ UNCHANGED <<refundVars, order, finalRefund, amount>>

WritePaidPayment == payment' = "PAID" /\ claim' = NoClaim

RefundNeededOnlyAtFirst == payment = "NONE"
RefundNeeded == payment # "CANCELLED"

SettleCancelledOrder(w) ==
  /\ SettlementCandidate
  /\ IF RefundNeeded THEN Go(w, "settleRefund") ELSE End(w)
  /\ IF payment = "NONE" THEN WritePaidPayment ELSE UNCHANGED <<payment, claim>>
  /\ UNCHANGED order

AcceptOrder(w) ==
  /\ ~SettlementCandidate /\ CanFinalize
  /\ order' = [order EXCEPT !.status = "ACCEPTED"]
  /\ WritePaidPayment
  /\ End(w)

(* A late order finds its places taken. *)
RejectLateOrder(w) ==
  /\ ~SettlementCandidate /\ CanFinalize /\ TimedOut
  /\ Go(w, "claimFinal")
  /\ UNCHANGED <<payment, claim, order>>

LeaveOrder(w) ==
  /\ ~SettlementCandidate /\ ~CanFinalize
  /\ End(w)
  /\ UNCHANGED <<payment, claim, order>>

SettlePayment(w) ==
  /\ job[w].step = "settle"
  /\ SettleCancelledOrder(w) \/ AcceptOrder(w) \/ RejectLateOrder(w) \/ LeaveOrder(w)
  /\ UNCHANGED <<provider, stray, refund, finalRefund, amount>>

(* refundByOrderId ended for the finaliser; an error is written into the   *)
(* order without looking at it.                                            *)
SettlementRefunded(w) ==
  /\ job[w].step = "settleRefund" /\ refund[w].pc \in Finished
  /\ refund' = [refund EXCEPT ![w] = Idle]
  /\ IF refund[w].pc = "returned" THEN End(w) ELSE Go(w, "markRefundFailed")
  /\ UNCHANGED <<payment, claim, provider, stray, order, finalRefund, amount>>

MarkRefundFailed(w) ==
  /\ job[w].step = "markRefundFailed"
  /\ order' = [order EXCEPT !.cancellation = "REFUND_FAILED"]
  /\ Throw(w)
  /\ UNCHANGED <<refundVars, finalRefund, amount>>

-------------------------------------------------------------------------------
(* refundWithFinalizationOwnership.  An order of the wrong amount is       *)
(* cancelled afterwards; a late one is already.                            *)
AfterFinalRefund(w) == IF amount = "differs" THEN Go(w, "cancelMismatch") ELSE End(w)

FinalRefundHandled ==
  \/ finalRefund.status = "REFUNDED" \/ order.lateRefund = "recorded"
  \/ payment = "CANCELLED"
  \/ claim.status # "NONE" /\ claim.lease = "live"
  \/ finalRefund.status = "CLAIMED" /\ finalRefund.lease = "live"

OwnsFinalRefund(w) == finalRefund.status # "NONE" /\ finalRefund.token = w
SetFinalRefund(w, status) ==
  finalRefund' = [status |-> status, token |-> w, lease |-> "live"]

FirstFinalStep == IF finalRefund.status = "NONE" THEN "postFinal" ELSE "readFinal"

ClaimFinalizationRefund(w) ==
  /\ job[w].step = "claimFinal"
  /\ \/ FinalRefundHandled /\ AfterFinalRefund(w) /\ UNCHANGED finalRefund
     \/ /\ ~FinalRefundHandled
        /\ SetFinalRefund(w, IF finalRefund.status = "NONE" THEN "CLAIMED" ELSE "UNKNOWN")
        /\ Go(w, FirstFinalStep)
  /\ UNCHANGED <<refundVars, order, amount>>

(* A late refund is recorded in the books before the marker is closed.     *)
RecordStep == IF amount = "differs" THEN "markFinal" ELSE "recordLate"

ReadFinal(w) ==
  /\ job[w].step = "readFinal"
  /\ Go(w, CASE provider.status = "CANCELLED" -> RecordStep
             [] provider.status = "PAID" -> "recheckFinal"
             [] OTHER -> "uncertainFinal")
  /\ UNCHANGED <<refundVars, order, finalRefund, amount>>

ReadFinalFails(w) ==
  /\ job[w].step = "readFinal"
  /\ Go(w, "uncertainFinal")
  /\ UNCHANGED <<refundVars, order, finalRefund, amount>>

RecheckFinal(w) ==
  /\ job[w].step = "recheckFinal"
  /\ IF OwnsFinalRefund(w) THEN Go(w, "postFinal") ELSE AfterFinalRefund(w)
  /\ UNCHANGED <<refundVars, order, finalRefund, amount>>

(* Without a key the provider refuses to cancel a payment twice.           *)
PostFinal(w) ==
  /\ job[w].step = "postFinal" /\ provider.status = "PAID"
  /\ provider' = Cancelled("finalization")
  /\ Go(w, RecordStep)
  /\ UNCHANGED <<payment, claim, stray, refund, order, finalRefund, amount>>

AfterFailedFinalPostOptimistic == RecordStep
AfterFailedFinalPost == "uncertainFinal"

PostFinalFails(w) ==
  /\ job[w].step = "postFinal"
  /\ stray' = stray \union {"finalization"}
  /\ Go(w, AfterFailedFinalPost)
  /\ UNCHANGED <<payment, claim, provider, refund, order, finalRefund, amount>>

RecordLateRefund(w) ==
  /\ job[w].step = "recordLate"
  /\ IF OwnsFinalRefund(w) /\ order.lateRefund = "none"
     THEN /\ order' = [order EXCEPT !.lateRefund = "recorded"]
          /\ payment' = "CANCELLED" /\ claim' = NoClaim
     ELSE UNCHANGED <<order, payment, claim>>
  /\ Go(w, "markFinal")
  /\ UNCHANGED <<provider, stray, refund, finalRefund, amount>>

MarkFinalRefunded(w) ==
  /\ job[w].step = "markFinal"
  /\ finalRefund' = IF OwnsFinalRefund(w) THEN [finalRefund EXCEPT !.status = "REFUNDED"]
                    ELSE finalRefund
  /\ AfterFinalRefund(w)
  /\ UNCHANGED <<refundVars, order, amount>>

PersistUncertainFinal(w) ==
  /\ job[w].step = "uncertainFinal"
  /\ IF OwnsFinalRefund(w) THEN SetFinalRefund(w, "UNKNOWN") ELSE UNCHANGED finalRefund
  /\ Throw(w)
  /\ UNCHANGED <<refundVars, order, amount>>

CancelMismatch(w) ==
  /\ job[w].step = "cancelMismatch"
  /\ CancelPendingOrder("amount_mismatch") /\ End(w)
  /\ UNCHANGED <<refundVars, finalRefund, amount>>

-------------------------------------------------------------------------------
(* RoundOrderLifecycleService.cancel for the customer or the seller.       *)
SetCancellation(status) == order' = [order EXCEPT !.cancellation = status]

ClaimRefundOf(w, needsRefund) == Go(w, IF needsRefund THEN "cancelRefund" ELSE "applyLocal")

ClaimCancellation(w) ==
  /\ job[w] = Free
  /\ CASE order.status = "CANCELLED" ->
            /\ order.cancellation # "COMPLETED" \/ payment = "PAID"
            /\ ClaimRefundOf(w, payment = "PAID") /\ UNCHANGED order
       [] order.status # "CANCELLED" /\ order.cancellation = "REFUNDING" ->
            ClaimRefundOf(w, payment = "PAID") /\ UNCHANGED order
       [] order.status # "CANCELLED" /\ order.cancellation \in {"LOCAL_PENDING", "LOCAL_FAILED"} ->
            Go(w, "applyLocal") /\ UNCHANGED order
       [] OTHER ->
            /\ order.status \in {"PENDING", "ACCEPTED"}
            /\ LET needsRefund == order.status # "PENDING" \/ payment = "PAID"
               IN /\ SetCancellation(IF needsRefund THEN "REFUNDING" ELSE "LOCAL_PENDING")
                  /\ ClaimRefundOf(w, needsRefund)
  /\ UNCHANGED <<refundVars, finalRefund, amount>>

(* refundByOrderId and the refunds of redelivery fees ended; fees that are *)
(* not settled count as an error.                                          *)
CancellationRefunded(w) ==
  /\ job[w].step \in {"cancelRefund", "cancelRefundAgain"} /\ refund[w].pc \in Finished
  /\ refund' = [refund EXCEPT ![w] = Idle]
  /\ \/ /\ refund[w].pc = "returned"
        /\ Go(w, IF job[w].step = "cancelRefund" THEN "refundDone" ELSE "refundDoneAgain")
     \/ Go(w, "refundFailed")
  /\ UNCHANGED <<payment, claim, provider, stray, order, finalRefund, amount>>

(* recordCancellationState writes whatever the order's state is by then.   *)
RecordRefundDone(w) ==
  /\ job[w].step \in {"refundDone", "refundDoneAgain"}
  /\ SetCancellation("LOCAL_PENDING")
  /\ Go(w, IF job[w].step = "refundDone" THEN "applyLocal" ELSE "applyLocalAgain")
  /\ UNCHANGED <<refundVars, finalRefund, amount>>

RecordFailure(w) ==
  /\ job[w].step \in {"refundFailed", "localFailed"}
  /\ SetCancellation(IF job[w].step = "refundFailed" THEN "REFUND_FAILED" ELSE "LOCAL_FAILED")
  /\ Throw(w)
  /\ UNCHANGED <<refundVars, finalRefund, amount>>

StillPaid == payment = "PAID"

ApplyLocalCancellation(w) ==
  /\ job[w].step \in {"applyLocal", "applyLocalAgain"}
  /\ CASE order.status # "CANCELLED" /\ order.cancellation \notin {"LOCAL_PENDING", "LOCAL_FAILED"} ->
            Go(w, "localFailed") /\ UNCHANGED order
       [] (order.status = "CANCELLED" \/ order.cancellation \in {"LOCAL_PENDING", "LOCAL_FAILED"})
            /\ StillPaid ->
            /\ SetCancellation("REFUNDING")
            /\ IF job[w].step = "applyLocal" THEN Go(w, "cancelRefundAgain") ELSE Throw(w)
       [] order.status = "CANCELLED" /\ ~StillPaid ->
            SetCancellation("COMPLETED") /\ Go(w, "cancelSettlement")
       [] order.status \notin {"PENDING", "ACCEPTED", "CANCELLED"} /\ ~StillPaid
            /\ order.cancellation \in {"LOCAL_PENDING", "LOCAL_FAILED"} ->
            Go(w, "localFailed") /\ UNCHANGED order
       [] OTHER ->
            /\ order' = [order EXCEPT !.status = "CANCELLED", !.reason = "customer",
                                      !.cancellation = "COMPLETED"]
            /\ Go(w, "cancelSettlement")
  /\ UNCHANGED <<refundVars, finalRefund, amount>>

ApplyLocalFails(w) ==
  /\ job[w].step \in {"applyLocal", "applyLocalAgain"}
  /\ Go(w, "localFailed")
  /\ UNCHANGED <<refundVars, order, finalRefund, amount>>

CancelSettlement(w) ==
  /\ job[w].step = "cancelSettlement"
  /\ End(w) \/ Go(w, "localFailed")
  /\ UNCHANGED <<refundVars, order, finalRefund, amount>>

-------------------------------------------------------------------------------
(* The seller or driver takes the order out for delivery.                  *)
MayDispatchWhileRefunding == order.cancellation # "LOCAL_PENDING"
MayDispatch == order.cancellation \notin InProgress

DispatchOrder ==
  /\ order.status = "ACCEPTED" /\ MayDispatch
  /\ order' = [order EXCEPT !.status = "DELIVERING"]
  /\ UNCHANGED <<refundVars, finalRefund, amount, webhook, job>>

RefundJob(w) ==
  /\ job[w].step \in {"settleRefund", "cancelRefund", "cancelRefundAgain"}
  /\ RefundByOrderId(w) \/ RefundSteps(w)
  /\ UNCHANGED orderVars

CrashJob(w) ==
  /\ job[w] # Free
  /\ job' = [job EXCEPT ![w] = Free]
  /\ refund' = [refund EXCEPT ![w] = Idle]
  /\ UNCHANGED <<payment, claim, provider, stray, order, finalRefund, amount, webhook>>

FinalLeaseLapses ==
  /\ finalRefund.lease = "live"
  /\ finalRefund' = [finalRefund EXCEPT !.lease = "lapsed"]
  /\ UNCHANGED <<refundVars, order, amount, webhook, job>>

Finalize(w) ==
  \/ LookUpPayment(w) \/ LookUpUnpaid(w) \/ WebhookTooLate(w) \/ TimeOutOrder(w) \/ ReadOrder(w)
  \/ SettlePayment(w) \/ SettlementRefunded(w) \/ MarkRefundFailed(w)
  \/ ClaimFinalizationRefund(w) \/ ReadFinal(w) \/ ReadFinalFails(w) \/ RecheckFinal(w)
  \/ PostFinal(w) \/ PostFinalFails(w) \/ RecordLateRefund(w) \/ MarkFinalRefunded(w)
  \/ PersistUncertainFinal(w) \/ CancelMismatch(w)

CancelOrder(w) ==
  \/ ClaimCancellation(w) \/ CancellationRefunded(w) \/ RecordRefundDone(w) \/ RecordFailure(w)
  \/ ApplyLocalCancellation(w) \/ ApplyLocalFails(w) \/ CancelSettlement(w)

OrderInit ==
  /\ payment = "NONE" /\ claim = NoClaim
  /\ provider = [status |-> "READY", by |-> Nobody]
  /\ stray = {}
  /\ refund = [w \in Workers |-> Idle]
  /\ order = [status |-> "PENDING", reason |-> "none", cancellation |-> "none", lateRefund |-> "none"]
  /\ finalRefund = [status |-> "NONE", token |-> Nobody, lease |-> "lapsed"]
  /\ amount \in Amounts
  /\ webhook = "none"
  /\ job = [w \in Workers |-> Free]

OrderNext ==
  \/ \E w \in Finalizers : Finalize(w)
  \/ \E w \in Cancellers : CancelOrder(w)
  \/ \E w \in Workers : RefundJob(w)
  \/ \E w \in Crashing : CrashJob(w)
  \/ Pay \/ PaymentFailed \/ DispatchOrder \/ FinalLeaseLapses
  \/ (StrayRequestLands \/ LeaseLapses) /\ UNCHANGED orderVars

OrderSpec == OrderInit /\ [][OrderNext]_vars

(* Somebody goes on handling the payment: the clean-up job runs every      *)
(* minute, the provider repeats its notification until it is answered, and *)
(* at least one finaliser does not crash.  Leases end, and the provider's  *)
(* calls succeed some time if they are made again and again.               *)
OrderFairness ==
  /\ WF_vars(FinalLeaseLapses)
  /\ WF_vars(LeaseLapses /\ UNCHANGED orderVars)
  /\ \A w \in Finalizers \ Crashing :
       /\ WF_vars(Finalize(w) /\ job[w] # Free) /\ WF_vars(RefundJob(w))
       /\ SF_vars(LookUpPayment(w)) /\ SF_vars(LookUpUnpaid(w))
       /\ SF_vars(ReadFinal(w)) /\ SF_vars(PostFinal(w))
FairOrderSpec == OrderSpec /\ OrderFairness
-------------------------------------------------------------------------------
(* The documents keep their types; only a payment that counts as paid      *)
(* carries a refund claim, a cancelled order says why, and a worker is in  *)
(* refundByOrderId only while its caller waits for it.                     *)
OrderTypeOK ==
  /\ payment \in {"NONE", "PAID", "CANCELLED"}
  /\ claim \in [status : {"NONE", "CLAIMED", "UNKNOWN"}, token : Workers \union {Nobody},
                key : Workers \union {Nobody}, lease : {"live", "lapsed"}]
  /\ claim.status # "NONE" => payment = "PAID"
  /\ provider \in [status : {"READY", "PAID", "CANCELLED"},
                   by : Workers \union {Nobody, "finalization"}]
  /\ stray \subseteq Workers \union {"finalization"}
  /\ refund \in [Workers -> [pc : Steps, key : Workers \union {Nobody}]]
  /\ order \in [status : {"PENDING", "ACCEPTED", "DELIVERING", "CANCELLED"},
                reason : {"none", "timeout", "payment_failed", "amount_mismatch", "customer"},
                cancellation : InProgress \union {"none", "COMPLETED"},
                lateRefund : {"none", "recorded"}]
  /\ order.status = "CANCELLED" => order.reason # "none"
  /\ finalRefund \in [status : {"NONE", "CLAIMED", "UNKNOWN", "REFUNDED"},
                      token : Workers \union {Nobody}, lease : {"live", "lapsed"}]
  /\ webhook \in {"none", "due", "acknowledged"}
  /\ job \in [Workers -> [step : {"free"} \union FinalizerSteps \union CancellerSteps,
                         for : {"nobody", "webhook", "us"}]]
  /\ \A w \in Workers : refund[w].pc # "idle" =>
       job[w].step \in {"settleRefund", "cancelRefund", "cancelRefundAgain"}

(* The books say refunded, or the direct refund's marker says REFUNDED,    *)
(* only when the provider returned the money; and a payment is booked as   *)
(* paid only after it was made (completeFinalizationRefund, completeRefund *)
(* and writePaidPaymentInTransaction, all decided from earlier reads).     *)
BooksMatchProvider ==
  /\ payment = "CANCELLED" \/ finalRefund.status = "REFUNDED" => provider.status = "CANCELLED"
  /\ payment = "PAID" => provider.status # "READY"

(* An order that goes out for delivery was paid, and the money is not on   *)
(* its way back: updateStatus refuses while a cancellation is in progress, *)
(* and no cancellation, settlement or stray request refunds it later.      *)
(* (For an order that was timed out before, see LatePaymentsSettleOneWay.) *)
DeliveredOrdersArePaid ==
  order.status = "DELIVERING" /\ order.reason = "none" =>
    payment = "PAID" /\ provider.status = "PAID"

(* Money paid for a cancelled order is never forgotten: the provider still *)
(* owes us its notification, or a claim in the payment or the order records*)
(* that a refund was begun.  It is not enough that somebody is at work,    *)
(* because he may crash.                                                   *)
MoneyIsAccountedFor ==
  order.status = "CANCELLED" /\ provider.status = "PAID" =>
    \/ webhook = "due"
    \/ claim.status # "NONE" \/ finalRefund.status \in {"CLAIMED", "UNKNOWN"}

(* The clean-up job leaves no order PENDING: it is accepted or cancelled,  *)
(* although refunds fail, claims are taken over and workers crash.         *)
PendingOrdersEnd == order.status = "PENDING" ~> order.status # "PENDING"

(* The comment on CANCELLATION_IN_PROGRESS_STATUSES says that no path      *)
(* takes a cancellation back, so a failed refund counts as a cancellation  *)
(* that waits for its retry.                                               *)
CancellationsAreNotReverted ==
  [][order.cancellation \in InProgress /\ order.status # "ACCEPTED" =>
     order'.status # "ACCEPTED"]_vars

(* A payment found after the time-out either gets its places again and     *)
(* makes the order good, or is refunded in full: never both.               *)
LatePaymentsSettleOneWay ==
  ~(order.lateRefund = "recorded" /\ order.status \in {"ACCEPTED", "DELIVERING"})
===============================================================================
