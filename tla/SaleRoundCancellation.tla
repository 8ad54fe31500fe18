------------------------- MODULE SaleRoundCancellation -------------------------
(***************************************************************************)
(* The cancellation of a sale round, SaleRoundStateService.cancel.  An     *)
(* administrator's request claims the round for five minutes, cancels and  *)
(* refunds its orders one by one, extends the claim before each, and at    *)
(* last cancels the round.  A request that dies or is too slow loses the   *)
(* claim to the next one.  Meanwhile customers and sellers cancel the same *)
(* orders, pay for them, and deliver them.                                 *)
(*                                                                         *)
(* Each transaction is one action.  The refund between them is refund by   *)
(* refundByOrderId (see PaymentRefund), which no claim on the round        *)
(* protects: a request that lost the claim may still be refunding.         *)
(***************************************************************************)
EXTENDS SaleRoundState, FiniteSets

CONSTANTS
  Orders,         \* the checkouts of the round
  Administrators, \* requests that cancel the round
  Cancellers,     \* requests that cancel single orders
  Nobody,         \* none of them, and no order
  Faulty,         \* requests that may die, or be slower than their claim
  LatePayers,     \* orders whose payment may be found after a cancellation began
  Holdable        \* orders whose delivery may be put on hold

Workers == Administrators \union Cancellers

ASSUME CancellationAssumption ==
  /\ Administrators \intersect Cancellers = {}
  /\ Nobody \notin Workers \union Orders
  /\ Faulty \subseteq Workers /\ LatePayers \subseteq Orders /\ Holdable \subseteq Orders

VARIABLES
  round, \* saleRounds document: status, closeReason, cancellation
  claim, \* its claim: owner and lease
  order, \* order[o]: orders and payments document of o
  work   \* work[w]: the step of w, the order it is at, and those it has before it

vars == <<round, claim, order, work>>

InProgress == {"REFUNDING", "LOCAL_PENDING", "LOCAL_FAILED", "REFUND_FAILED"}
RefundSteps == {"refund", "refundAgain"}
Steps == {"idle", "claimRound", "listOrders", "nextOrder", "claimOrder", "refundFailed",
          "refundDone", "refundDoneAgain", "applyLocal", "applyLocalAgain", "settle",
          "localFailed", "assertLease", "finalize", "failed"} \union RefundSteps

Idle == [step |-> "idle", order |-> Nobody, todo |-> {}]

NoClaim == [owner |-> Nobody, lease |-> "lapsed"]
ClaimGivenUp == NoClaim

(* ACCEPTED stands for ACCEPTED, PREPARING and DELIVERY_HELD, from which   *)
(* an order may be cancelled or taken out.  A payment is LATE when it was  *)
(* booked PAID after a cancellation had begun, to be refunded by the       *)
(* finaliser that booked it (OrderPayment's SettleCancelledOrder).         *)
Paid(o) == order[o].payment \in {"PAID", "LATE"}
Cancellable(o) == order[o].status \in {"PENDING", "ACCEPTED"}
CancellationRunning(o) == order[o].cancellation \in InProgress

CancellationPending(o) ==
  \/ order[o].status \notin {"NONE", "DELIVERED", "CANCELLED"}
  \/ order[o].status = "CANCELLED" /\ order[o].cancellation \notin {"none", "COMPLETED"}

Owns(w) == round.cancellation = "CANCELLING" /\ claim.owner = w /\ claim.lease = "live"

(* Every transaction of a round's cancellation on an order asserts the     *)
(* claim on the round; a single order's cancellation has none to assert.   *)
(* (Definitions named after a fault, here FencedByNobody, are not used: a  *)
(* property notices when they stand for the one below them.)               *)
FencedByNobody(w) == TRUE
Fenced(w) == w \in Administrators => Owns(w)

Goto(w, step) == work' = [work EXCEPT ![w].step = step]
Fail(w) == IF w \in Administrators THEN Goto(w, "failed") ELSE work' = [work EXCEPT ![w] = Idle]
Done(w) == IF w \in Administrators THEN Goto(w, "assertLease") ELSE work' = [work EXCEPT ![w] = Idle]

SetCancellation(o, status) == order' = [order EXCEPT ![o].cancellation = status]
-------------------------------------------------------------------------------
(* The round. *)

(* Orders in delivery are looked for before, and outside, the claim.       *)
AssertNoOrdersInDelivery(w) ==
  /\ work[w] = Idle
  /\ \A o \in Orders : order[o].status # "DELIVERING"
  /\ Goto(w, "claimRound")
  /\ UNCHANGED <<round, claim, order>>

ClaimTakenEvenLapsed == round.cancellation = "CANCELLING"
ClaimTaken == round.cancellation = "CANCELLING" /\ claim.lease = "live"

ClaimRound(w) ==
  /\ work[w].step = "claimRound"
  /\ IF "CANCELLED" \in NextStatuses(round.status) /\ ~ClaimTaken
     THEN /\ round' = [round EXCEPT !.cancellation = "CANCELLING"]
          /\ claim' = [owner |-> w, lease |-> "live"]
          /\ Goto(w, "listOrders")
     ELSE /\ UNCHANGED <<round, claim>>
          /\ work' = [work EXCEPT ![w] = Idle]
  /\ UNCHANGED order

(* The orders are read once, after the claim. *)
ListOrders(w) ==
  /\ work[w].step = "listOrders"
  /\ work' = [work EXCEPT ![w].step = "nextOrder",
                          ![w].todo = {o \in Orders : CancellationPending(o)}]
  /\ UNCHANGED <<round, claim, order>>

(* The claim is renewed before each order and before the end. *)
NextOrder(w) ==
  /\ work[w].step = "nextOrder"
  /\ \/ ~Owns(w) /\ Fail(w)
     \/ Owns(w) /\ work[w].todo = {} /\ Goto(w, "finalize")
     \/ /\ Owns(w)
        /\ \E o \in work[w].todo :
             work' = [work EXCEPT ![w] = [step |-> "claimOrder", order |-> o, todo |-> @.todo \ {o}]]
  /\ UNCHANGED <<round, claim, order>>

AssertLease(w) ==
  /\ work[w].step = "assertLease"
  /\ IF Owns(w) THEN Goto(w, "nextOrder") ELSE Fail(w)
  /\ UNCHANGED <<round, claim, order>>

FinalizeCancellation(w) ==
  /\ work[w].step = "finalize"
  /\ IF round.status = "CANCELLED" \/ (Owns(w) /\ \A o \in Orders : ~CancellationPending(o))
     THEN /\ round' = [status |-> "CANCELLED", closeReason |-> "none", cancellation |-> "COMPLETED"]
          /\ claim' = ClaimGivenUp
          /\ work' = [work EXCEPT ![w] = Idle]
     ELSE Fail(w) /\ UNCHANGED <<round, claim>>
  /\ UNCHANGED order

RecordCancellationFailure(w) ==
  /\ work[w].step = "failed"
  /\ IF Owns(w)
     THEN /\ round' = [round EXCEPT !.cancellation = "LOCAL_FAILED"]
          /\ claim' = ClaimGivenUp
     ELSE UNCHANGED <<round, claim>>
  /\ work' = [work EXCEPT ![w] = Idle]
  /\ UNCHANGED order

(* updateStatus and complete do not look at a cancellation. *)
CloseRound ==
  /\ "CLOSED" \in NextStatuses(round.status)
  /\ round' = [round EXCEPT !.status = "CLOSED", !.closeReason = "MANUAL"]
  /\ UNCHANGED <<claim, order, work>>

CompleteRound ==
  /\ "COMPLETED" \in NextStatuses(round.status)
  /\ \A o \in Orders : ~CancellationPending(o)
  /\ round' = [round EXCEPT !.status = "COMPLETED"]
  /\ UNCHANGED <<claim, order, work>>
-------------------------------------------------------------------------------
(* One order's cancellation, RoundOrderLifecycleService.cancel.            *)

StartCancel(w, o) ==
  /\ work[w] = Idle
  /\ order[o].status # "NONE"
  /\ work' = [work EXCEPT ![w] = [step |-> "claimOrder", order |-> o, todo |-> {}]]
  /\ UNCHANGED <<round, claim, order>>

RefundIf(w, needed) == Goto(w, IF needed THEN "refund" ELSE "applyLocal")

ContinueClaimed(w, o) ==
  /\ \/ order[o].status = "CANCELLED" /\ (order[o].cancellation # "COMPLETED" \/ Paid(o))
     \/ order[o].status # "CANCELLED" /\ order[o].cancellation = "REFUNDING"
  /\ RefundIf(w, Paid(o))
  /\ UNCHANGED order

AlreadyCancelled(w, o) ==
  /\ order[o].status = "CANCELLED" /\ order[o].cancellation = "COMPLETED" /\ ~Paid(o)
  /\ Done(w)
  /\ UNCHANGED order

ContinueLocal(w, o) ==
  /\ order[o].status # "CANCELLED" /\ order[o].cancellation \in {"LOCAL_PENDING", "LOCAL_FAILED"}
  /\ Goto(w, "applyLocal")
  /\ UNCHANGED order

ClaimFresh(w, o) ==
  LET needsRefund == order[o].status # "PENDING" \/ Paid(o)
  IN /\ Cancellable(o)
     /\ order[o].cancellation \notin {"REFUNDING", "LOCAL_PENDING", "LOCAL_FAILED"}
     /\ SetCancellation(o, IF needsRefund THEN "REFUNDING" ELSE "LOCAL_PENDING")
     /\ RefundIf(w, needsRefund)

(* An order on its way or delivered, with no cancellation running. *)
RefuseCancellation(w, o) ==
  /\ ~Cancellable(o) /\ order[o].status # "CANCELLED"
  /\ order[o].cancellation \notin {"REFUNDING", "LOCAL_PENDING", "LOCAL_FAILED"}
  /\ Fail(w)
  /\ UNCHANGED order

ClaimCancellation(w) ==
  LET o == work[w].order
  IN /\ work[w].step = "claimOrder"
     /\ \/ ~Fenced(w) /\ Fail(w) /\ UNCHANGED order
        \/ Fenced(w) /\ AlreadyCancelled(w, o)
        \/ Fenced(w) /\ ContinueClaimed(w, o)
        \/ Fenced(w) /\ ContinueLocal(w, o)
        \/ Fenced(w) /\ ClaimFresh(w, o)
        \/ Fenced(w) /\ RefuseCancellation(w, o)
     /\ UNCHANGED <<round, claim>>

AfterRefund(w) == Goto(w, IF work[w].step = "refund" THEN "refundDone" ELSE "refundDoneAgain")

(* The refund succeeds, or was made before. *)
Refunded(w) ==
  /\ work[w].step \in RefundSteps
  /\ order' = IF Paid(work[w].order)
              THEN [order EXCEPT ![work[w].order].payment = "CANCELLED"] ELSE order
  /\ AfterRefund(w)
  /\ UNCHANGED <<round, claim>>

(* Another attempt holds the refund's claim: refundByOrderId returns and   *)
(* leaves the payment to it.                                               *)
RefundLeftToAnother(w) ==
  /\ work[w].step \in RefundSteps
  /\ AfterRefund(w)
  /\ UNCHANGED <<round, claim, order>>

(* The refund fails, or succeeds and a redelivery fee's refund fails.      *)
RefundFails(w) ==
  /\ work[w].step \in RefundSteps
  /\ Goto(w, "refundFailed")
  /\ \/ UNCHANGED order
     \/ Paid(work[w].order) /\ order' = [order EXCEPT ![work[w].order].payment = "CANCELLED"]
  /\ UNCHANGED <<round, claim>>

RecordRefundDone(w) ==
  /\ work[w].step \in {"refundDone", "refundDoneAgain"}
  /\ IF Fenced(w)
     THEN /\ SetCancellation(work[w].order, "LOCAL_PENDING")
          /\ Goto(w, IF work[w].step = "refundDone" THEN "applyLocal" ELSE "applyLocalAgain")
     ELSE UNCHANGED order /\ Fail(w)
  /\ UNCHANGED <<round, claim>>

RecordFailure(w) ==
  /\ work[w].step \in {"refundFailed", "localFailed"}
  /\ IF Fenced(w)
     THEN SetCancellation(work[w].order,
                          IF work[w].step = "refundFailed" THEN "REFUND_FAILED" ELSE "LOCAL_FAILED")
     ELSE UNCHANGED order
  /\ Fail(w)
  /\ UNCHANGED <<round, claim>>

Applicable(o) ==
  order[o].status = "CANCELLED" \/ order[o].cancellation \in {"LOCAL_PENDING", "LOCAL_FAILED"}

StillPaidUnlessFirst(w, o) == Paid(o) /\ work[w].step = "applyLocalAgain"
StillPaid(w, o) == Paid(o)

CancelOrder(w, o) ==
  /\ Cancellable(o) \/ order[o].status = "CANCELLED"
  /\ order' = [order EXCEPT ![o].status = "CANCELLED", ![o].cancellation = "COMPLETED"]
  /\ Goto(w, "settle")

RefundOnceMore(w, o) ==
  /\ SetCancellation(o, "REFUNDING")
  /\ IF work[w].step = "applyLocal" THEN Goto(w, "refundAgain") ELSE Fail(w)

(* Any step on the order's own documents may fail with an error. *)
ApplyLocalCancellation(w) ==
  LET o == work[w].order
  IN /\ work[w].step \in {"applyLocal", "applyLocalAgain"}
     /\ \/ Goto(w, "localFailed") /\ UNCHANGED order
        \/ Fenced(w) /\ Applicable(o) /\ StillPaid(w, o) /\ RefundOnceMore(w, o)
        \/ Fenced(w) /\ Applicable(o) /\ ~StillPaid(w, o) /\ CancelOrder(w, o)
     /\ UNCHANGED <<round, claim>>

CancelSettlement(w) ==
  /\ work[w].step = "settle"
  /\ \/ Goto(w, "localFailed")
     \/ Fenced(w) /\ Done(w)
  /\ UNCHANGED <<round, claim, order>>
-------------------------------------------------------------------------------
(* What happens to the orders meanwhile. *)

OrderUnclaimed(o) == order[o].cancellation \notin {"REFUNDING", "LOCAL_PENDING", "LOCAL_FAILED"}

CreateOrder(o) ==
  /\ order[o].status = "NONE" /\ OrderWindowOpen(round, "open")
  /\ order' = [order EXCEPT ![o].status = "PENDING"]
  /\ UNCHANGED <<round, claim, work>>

(* Decided by a look at the provider that may be older than a refund.      *)
FinalizePaidOrder(o) ==
  /\ order[o].status = "PENDING" /\ OrderUnclaimed(o)
  /\ order' = [order EXCEPT ![o].status = "ACCEPTED", ![o].payment = "PAID"]
  /\ UNCHANGED <<round, claim, work>>

CancelPendingOrder(o) ==
  /\ order[o].status = "PENDING"
  /\ order' = [order EXCEPT ![o].status = "CANCELLED"]
  /\ UNCHANGED <<round, claim, work>>

(* A payment is found for an order that is being cancelled or was: it is   *)
(* booked, and its finaliser refunds it.                                   *)
BookLatePayment(o) ==
  /\ o \in LatePayers /\ order[o].payment = "NONE"
  /\ \/ order[o].status = "CANCELLED" /\ order[o].cancellation # "none"
     \/ order[o].status = "PENDING" /\ ~OrderUnclaimed(o)
  /\ order' = [order EXCEPT ![o].payment = "LATE"]
  /\ UNCHANGED <<round, claim, work>>

RefundLatePayment(o) ==
  /\ order[o].payment = "LATE"
  /\ order' = [order EXCEPT ![o].payment = "CANCELLED"]
  /\ UNCHANGED <<round, claim, work>>

LateRefundFails(o) ==
  /\ order[o].payment = "LATE"
  /\ SetCancellation(o, "REFUND_FAILED")
  /\ UNCHANGED <<round, claim, work>>

MayDispatchUnlessRefunding(o) == order[o].cancellation # "REFUNDING"
MayDispatch(o) == ~CancellationRunning(o)

DispatchOrder(o) ==
  /\ order[o].status = "ACCEPTED" /\ MayDispatch(o)
  /\ order' = [order EXCEPT ![o].status = "DELIVERING"]
  /\ UNCHANGED <<round, claim, work>>

DeliverOrder(o) ==
  /\ order[o].status = "DELIVERING" /\ MayDispatch(o)
  /\ order' = [order EXCEPT ![o].status = "DELIVERED"]
  /\ UNCHANGED <<round, claim, work>>

HoldDelivery(o) ==
  /\ o \in Holdable /\ order[o].status = "DELIVERING" /\ MayDispatch(o)
  /\ order' = [order EXCEPT ![o].status = "ACCEPTED"]
  /\ UNCHANGED <<round, claim, work>>

Crash(w) ==
  /\ w \in Faulty /\ work[w] # Idle
  /\ work' = [work EXCEPT ![w] = Idle]
  /\ UNCHANGED <<round, claim, order>>

(* Five minutes pass without a renewal: the owner died, or is slow. *)
LeaseLapses ==
  /\ claim.lease = "live"
  /\ claim.owner \in Faulty \/ work[claim.owner] = Idle
  /\ claim' = [claim EXCEPT !.lease = "lapsed"]
  /\ UNCHANGED <<round, order, work>>
-------------------------------------------------------------------------------
Init ==
  /\ round = [status |-> "OPEN", closeReason |-> "none", cancellation |-> "none"]
  /\ claim = NoClaim
  /\ order = [o \in Orders |-> [status |-> "NONE", cancellation |-> "none", payment |-> "NONE"]]
  /\ work = [w \in Workers |-> Idle]

CancelRound(w) ==
  \/ AssertNoOrdersInDelivery(w) \/ ClaimRound(w) \/ ListOrders(w) \/ NextOrder(w)
  \/ AssertLease(w) \/ FinalizeCancellation(w) \/ RecordCancellationFailure(w)

Cancel(w) ==
  \/ ClaimCancellation(w) \/ Refunded(w) \/ RefundLeftToAnother(w) \/ RefundFails(w)
  \/ RecordRefundDone(w) \/ RecordFailure(w) \/ ApplyLocalCancellation(w) \/ CancelSettlement(w)

OrderStep(o) ==
  \/ CreateOrder(o) \/ FinalizePaidOrder(o) \/ CancelPendingOrder(o) \/ BookLatePayment(o)
  \/ RefundLatePayment(o) \/ LateRefundFails(o) \/ DispatchOrder(o) \/ DeliverOrder(o)
  \/ HoldDelivery(o)

Next ==
  \/ \E w \in Administrators : CancelRound(w)
  \/ \E w \in Cancellers, o \in Orders : StartCancel(w, o)
  \/ \E w \in Workers : Cancel(w) \/ Crash(w)
  \/ \E o \in Orders : OrderStep(o)
  \/ CloseRound \/ CompleteRound \/ LeaseLapses

Spec == Init /\ [][Next]_vars

(* An administrator repeats the request as the runbook says, when none is  *)
(* at work, until the round is cancelled.  In one that neither dies nor is *)
(* slow, a refund and a transaction succeed some time if they are tried    *)
(* again and again.  Orders on their way arrive; claims lapse.             *)
Fairness ==
  /\ WF_vars(LeaseLapses)
  /\ \A o \in Orders : WF_vars(DeliverOrder(o))
  /\ \A w \in Administrators \ Faulty :
       /\ SF_vars(AssertNoOrdersInDelivery(w) /\ ~ClaimTaken)
       /\ SF_vars(ClaimRound(w) /\ ~ClaimTaken)
       /\ SF_vars(Refunded(w))
       /\ SF_vars(ApplyLocalCancellation(w) /\ work'[w].step # "localFailed")
       /\ SF_vars(CancelSettlement(w) /\ work'[w].step # "localFailed")
       /\ WF_vars(work[w] # Idle /\ (CancelRound(w) \/ Cancel(w)))
FairSpec == Spec /\ Fairness
-------------------------------------------------------------------------------
(* The documents keep their types, a live claim belongs to a cancellation  *)
(* under way, and a request at work on an order is at one of the round's.  *)
Statuses == {"NONE", "PENDING", "ACCEPTED", "DELIVERING", "DELIVERED", "CANCELLED"}
OrderRecords ==
  [status : Statuses, cancellation : InProgress \union {"none", "COMPLETED"},
   payment : {"NONE", "PAID", "LATE", "CANCELLED"}]
OrderSteps == Steps \ {"idle", "claimRound", "listOrders", "nextOrder", "finalize",
                        "assertLease", "failed"}

TypeOK ==
  /\ round \in Rounds
  /\ claim \in [owner : Workers \union {Nobody}, lease : {"live", "lapsed"}]
  /\ claim.lease = "live" => claim.owner \in Administrators /\ round.cancellation = "CANCELLING"
  /\ order \in [Orders -> OrderRecords]
  /\ work \in [Workers -> [step : Steps, order : Orders \union {Nobody}, todo : SUBSET Orders]]
  /\ \A w \in Workers : work[w].step \in OrderSteps => work[w].order \in Orders

(* A cancelled round has nothing left to deliver, and what was paid for    *)
(* its orders was refunded (finalizeCancellation looks at the orders       *)
(* alone, and each order's cancellation may be finished by one request     *)
(* while others are at its refund).                                        *)
CancelledRoundIsSettled ==
  round.status = "CANCELLED" =>
    \A o \in Orders : /\ order[o].status \in {"NONE", "DELIVERED", "CANCELLED"}
                      /\ order[o].status = "CANCELLED" => order[o].payment # "PAID"

(* What is delivered is never refunded by a cancellation, although a       *)
(* request that lost the round's claim goes on to refund the order it was  *)
(* at: the mark on the order outlives the claim, and updateStatus respects *)
(* it.                                                                     *)
DeliveredOrdersKeepTheirMoney ==
  \A o \in Orders : order[o].status \in {"DELIVERING", "DELIVERED"} => order[o].payment = "PAID"

(* Requests that lost the claim write nothing into a cancelled round: none *)
(* of its orders is left with a cancellation that waits for a retry, unless*)
(* it is the finaliser of a late payment whose refund failed.              *)
CancelledRoundIsClosed ==
  round.status = "CANCELLED" =>
    \A o \in Orders : CancellationPending(o) =>
      order[o].status = "CANCELLED" /\ order[o].cancellation = "REFUND_FAILED"

(* A round's cancellation that was begun comes to an end if it is repeated:*)
(* no failure, crash, takeover or delivery leaves it where repeating it    *)
(* does not help.                                                          *)
CancellationEnds ==
  round.cancellation \in {"CANCELLING", "LOCAL_FAILED"} ~>
    round.status \in {"CANCELLED", "COMPLETED"}

(* The comment in cancel() says that orders in delivery stop it before the *)
(* first refund, so that no round is left half cancelled.                  *)
NoPartialCancellation ==
  ~ /\ round.cancellation = "LOCAL_FAILED"
    /\ \E o \in Orders : order[o].status = "CANCELLED" /\ order[o].payment = "CANCELLED"
    /\ \E o \in Orders : order[o].status = "DELIVERING"
===============================================================================
