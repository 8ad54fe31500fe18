------------------------------ MODULE LegacyShop ------------------------------
(***************************************************************************)
(* The shop without rounds.  Its orders take slots of a day's capacity, or *)
(* count towards a group purchase that is confirmed or given up at its     *)
(* deadline.  Customer, seller and admin cancel single orders under a claim*)
(* in the order; the run that decides a group purchase has a lease in the  *)
(* product and claims no order.  Both return the money through             *)
(* refundByOrderId, which lets whoever comes second pass (PaymentRefund).  *)
(***************************************************************************)
EXTENDS Quantities

CONSTANTS
  LegacyOrders,    \* orders of one day's capacity, or of one group product
  OrderedQuantity, \* how much each of them is for
  TotalCap,        \* the day's totalCap
  TargetQuantity, MinQuantity, \* of the group purchase
  LegacyCancellers,\* requests that cancel an order
  GroupRuns        \* runs of processGroupBuyWithLease

LegacyWorkers == LegacyCancellers \union GroupRuns

ASSUME LegacyAssumption ==
  /\ IsFiniteSet(LegacyOrders)
  /\ OrderedQuantity \in [LegacyOrders -> Nat \ {0}]
  /\ TotalCap \in Nat /\ TargetQuantity \in Nat /\ MinQuantity \in Nat
  /\ LegacyCancellers \intersect GroupRuns = {} /\ "nobody" \notin LegacyWorkers

VARIABLES
  saleType,        \* of the product: "normal" or "group"
  legacyOrder,     \* the orders with their cancellation and its claim
  legacyMoney,     \* their payments with the refund's claim; a token is kept
                   \* after the refund to tell who made it
  usedSlots,       \* dailyCaps
  currentQuantity, \* groupProductConfig
  product,         \* groupProductConfig: deadline, isProcessed, processingLease,
                   \* and whether a checkout has just reached the target
  canceller,       \* canceller[w]: the order w cancels, for whom, and its step
  groupRun         \* groupRun[g]: g's step, the orders it is still to decide,
                   \* to refund, and refunds at the moment

shopVars == <<saleType, legacyOrder, legacyMoney, usedSlots, currentQuantity, product>>
legacyVars == <<shopVars, canceller, groupRun>>

NoOrderYet == [status |-> "none", reason |-> "none", slot |-> "none",
               cancellation |-> "none", token |-> "nobody", lease |-> "over"]
NoMoney == [status |-> "none", claim |-> "NONE", token |-> "nobody"]
NoCall == [step |-> "idle", as |-> "none", order |-> "none"]
NoGroupRun == [step |-> "idle", targets |-> {}, toRefund |-> {}, refunding |-> {}]

PendingLegacyCancellations == {"REFUNDING", "LOCAL_FAILED", "REFUND_FAILED"}
CancellationPending(o) == legacyOrder[o].cancellation \in PendingLegacyCancellations
Status(o) == legacyOrder[o].status
SetOrder(o, record) == legacyOrder' = [legacyOrder EXCEPT ![o] = record]
-------------------------------------------------------------------------------
(* Capacity and quantity.  A slot is held until it is marked RELEASED; the *)
(* group's quantity has no mark, and is restored with the order's status.  *)

SlotFree(o) == usedSlots + OrderedQuantity[o] <= TotalCap

SlotsAfterReleaseUnmarked(o) ==
  IF saleType = "normal" THEN usedSlots - OrderedQuantity[o] ELSE usedSlots
SlotsAfterRelease(o) ==
  IF legacyOrder[o].slot = "HELD" THEN usedSlots - OrderedQuantity[o] ELSE usedSlots
SlotAfterRelease(o) == IF legacyOrder[o].slot = "HELD" THEN "RELEASED" ELSE legacyOrder[o].slot

(* Damaged counters stop the transaction. *)
ReleaseAllowed(o) ==
  /\ legacyOrder[o].slot = "HELD" => usedSlots >= OrderedQuantity[o] /\ usedSlots <= TotalCap
  /\ saleType = "group" => currentQuantity >= OrderedQuantity[o]

QuantityAfterRestore(o) ==
  IF saleType = "group" THEN currentQuantity - OrderedQuantity[o] ELSE currentQuantity
-------------------------------------------------------------------------------
(* Checkout, payment and time-out. *)

CreateLegacyOrder(o) ==
  /\ Status(o) = "none"
  /\ IF saleType = "normal"
     THEN /\ SlotFree(o)
          /\ usedSlots' = usedSlots + OrderedQuantity[o]
          /\ UNCHANGED <<currentQuantity, product>>
     ELSE /\ currentQuantity < TargetQuantity
          /\ currentQuantity' = currentQuantity + OrderedQuantity[o]
          /\ product' = [product EXCEPT
               !.reached = IF currentQuantity' >= TargetQuantity THEN "yes" ELSE @]
          /\ UNCHANGED usedSlots
  /\ SetOrder(o, [NoOrderYet EXCEPT !.status = "PENDING",
                    !.slot = IF saleType = "normal" THEN "HELD" ELSE "none"])
  /\ UNCHANGED <<saleType, legacyMoney, canceller, groupRun>>

PaidStatus == IF saleType = "group" THEN "RECRUITING" ELSE "ACCEPTED"
Booked(o) == legacyMoney' = [legacyMoney EXCEPT ![o] = [NoMoney EXCEPT !.status = "PAID"]]

(* The payment's first notice, or its repetition after the handler died    *)
(* between booking and refund.                                             *)
PaymentArrives(o) ==
  \/ legacyMoney[o].status = "none"
  \/ legacyMoney[o].status = "PAID" /\ legacyMoney[o].claim = "NONE" /\ Status(o) = "CANCELLED"
SettledByRefund(o) ==
  \/ Status(o) = "CANCELLED" /\ legacyOrder[o].reason # "timeout"
  \/ legacyOrder[o].cancellation \in {"LOCAL_FAILED", "REFUNDING"}
TimedOut(o) == Status(o) = "CANCELLED" /\ legacyOrder[o].reason = "timeout"

FinalizeLegacyOrder(o) ==
  /\ Status(o) = "PENDING" /\ PaymentArrives(o) /\ ~SettledByRefund(o)
  /\ SetOrder(o, [legacyOrder[o] EXCEPT !.status = PaidStatus])
  /\ Booked(o)
  /\ UNCHANGED <<saleType, usedSlots, currentQuantity, product, canceller, groupRun>>

(* A group order comes back without a look at the group.                   *)
FinalizeLateLegacyOrder(o) ==
  /\ TimedOut(o) /\ PaymentArrives(o) /\ ~SettledByRefund(o)
  /\ legacyOrder[o].slot = "RELEASED" => SlotFree(o)
  /\ usedSlots' = IF legacyOrder[o].slot = "RELEASED" THEN usedSlots + OrderedQuantity[o]
                  ELSE usedSlots
  /\ SetOrder(o, [legacyOrder[o] EXCEPT !.status = PaidStatus,
                    !.slot = IF @ = "RELEASED" THEN "HELD" ELSE @])
  /\ Booked(o)
  /\ UNCHANGED <<saleType, currentQuantity, product, canceller, groupRun>>

RefundLateLegacyPayment(o) ==
  /\ TimedOut(o) /\ PaymentArrives(o) /\ ~SettledByRefund(o)
  /\ legacyOrder[o].slot = "RELEASED" /\ ~SlotFree(o)
  /\ legacyMoney' = [legacyMoney EXCEPT ![o] = [NoMoney EXCEPT !.status = "CANCELLED"]]
  /\ UNCHANGED <<saleType, legacyOrder, usedSlots, currentQuantity, product, canceller, groupRun>>

(* The payment of an order that is being cancelled is booked and returned; *)
(* the handler may die in between, and the refund may fail.                *)
SettleCancelledLegacyOrder(o) ==
  /\ SettledByRefund(o) /\ PaymentArrives(o)
  /\ \/ Booked(o) /\ UNCHANGED legacyOrder
     \/ /\ legacyMoney' = [legacyMoney EXCEPT ![o] = [NoMoney EXCEPT !.status = "CANCELLED"]]
        /\ UNCHANGED legacyOrder
     \/ /\ legacyMoney' = [legacyMoney EXCEPT
             ![o] = [NoMoney EXCEPT !.status = "PAID", !.claim = "UNKNOWN"]]
        /\ SetOrder(o, [legacyOrder[o] EXCEPT !.cancellation = "REFUND_FAILED",
                          !.token = "nobody", !.lease = "over"])
  /\ UNCHANGED <<saleType, usedSlots, currentQuantity, product, canceller, groupRun>>

(* After 15 minutes, or after a payment of a wrong amount was returned.    *)
CancelPendingLegacyOrder(o, reason) ==
  /\ Status(o) = "PENDING"
  /\ usedSlots' = SlotsAfterRelease(o)
  /\ SetOrder(o, [legacyOrder[o] EXCEPT !.status = "CANCELLED", !.reason = reason,
                                        !.slot = SlotAfterRelease(o)])
  /\ legacyMoney' = IF reason = "timeout" THEN legacyMoney
                    ELSE [legacyMoney EXCEPT ![o] = [NoMoney EXCEPT !.status = "CANCELLED"]]
  /\ UNCHANGED <<saleType, currentQuantity, product, canceller, groupRun>>

(* PREPARING stands for DELIVERY_HELD too, DELIVERING for HUB_ARRIVED, and *)
(* DELIVERED for PICKED_UP and REVIEWED.                                   *)
LegacyTransitions ==
  [s \in {"ACCEPTED", "CONFIRMED", "PREPARING", "DELIVERING"} |->
     CASE s \in {"ACCEPTED", "CONFIRMED"} -> {"PREPARING"}
       [] s = "PREPARING" -> {"DELIVERING", "DELIVERED"}
       [] s = "DELIVERING" -> {"PREPARING", "DELIVERED"}]

MayAdvanceUnlessRefunding(o) == legacyOrder[o].cancellation # "REFUNDING"
MayAdvance(o) == ~CancellationPending(o)

AdvanceLegacyOrder(o) ==
  /\ Status(o) \in DOMAIN LegacyTransitions /\ MayAdvance(o)
  /\ \E status \in LegacyTransitions[Status(o)] :
       SetOrder(o, [legacyOrder[o] EXCEPT !.status = status])
  /\ UNCHANGED <<saleType, legacyMoney, usedSlots, currentQuantity, product, canceller, groupRun>>
-------------------------------------------------------------------------------
(* refundByOrderId: one owner at a time; without a payment, after a refund,*)
(* and beside an owner whose lease runs, it returns and has done nothing.  *)

RefundReturnsAtOnce(o) == legacyMoney[o].status # "PAID" \/ legacyMoney[o].claim = "CLAIMED"
TakeRefund(o, w) ==
  legacyMoney' = [legacyMoney EXCEPT ![o].claim = IF @ = "NONE" THEN "CLAIMED" ELSE "UNKNOWN",
                                     ![o].token = w]
OwnsRefund(o, w) == legacyMoney[o].claim # "NONE" /\ legacyMoney[o].token = w
RefundDone(o, w) ==
  legacyMoney' = IF OwnsRefund(o, w)
                 THEN [legacyMoney EXCEPT ![o].status = "CANCELLED", ![o].claim = "NONE"]
                 ELSE legacyMoney
RefundThrows(o, w) ==
  legacyMoney' = IF OwnsRefund(o, w) THEN [legacyMoney EXCEPT ![o].claim = "UNKNOWN"]
                 ELSE legacyMoney
-------------------------------------------------------------------------------
(* The cancellation of one order: claim, refund, local part, settlement.   *)

Cancellable == {"ACCEPTED", "CONFIRMED", "PREPARING"}
ClaimRuns(o) == legacyOrder[o].cancellation = "REFUNDING" /\ legacyOrder[o].lease = "live"
CancelledAgain(o) == Status(o) = "CANCELLED" /\ CancellationPending(o)

MayCancel(o, as) ==
  CASE as = "consumer" -> Status(o) = "RECRUITING" \/ CancelledAgain(o)
    [] as = "seller" -> Status(o) \in Cancellable
    [] as = "admin" -> \/ Status(o) \in Cancellable \/ CancelledAgain(o)
                       \/ Status(o) = "CANCELLED" /\ legacyOrder[o].cancellation = "none"

CallerAt(w, step) == canceller[w].step = step
CallerTo(w, step) == canceller' = [canceller EXCEPT ![w].step = step]
CallerLeaves(w) == canceller' = [canceller EXCEPT ![w] = NoCall]
ItsOrder(w) == canceller[w].order

ClaimLegacyCancellation(w, o) ==
  /\ CallerAt(w, "idle") /\ ~ClaimRuns(o)
  /\ \E as \in {"consumer", "seller", "admin"} :
       /\ MayCancel(o, as)
       /\ canceller' = [canceller EXCEPT ![w] = [step |-> "refund", as |-> as, order |-> o]]
  /\ SetOrder(o, [legacyOrder[o] EXCEPT !.cancellation = "REFUNDING", !.token = w,
                                        !.lease = "live"])
  /\ UNCHANGED <<saleType, legacyMoney, usedSlots, currentQuantity, product, groupRun>>

RefundLegacyOrder(w) ==
  /\ CallerAt(w, "refund")
  /\ IF RefundReturnsAtOnce(ItsOrder(w))
     THEN CallerTo(w, "local") /\ UNCHANGED legacyMoney
     ELSE CallerTo(w, "post") /\ TakeRefund(ItsOrder(w), w)
  /\ UNCHANGED <<saleType, legacyOrder, usedSlots, currentQuantity, product, groupRun>>

PostLegacyRefund(w) ==
  /\ CallerAt(w, "post")
  /\ \/ RefundDone(ItsOrder(w), w) /\ CallerTo(w, "local")
     \/ RefundThrows(ItsOrder(w), w) /\ CallerTo(w, "REFUND_FAILED")
  /\ UNCHANGED <<saleType, legacyOrder, usedSlots, currentQuantity, product, groupRun>>

OwnsCancellation(o, w) == legacyOrder[o].cancellation = "REFUNDING" /\ legacyOrder[o].token = w
Completed(o) == [legacyOrder[o] EXCEPT !.cancellation = "COMPLETED", !.token = "nobody",
                                       !.lease = "over"]

(* An order that is CANCELLED already only gets its mark completed.  On    *)
(* the consumer's path no slot is released: its order is a group's and has *)
(* none.                                                                   *)
CompleteCancelled(o) ==
  /\ Status(o) = "CANCELLED"
  /\ usedSlots' = SlotsAfterRelease(o)
  /\ SetOrder(o, [Completed(o) EXCEPT !.slot = SlotAfterRelease(o)])
  /\ UNCHANGED currentQuantity

CancelNow(o) ==
  /\ Status(o) # "CANCELLED" /\ ReleaseAllowed(o)
  /\ usedSlots' = SlotsAfterRelease(o)
  /\ currentQuantity' = QuantityAfterRestore(o)
  /\ SetOrder(o, [Completed(o) EXCEPT !.status = "CANCELLED", !.reason = "request",
                                      !.slot = SlotAfterRelease(o)])

CancelLocally(w) ==
  /\ CallerAt(w, "local") /\ OwnsCancellation(ItsOrder(w), w)
  /\ \/ canceller[w].as # "seller" /\ CompleteCancelled(ItsOrder(w))
     \/ /\ canceller[w].as = "consumer" => Status(ItsOrder(w)) = "RECRUITING"
        /\ CancelNow(ItsOrder(w))
  /\ CallerTo(w, "settlement")
  /\ UNCHANGED <<saleType, legacyMoney, product, groupRun>>

(* The claim was lost, a counter is damaged, or the database refuses.      *)
CancelLocallyFails(w) ==
  /\ CallerAt(w, "local")
  /\ CallerTo(w, "LOCAL_FAILED")
  /\ UNCHANGED <<shopVars, groupRun>>

CancelLegacySettlement(w) ==
  /\ CallerAt(w, "settlement")
  /\ \/ CallerLeaves(w)
     \/ canceller[w].as # "seller" /\ CallerTo(w, "LOCAL_FAILED")
  /\ UNCHANGED <<shopVars, groupRun>>

(* A completed mark is reopened even by a caller that does not own it.     *)
RecordLegacyFailure(w) ==
  /\ canceller[w].step \in {"REFUND_FAILED", "LOCAL_FAILED"}
  /\ LET o == ItsOrder(w) IN
       IF \/ legacyOrder[o].token = w
          \/ CallerAt(w, "LOCAL_FAILED") /\ legacyOrder[o].cancellation = "COMPLETED"
       THEN SetOrder(o, [legacyOrder[o] EXCEPT !.cancellation = canceller[w].step,
                                               !.token = "nobody", !.lease = "over"])
       ELSE UNCHANGED legacyOrder
  /\ CallerLeaves(w)
  /\ UNCHANGED <<saleType, legacyMoney, usedSlots, currentQuantity, product, groupRun>>

CancellerDies(w) ==
  /\ ~CallerAt(w, "idle")
  /\ CallerLeaves(w)
  /\ UNCHANGED <<shopVars, groupRun>>
-------------------------------------------------------------------------------
(* The decision of a group purchase, by the job every minute after the     *)
(* deadline or by the checkout that reached the target.                    *)

LeaseFree == product.processed = "no" /\ product.lease = "over"
Confirmed(quantity) == quantity >= MinQuantity

ProcessGroupBuy(g, step) ==
  /\ saleType = "group" /\ LeaseFree
  /\ groupRun[g] = NoGroupRun
  /\ groupRun' = [groupRun EXCEPT ![g].step = step]
  /\ UNCHANGED <<saleType, legacyOrder, legacyMoney, usedSlots, currentQuantity, canceller>>

ConfirmEarly(g) ==
  /\ product.reached = "yes"
  /\ product' = [product EXCEPT !.holder = g, !.lease = "live", !.reached = "no"]
  /\ ProcessGroupBuy(g, "confirm")

MissEarlyConfirmation ==
  /\ product.reached = "yes"
  /\ product' = [product EXCEPT !.reached = "no"]
  /\ UNCHANGED <<saleType, legacyOrder, legacyMoney, usedSlots, currentQuantity,
                 canceller, groupRun>>

DecideAtDeadline(g) ==
  /\ product.deadline = "passed"
  /\ product' = [product EXCEPT !.holder = g, !.lease = "live"]
  /\ ProcessGroupBuy(g, IF Confirmed(currentQuantity) THEN "confirm" ELSE "lack")

(* The orders are looked up once, outside of the transactions.             *)
Recruiting == {o \in LegacyOrders : Status(o) = "RECRUITING" /\ ~CancellationPending(o)}

ListOrders(g) ==
  /\ groupRun[g].step \in {"confirm", "lack"}
  /\ groupRun' = [groupRun EXCEPT ![g] =
       IF Recruiting = {} THEN [@ EXCEPT !.step = "done"]
       ELSE IF @.step = "confirm" THEN [@ EXCEPT !.step = "CONFIRMED", !.targets = Recruiting]
       ELSE [@ EXCEPT !.step = "refund", !.targets = Recruiting, !.toRefund = Recruiting]]
  /\ UNCHANGED <<shopVars, canceller>>

(* The refunds run beside each other; those begun go on when one fails.    *)
RefundForLack(g, o) ==
  /\ o \in groupRun[g].toRefund
  /\ IF RefundReturnsAtOnce(o)
     THEN UNCHANGED legacyMoney /\ groupRun' = [groupRun EXCEPT ![g].toRefund = @ \ {o}]
     ELSE /\ TakeRefund(o, g)
          /\ groupRun' = [groupRun EXCEPT ![g].toRefund = @ \ {o}, ![g].refunding = @ \union {o}]
  /\ UNCHANGED <<saleType, legacyOrder, usedSlots, currentQuantity, product, canceller>>

PostRefundForLack(g, o) ==
  /\ o \in groupRun[g].refunding
  /\ \/ RefundDone(o, g) /\ groupRun' = [groupRun EXCEPT ![g].refunding = @ \ {o}]
     \/ /\ RefundThrows(o, g)
        /\ groupRun' = [groupRun EXCEPT ![g].refunding = @ \ {o},
                          ![g].step = IF @ = "refund" THEN "failed" ELSE @]
  /\ UNCHANGED <<saleType, legacyOrder, usedSlots, currentQuantity, product, canceller>>

AllRefunded(g) == groupRun[g].toRefund = {} /\ groupRun[g].refunding = {}

BeginLackCancellation(g) ==
  /\ groupRun[g].step = "refund" /\ AllRefunded(g)
  /\ groupRun' = [groupRun EXCEPT ![g].step = "CANCELLED"]
  /\ UNCHANGED <<shopVars, canceller>>

StillRecruiting(o) == Status(o) = "RECRUITING" /\ ~CancellationPending(o)

DecideOrder(g, o) ==
  /\ groupRun[g].step \in {"CONFIRMED", "CANCELLED"} /\ o \in groupRun[g].targets
  /\ IF StillRecruiting(o)
     THEN SetOrder(o, [legacyOrder[o] EXCEPT !.status = groupRun[g].step,
                         !.reason = IF groupRun[g].step = "CANCELLED" THEN "lack" ELSE @])
     ELSE UNCHANGED legacyOrder
  /\ groupRun' = [groupRun EXCEPT ![g].targets = @ \ {o},
                    ![g].step = IF groupRun[g].targets = {o} THEN "done" ELSE @]
  /\ UNCHANGED <<saleType, legacyMoney, usedSlots, currentQuantity, product, canceller>>

(* A refused transaction, or a notice that cannot be sent. *)
GroupRunFails(g) ==
  /\ groupRun[g].step \in {"confirm", "lack", "CONFIRMED", "CANCELLED", "done"}
  /\ groupRun' = [groupRun EXCEPT ![g].step = "failed", ![g].targets = {}]
  /\ UNCHANGED <<shopVars, canceller>>

FinishedProduct(g) ==
  IF product.holder = g
  THEN [product EXCEPT !.holder = "nobody", !.lease = "over",
          !.processed = IF groupRun[g].step = "done" THEN "yes" ELSE @]
  ELSE product

FinishGroupRun(g) ==
  /\ groupRun[g].step \in {"done", "failed"}
  /\ product' = FinishedProduct(g)
  /\ groupRun' = [groupRun EXCEPT ![g].step = "idle", ![g].targets = {}]
  /\ UNCHANGED <<saleType, legacyOrder, legacyMoney, usedSlots, currentQuantity, canceller>>

GroupRunDies(g) ==
  /\ groupRun[g] # NoGroupRun
  /\ groupRun' = [groupRun EXCEPT ![g] = NoGroupRun]
  /\ UNCHANGED <<shopVars, canceller>>
-------------------------------------------------------------------------------
(* Time: leases end by themselves, and the deadline comes.                 *)

CancellationLeaseEnds(o) ==
  /\ legacyOrder[o].lease = "live"
  /\ SetOrder(o, [legacyOrder[o] EXCEPT !.lease = "over"])
  /\ UNCHANGED <<saleType, legacyMoney, usedSlots, currentQuantity, product, canceller, groupRun>>

LegacyRefundLeaseEnds(o) ==
  /\ legacyMoney[o].claim = "CLAIMED"
  /\ legacyMoney' = [legacyMoney EXCEPT ![o].claim = "UNKNOWN"]
  /\ UNCHANGED <<saleType, legacyOrder, usedSlots, currentQuantity, product, canceller, groupRun>>

ProcessingLeaseEnds ==
  /\ product.lease = "live"
  /\ product' = [product EXCEPT !.lease = "over"]
  /\ UNCHANGED <<saleType, legacyOrder, legacyMoney, usedSlots, currentQuantity,
                 canceller, groupRun>>

DeadlinePasses ==
  /\ saleType = "group" /\ product.deadline = "ahead"
  /\ product' = [product EXCEPT !.deadline = "passed"]
  /\ UNCHANGED <<saleType, legacyOrder, legacyMoney, usedSlots, currentQuantity,
                 canceller, groupRun>>
-------------------------------------------------------------------------------
LegacyInit ==
  /\ saleType \in {"normal", "group"}
  /\ legacyOrder = [o \in LegacyOrders |-> NoOrderYet]
  /\ legacyMoney = [o \in LegacyOrders |-> NoMoney]
  /\ usedSlots = 0 /\ currentQuantity = 0
  /\ product = [deadline |-> "ahead", processed |-> "no", holder |-> "nobody",
                lease |-> "over", reached |-> "no"]
  /\ canceller = [w \in LegacyCancellers |-> NoCall]
  /\ groupRun = [g \in GroupRuns |-> NoGroupRun]

OrderStep(o) ==
  \/ CreateLegacyOrder(o) \/ FinalizeLegacyOrder(o) \/ FinalizeLateLegacyOrder(o)
  \/ RefundLateLegacyPayment(o) \/ SettleCancelledLegacyOrder(o)
  \/ CancelPendingLegacyOrder(o, "timeout") \/ CancelPendingLegacyOrder(o, "amount_mismatch")
  \/ AdvanceLegacyOrder(o) \/ CancellationLeaseEnds(o) \/ LegacyRefundLeaseEnds(o)

CancellerStep(w) ==
  \/ \E o \in LegacyOrders : ClaimLegacyCancellation(w, o)
  \/ RefundLegacyOrder(w) \/ PostLegacyRefund(w) \/ CancelLocally(w) \/ CancelLocallyFails(w)
  \/ CancelLegacySettlement(w) \/ RecordLegacyFailure(w) \/ CancellerDies(w)

GroupStep(g) ==
  \/ ConfirmEarly(g) \/ DecideAtDeadline(g) \/ ListOrders(g) \/ BeginLackCancellation(g)
  \/ \E o \in LegacyOrders :
       RefundForLack(g, o) \/ PostRefundForLack(g, o) \/ DecideOrder(g, o)
  \/ GroupRunFails(g) \/ FinishGroupRun(g) \/ GroupRunDies(g)

LegacyNext ==
  \/ \E o \in LegacyOrders : OrderStep(o)
  \/ \E w \in LegacyCancellers : CancellerStep(w)
  \/ \E g \in GroupRuns : GroupStep(g)
  \/ MissEarlyConfirmation \/ ProcessingLeaseEnds \/ DeadlinePasses

LegacySpec == LegacyInit /\ [][LegacyNext]_legacyVars
-------------------------------------------------------------------------------
(* Documents and workers keep their types. *)
LegacyTypeOK ==
  /\ saleType \in {"normal", "group"}
  /\ usedSlots \in 0..TotalCap /\ currentQuantity \in Nat
  /\ legacyOrder \in [LegacyOrders ->
       [status : {"none", "PENDING", "RECRUITING", "CANCELLED", "DELIVERED"}
                 \union DOMAIN LegacyTransitions,
        reason : {"none", "timeout", "amount_mismatch", "request", "lack"},
        slot : {"none", "HELD", "RELEASED"},
        cancellation : {"none", "COMPLETED"} \union PendingLegacyCancellations,
        token : LegacyCancellers \union {"nobody"}, lease : {"live", "over"}]]
  /\ legacyMoney \in [LegacyOrders -> [status : {"none", "PAID", "CANCELLED"},
                                       claim : {"NONE", "CLAIMED", "UNKNOWN"},
                                       token : LegacyWorkers \union {"nobody"}]]

(* The day's usedSlots is what the orders that hold a slot add up to, and a*)
(* cancelled order holds none.  currentQuantity is the sum of the orders   *)
(* not cancelled at somebody's request: a request restores its order's     *)
(* quantity once, however often it is repeated or taken over.  Orders that *)
(* timed out unpaid or were cancelled for lack stay counted.               *)
HoldingSlots == {o \in LegacyOrders : legacyOrder[o].slot = "HELD"}
Counted == {o \in LegacyOrders :
              saleType = "group" /\ Status(o) # "none" /\ legacyOrder[o].reason # "request"}
LegacyCountersMatchOrders ==
  /\ usedSlots = Quantity(HoldingSlots, OrderedQuantity)
  /\ \A o \in HoldingSlots : Status(o) # "CANCELLED"
  /\ currentQuantity = Quantity(Counted, OrderedQuantity)

(* An order whose money was returned at a request does not go on: it is    *)
(* cancelled, or still marked, and not on its way.  And an order cancelled *)
(* by a request or for lack never has its money without a refund's claim   *)
(* that shows it.  Left out are refunds by a run that gave a group purchase*)
(* up, which mark no order, and orders that timed out, whose late payment  *)
(* is accepted beside a request that has lost its claim and refunds it.    *)
ReturnedAtRequest(o) ==
  /\ legacyMoney[o].status = "CANCELLED" /\ legacyMoney[o].token \in LegacyCancellers
  /\ legacyOrder[o].reason # "timeout"
LegacyRefundsStopOrders ==
  \A o \in LegacyOrders :
    /\ ReturnedAtRequest(o) =>
         \/ Status(o) = "CANCELLED"
         \/ CancellationPending(o) /\ Status(o) \notin {"DELIVERING", "DELIVERED"}
    /\ Status(o) = "CANCELLED" /\ legacyOrder[o].reason \in {"request", "lack"} =>
         ~(legacyMoney[o].status = "PAID" /\ legacyMoney[o].claim = "NONE")
===============================================================================
