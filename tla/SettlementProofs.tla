---------------------------- MODULE SettlementProofs ----------------------------
(***************************************************************************)
(* Theorems about Settlement, for any number of runs of the two refunds.   *)
(* The argument is that everybody who pays and everybody who refunds meets *)
(* in the order document: a refund marks the order before any money moves, *)
(* and the mark never goes away (Marked).                                  *)
(***************************************************************************)
EXTENDS MCRoundAndSettlement, TLAPS

Marked == SaleCancelled \/ SaleCancelling

(* As long as the order is not marked, its money is all there and nobody   *)
(* is on his way to return it.                                             *)
MoneyMovesBehindTheMark ==
  ~Marked => /\ sale.refund = "none" /\ salePayment = "PAID"
             /\ \A w \in RefundRuns : run[w] \notin {"refund", "complete", "local"}

(* Who closes the settlement, or did, has the order cancelled.             *)
ClosersComeLast ==
  /\ \A w \in RefundRuns : RunAt(w, "settlement") => SaleCancelled
  /\ told = "refunded" => SaleCancelled

CompletingMeansFeeReturned == \A w \in RefundRuns : RunAt(w, "complete") => saleFee # "PAID"

(* Before its delivery an order has no settlement and no refund of this    *)
(* kind, and one that was restocked never gets them.                       *)
NothingBeforeDelivery ==
  sale.status = "PREPARING" \/ restocked = "yes" =>
    creation = "none" /\ settlement.status = "none" /\ sale.refund = "none"

RestockedIsCancelled == restocked = "yes" => SaleCancelled
RefundersHaveARefund == \A r \in Refunders : ~RunAt(r, "idle") => sale.refund # "none"
ActorsAreRecorded == sale.refund = "none" => sale.by = "nobody"

SettlementInv ==
  /\ SettlementTypeOK
  /\ MoneyMovesBehindTheMark /\ ClosersComeLast /\ CompletingMeansFeeReturned
  /\ NothingBeforeDelivery /\ RestockedIsCancelled
  /\ RefundersHaveARefund /\ ActorsAreRecorded
  /\ RefundsReachTheBooks /\ SellerRefundsNeedNoRecovery
-------------------------------------------------------------------------------
SaleRecords == [status : {"PREPARING", "CANCELLED"} \union Delivered,
                cancellation : {"none", "COMPLETED"} \union SaleInProgress,
                refund : {"none", "started", "completed"}, by : {"nobody", "seller", "admin"}]
SettlementRecords == [status : {"none", "pending", "confirmed", "paid", "cancelled"},
                      recovery : {"no", "yes"}]
RunSteps == {"idle", "refund", "refunded", "refundFailed", "complete", "local",
             "localFailed", "settlement"}

LEMMA SettlementParts ==
  ASSUME SettlementTypeOK
  PROVE  /\ sale \in SaleRecords /\ settlement \in SettlementRecords
         /\ run \in [RefundRuns -> RunSteps]
         /\ sale = [status |-> sale.status, cancellation |-> sale.cancellation,
                    refund |-> sale.refund, by |-> sale.by]
         /\ settlement = [status |-> settlement.status, recovery |-> settlement.recovery]
<1>1. /\ sale \in SaleRecords /\ settlement \in SettlementRecords
      /\ run \in [RefundRuns -> RunSteps]
  BY DEF SettlementTypeOK, SaleRecords, SettlementRecords, RunSteps
<1> QED
  BY <1>1 DEF SaleRecords, SettlementRecords

LEMMA RunMoves ==
  ASSUME run \in [RefundRuns -> RunSteps], NEW r \in RefundRuns, NEW step \in RunSteps,
         RunTo(r, step)
  PROVE  /\ run' \in [RefundRuns -> RunSteps]
         /\ \A w \in RefundRuns : run'[w] = IF w = r THEN step ELSE run[w]
BY DEF RunTo

(* The parts of the invariant that a step of one run may disturb.          *)
RunParts ==
  /\ MoneyMovesBehindTheMark /\ ClosersComeLast /\ CompletingMeansFeeReturned
  /\ RefundersHaveARefund

LEMMA SettlementInitially == SettlementInit => SettlementInv
<1> SUFFICES ASSUME SettlementInit PROVE SettlementInv
  OBVIOUS
<1>1. SettlementTypeOK
  BY DEF SettlementInit, SettlementTypeOK, SaleInProgress, Delivered
<1>2. RunParts
  BY DEF SettlementInit, RunParts, MoneyMovesBehindTheMark, ClosersComeLast,
    CompletingMeansFeeReturned, RefundersHaveARefund, RefundRuns, Marked, SaleCancelled,
    SaleCancelling, SaleInProgress, RunAt
<1>3. NothingBeforeDelivery /\ RestockedIsCancelled /\ ActorsAreRecorded
  BY DEF SettlementInit, NothingBeforeDelivery, RestockedIsCancelled, ActorsAreRecorded
<1>4. RefundsReachTheBooks /\ SellerRefundsNeedNoRecovery
  BY DEF SettlementInit, RefundsReachTheBooks, SellerRefundsNeedNoRecovery
<1> QED
  BY <1>1, <1>2, <1>3, <1>4 DEF SettlementInv, RunParts

(* Steps that leave the refunds' runs alone. *)
LEMMA BookStep ==
  ASSUME SettlementInv,
         \/ Deliver \/ Review \/ ReconcileDelivery \/ CreateSettlement
         \/ ListDueSettlements \/ ConfirmListed \/ MarkAsPaid
         \/ OwnCancellationWebhook \/ ReversalWebhook \/ ResolveReversal
  PROVE  SettlementInv'
<1> USE SettlementParts DEF SettlementInv
<1>1. CASE Deliver
  <2>1. sale' = [status |-> "DELIVERED", cancellation |-> sale.cancellation,
                 refund |-> sale.refund, by |-> sale.by]
    BY <1>1 DEF Deliver
  <2>2. SettlementTypeOK'
    BY <1>1, <2>1 DEF Deliver, SettlementTypeOK, Delivered
  <2>3. RunParts'
    BY <1>1, <2>1 DEF Deliver, RunParts, MoneyMovesBehindTheMark, ClosersComeLast,
      CompletingMeansFeeReturned, RefundersHaveARefund, RefundRuns, Marked, SaleCancelled, SaleCancelling, RunAt
  <2>4. (NothingBeforeDelivery /\ RestockedIsCancelled /\ ActorsAreRecorded)'
    BY <1>1, <2>1 DEF Deliver, NothingBeforeDelivery, RestockedIsCancelled, ActorsAreRecorded,
      SaleCancelled
  <2>5. (RefundsReachTheBooks /\ SellerRefundsNeedNoRecovery)'
    BY <1>1, <2>1 DEF Deliver, RefundsReachTheBooks, SellerRefundsNeedNoRecovery
  <2> QED
    BY <2>2, <2>3, <2>4, <2>5 DEF RunParts
<1>2. CASE Review
  <2>1. sale' = [status |-> "REVIEWED", cancellation |-> sale.cancellation,
                 refund |-> sale.refund, by |-> sale.by]
    BY <1>2 DEF Review
  <2>2. SettlementTypeOK'
    BY <1>2, <2>1 DEF Review, SettlementTypeOK, Delivered
  <2>3. RunParts'
    BY <1>2, <2>1 DEF Review, RunParts, MoneyMovesBehindTheMark, ClosersComeLast,
      CompletingMeansFeeReturned, RefundersHaveARefund, RefundRuns, Marked, SaleCancelled, SaleCancelling, RunAt, Delivered
  <2>4. (NothingBeforeDelivery /\ RestockedIsCancelled /\ ActorsAreRecorded)'
    BY <1>2, <2>1 DEF Review, NothingBeforeDelivery, RestockedIsCancelled, ActorsAreRecorded,
      SaleCancelled, Delivered
  <2>5. (RefundsReachTheBooks /\ SellerRefundsNeedNoRecovery)'
    BY <1>2, <2>1 DEF Review, RefundsReachTheBooks, SellerRefundsNeedNoRecovery
  <2> QED
    BY <2>2, <2>3, <2>4, <2>5 DEF RunParts
<1>3. ASSUME UNCHANGED <<saleVars, run, told>>, creation' \in {"none", "underway"},
             confirming' \in {"no", "listed"}, reversal' \in {"none", "own", "provider"},
             settlement' \in SettlementRecords,
             settlement'.recovery = "yes" => settlement'.status = "paid",
             sale.status = "PREPARING" \/ restocked = "yes" =>
               creation' = "none" /\ settlement'.status = "none",
             settlement'.status \in {"none", "pending", "cancelled"}
               \/ settlement' = settlement \/ ~Marked
      PROVE  SettlementInv'
  <2>1. SettlementTypeOK'
    BY <1>3 DEF SettlementTypeOK, saleVars, SettlementRecords
  <2>2. RunParts'
    BY <1>3 DEF RunParts, MoneyMovesBehindTheMark, ClosersComeLast,
      CompletingMeansFeeReturned, RefundersHaveARefund, RefundRuns, Marked, SaleCancelled, SaleCancelling, RunAt, saleVars
  <2>3. (NothingBeforeDelivery /\ RestockedIsCancelled /\ ActorsAreRecorded)'
    BY <1>3 DEF NothingBeforeDelivery, RestockedIsCancelled, ActorsAreRecorded, SaleCancelled,
      saleVars
  <2>4. (RefundsReachTheBooks /\ SellerRefundsNeedNoRecovery)'
    <3>1. ~Marked => sale.refund = "none" /\ sale.by = "nobody" /\ told # "refunded"
      BY DEF MoneyMovesBehindTheMark, ActorsAreRecorded, ClosersComeLast, Marked
    <3> QED
      BY <1>3, <3>1 DEF RefundsReachTheBooks, SellerRefundsNeedNoRecovery, saleVars
  <2> QED
    BY <2>1, <2>2, <2>3, <2>4 DEF RunParts
<1>4. /\ creation \in {"none", "underway"} /\ confirming \in {"no", "listed"}
      /\ reversal \in {"none", "own", "provider"}
      /\ settlement.recovery = "yes" => settlement.status = "paid"
  BY DEF SettlementTypeOK
<1>5. sale.status = "PREPARING" \/ restocked = "yes" =>
        /\ creation = "none" /\ settlement.status = "none"
        /\ sale.status \notin Delivered
  BY DEF NothingBeforeDelivery, RestockedIsCancelled, SaleCancelled, Delivered
<1>6. CASE ReconcileDelivery
  BY <1>3, <1>4, <1>5, <1>6 DEF ReconcileDelivery, Delivered
<1>7. CASE CreateSettlement
  <2>1. \/ settlement' = settlement
        \/ /\ settlement.status = "none"
           /\ settlement' = [status |-> "pending", recovery |-> "no"]
    BY <1>7 DEF CreateSettlement, Created, NewSettlement
  <2>2. ~(sale.status = "PREPARING" \/ restocked = "yes")
    BY <1>5, <1>7 DEF CreateSettlement
  <2> QED
    BY <1>3, <1>4, <1>7, <2>1, <2>2 DEF CreateSettlement, SettlementRecords
<1>8. CASE ConfirmListed
  <2>1. settlement' = settlement
        \/ /\ ~Marked /\ settlement.status = "pending"
           /\ settlement' = [status |-> "confirmed", recovery |-> settlement.recovery]
    BY <1>8 DEF ConfirmListed, StillPending, PayoutHeld, Marked
  <2> QED
    BY <1>3, <1>4, <1>5, <1>8, <2>1 DEF ConfirmListed, SettlementRecords
<1>9. CASE MarkAsPaid
  <2>1. /\ ~Marked /\ settlement.status = "confirmed"
        /\ settlement' = [status |-> "paid", recovery |-> settlement.recovery]
    BY <1>9 DEF MarkAsPaid, PayoutHeld, Marked
  <2> QED
    BY <1>3, <1>4, <1>5, <1>9, <2>1 DEF MarkAsPaid, SettlementRecords
<1>10. CASE ListDueSettlements
  BY <1>3, <1>4, <1>5, <1>10 DEF ListDueSettlements
<1>11. CASE OwnCancellationWebhook \/ ReversalWebhook \/ ResolveReversal
  BY <1>3, <1>4, <1>5, <1>11
  DEF OwnCancellationWebhook, ReversalWebhook, ResolveReversal, ReversalIssue
<1> QED
  BY <1>1, <1>2, <1>6, <1>7, <1>8, <1>9, <1>10, <1>11

(* Steps of one run that leave the order as it is, or mark it.             *)
LEMMA RunStep ==
  ASSUME SettlementInv, NEW r \in RefundRuns, NEW step \in RunSteps, RunTo(r, step),
         sale' \in SaleRecords, sale' = sale \/ Marked',
         salePayment' = salePayment \/ (Marked /\ salePayment' \in {"CLAIMED", "CANCELLED"}),
         saleFee' = saleFee \/ saleFee' = "REFUNDED",
         restocked' \in {"no", "yes"}, told' = told, UNCHANGED bookVars,
         step \in {"refund", "complete", "local"} => Marked',
         r \in Refunders /\ step # "idle" => sale'.refund # "none",
         step = "settlement" => sale'.status = "CANCELLED",
         step = "complete" => saleFee' # "PAID",
         sale.status = "CANCELLED" => sale'.status = "CANCELLED",
         sale'.status \in {sale.status, "CANCELLED"},
         sale.refund # "none" => Marked',
         sale'.refund = "none" => sale.refund = "none" /\ sale'.by = sale.by,
         sale'.by = "seller" => sale.by = "seller" \/ settlement.status # "paid",
         sale'.refund # "none" => sale.refund # "none" \/ sale.status \in Delivered,
         sale'.refund = "completed" => sale.refund = "completed"
                                       \/ (salePayment' = "CANCELLED" /\ saleFee' # "PAID"),
         salePayment = "CANCELLED" => salePayment' = "CANCELLED",
         restocked' = "yes" => \/ restocked = "yes"
                               \/ sale.status = "PREPARING" /\ sale'.status = "CANCELLED"
                                  /\ sale'.refund = "none"
  PROVE  SettlementInv'
<1> USE SettlementParts DEF SettlementInv
<1>1. /\ run' \in [RefundRuns -> RunSteps]
      /\ \A w \in RefundRuns : run'[w] = IF w = r THEN step ELSE run[w]
  BY RunMoves
<1>2. SettlementTypeOK'
  <2>1. /\ settlement' \in SettlementRecords
        /\ settlement'.recovery = "yes" => settlement'.status = "paid"
        /\ reversal' \in {"none", "own", "provider"}
        /\ creation' \in {"none", "underway"} /\ confirming' \in {"no", "listed"}
        /\ told' \in {"nothing", "refunded"}
    BY DEF SettlementTypeOK, bookVars
  <2>2. salePayment' \in {"PAID", "CLAIMED", "CANCELLED"} /\ saleFee' \in {"none", "PAID", "REFUNDED"}
    BY DEF SettlementTypeOK
  <2> QED
    BY <1>1, <2>1, <2>2 DEF SettlementTypeOK, SaleRecords, SettlementRecords, RunSteps
<1>3. RunParts'
  <2>1. MoneyMovesBehindTheMark'
    BY <1>1 DEF MoneyMovesBehindTheMark, Marked, SaleCancelled, SaleCancelling
  <2>2. ClosersComeLast'
    BY <1>1 DEF ClosersComeLast, SaleCancelled, RunAt
  <2>3. CompletingMeansFeeReturned'
    BY <1>1 DEF CompletingMeansFeeReturned, RunAt
  <2>4. RefundersHaveARefund'
    BY <1>1 DEF RefundersHaveARefund, RunAt, RefundRuns
  <2> QED
    BY <2>1, <2>2, <2>3, <2>4 DEF RunParts
<1>4. RestockedIsCancelled' /\ ActorsAreRecorded'
  BY DEF RestockedIsCancelled, ActorsAreRecorded, SaleCancelled
<1>5. NothingBeforeDelivery'
  BY DEF NothingBeforeDelivery, RestockedIsCancelled, SaleCancelled, bookVars, Delivered
<1>6. RefundsReachTheBooks' /\ SellerRefundsNeedNoRecovery'
  BY DEF RefundsReachTheBooks, SellerRefundsNeedNoRecovery, bookVars
<1> QED
  BY <1>2, <1>3, <1>4, <1>5, <1>6 DEF RunParts

LEMMA RefundStep ==
  ASSUME SettlementInv, NEW r \in Refunders, PostDeliveryRefund(r)
  PROVE  SettlementInv'
<1> USE SettlementParts DEF SettlementInv, RunSteps
<1>0. /\ r \in RefundRuns /\ restocked \in {"no", "yes"}
      /\ sale.refund # "none" => Marked
      /\ ~RunAt(r, "idle") => sale.refund # "none"
      /\ sale.refund = "completed" => salePayment = "CANCELLED" /\ saleFee # "PAID"
  BY DEF RefundRuns, SettlementTypeOK, MoneyMovesBehindTheMark, RefundersHaveARefund,
    RefundsReachTheBooks
<1>1. ASSUME NEW actor \in {"seller", "admin"}, StartRefund(r, actor) PROVE SettlementInv'
  <2>1. sale' = [status |-> sale.status, cancellation |-> "REFUNDING",
                 refund |-> "started", by |-> actor]
    BY <1>1 DEF StartRefund
  <2>2. Marked' /\ sale' \in SaleRecords
    BY <2>1 DEF Marked, SaleCancelling, SaleInProgress, SaleRecords
  <2>3. /\ RunTo(r, "refund") /\ sale.refund = "none" /\ sale.status \in Delivered
        /\ actor = "seller" => settlement.status # "paid"
        /\ UNCHANGED <<salePayment, saleFee, restocked, bookVars, told>>
    BY <1>1 DEF StartRefund, SellerMayRefund
  <2> QED
    BY <1>0, <2>1, <2>2, <2>3, RunStep, Zenon DEF Delivered
<1>2. CASE ResumeRefund(r)
  <2>1. /\ RunTo(r, "refund") /\ sale.refund # "none"
        /\ UNCHANGED <<sale, salePayment, saleFee, restocked, bookVars, told>>
    BY <1>2 DEF ResumeRefund, saleVars
  <2>2. Marked'
    BY <1>0, <2>1 DEF Marked, SaleCancelled, SaleCancelling
  <2> QED
    BY <1>0, <2>1, <2>2, RunStep
<1>3. CASE RefundAfterDelivery(r)
  <2>1. /\ RunAt(r, "refund") /\ UNCHANGED <<saleVars, bookVars, told>>
        /\ sale.refund # "none"
    BY <1>0, <1>3 DEF RefundAfterDelivery, RunAt
  <2>2. Marked /\ Marked'
    BY <1>0, <2>1 DEF MoneyMovesBehindTheMark, RunAt, Marked, SaleCancelled, SaleCancelling, saleVars
  <2>3. CASE RunTo(r, "refundFailed")
    BY <1>0, <2>1, <2>2, <2>3, RunStep DEF saleVars
  <2>4. CASE saleFee # "PAID" /\ RunTo(r, "complete")
    BY <1>0, <2>1, <2>2, <2>4, RunStep DEF saleVars
  <2> QED
    BY <1>3, <2>3, <2>4 DEF RefundAfterDelivery, FeeSettled
<1>4. CASE CompleteLocally(r)
  <2>1. /\ RunAt(r, "complete") /\ UNCHANGED <<salePayment, saleFee, restocked, bookVars, told>>
        /\ sale.refund # "none"
    BY <1>0, <1>4 DEF CompleteLocally, RunAt
  <2>2. Marked /\ saleFee # "PAID"
    BY <1>0, <2>1 DEF MoneyMovesBehindTheMark, RunAt, CompletingMeansFeeReturned
  <2>3. CASE SaleRefundComplete /\ RunTo(r, "settlement") /\ UNCHANGED sale
    <3>1. Marked' /\ sale.status = "CANCELLED"
      BY <2>3 DEF SaleRefundComplete, SaleCancelled, Marked
    <3> QED
      BY <1>0, <2>1, <2>2, <2>3, <3>1, RunStep
  <2>4. CASE RunTo(r, "localFailed") /\ UNCHANGED sale
    <3>1. Marked'
      BY <2>2, <2>4 DEF SaleCancelled, SaleCancelling, Marked
    <3> QED
      BY <1>0, <2>1, <2>2, <2>4, <3>1, RunStep
  <2>5. CASE /\ ~PaymentIsPaid /\ RunTo(r, "settlement")
             /\ sale' = [sale EXCEPT !.status = "CANCELLED", !.cancellation = "COMPLETED",
                                     !.refund = "completed"]
    <3>1. sale' = [status |-> "CANCELLED", cancellation |-> "COMPLETED",
                   refund |-> "completed", by |-> sale.by]
      BY <2>5
    <3>2. Marked' /\ salePayment = "CANCELLED" /\ sale' \in SaleRecords
      BY <2>5, <3>1 DEF PaymentIsPaid, Marked, SaleCancelled, SaleRecords
    <3> QED
      BY <1>0, <2>1, <2>2, <2>5, <3>1, <3>2, RunStep
  <2> QED
    BY <1>4, <2>3, <2>4, <2>5 DEF CompleteLocally
<1>5. CASE RecordFailedRefund(r)
  <2>1. /\ RunTo(r, "idle") /\ UNCHANGED <<salePayment, saleFee, restocked, bookVars, told>>
        /\ sale.refund # "none"
    BY <1>0, <1>5 DEF RecordFailedRefund, RunAt
  <2>2. CASE UNCHANGED sale
    BY <1>0, <2>1, <2>2, RunStep DEF Marked, SaleCancelled, SaleCancelling
  <2>3. CASE \E status \in {"REFUND_FAILED", "LOCAL_FAILED"} : Record(status)
    <3>1. PICK status \in {"REFUND_FAILED", "LOCAL_FAILED"} : Record(status)
      BY <2>3
    <3>2. sale' = [status |-> sale.status, cancellation |-> status,
                   refund |-> sale.refund, by |-> sale.by]
      BY <3>1 DEF Record
    <3>3. Marked' /\ sale' \in SaleRecords
      BY <3>2 DEF Marked, SaleCancelling, SaleInProgress, SaleRecords
    <3> QED
      BY <1>0, <2>1, <3>2, <3>3, RunStep
  <2> QED
    BY <1>5, <2>2, <2>3 DEF RecordFailedRefund
<1> QED
  BY <1>1, <1>2, <1>3, <1>4, <1>5 DEF PostDeliveryRefund

LEMMA CancelStep ==
  ASSUME SettlementInv, NEW c \in SaleCancellers, CancelSale(c)
  PROVE  SettlementInv'
<1> USE SettlementParts DEF SettlementInv, RunSteps
<1>0. /\ c \in RefundRuns /\ c \notin Refunders /\ restocked \in {"no", "yes"}
      /\ sale.refund # "none" => Marked
      /\ sale.refund = "completed" => salePayment = "CANCELLED" /\ saleFee # "PAID"
  BY SettlementAssumption DEF RefundRuns, SettlementTypeOK, MoneyMovesBehindTheMark,
    RefundsReachTheBooks
(* A step that writes the cancellation's status only.                      *)
<1>1. ASSUME NEW step \in RunSteps, RunTo(c, step), NEW status \in SaleInProgress \union {"COMPLETED"},
             Record(status), status = "COMPLETED" => SaleCancelled,
             step = "settlement" => SaleCancelled, step # "complete",
             UNCHANGED <<salePayment, saleFee, restocked, bookVars, told>>
      PROVE  SettlementInv'
  <2>1. sale' = [status |-> sale.status, cancellation |-> status,
                 refund |-> sale.refund, by |-> sale.by]
    BY <1>1 DEF Record
  <2>2. Marked' /\ sale' \in SaleRecords
    BY <1>1, <2>1 DEF Marked, SaleCancelled, SaleCancelling, SaleInProgress, SaleRecords
  <2> QED
    BY <1>0, <1>1, <2>1, <2>2, RunStep DEF SaleCancelled
(* A step that leaves the documents alone.                                 *)
<1>2. ASSUME NEW step \in RunSteps, RunTo(c, step), UNCHANGED <<saleVars, bookVars, told>>,
             step \in {"refund", "local"} => Marked,
             step = "settlement" => SaleCancelled, step # "complete"
      PROVE  SettlementInv'
  <2>1. Marked' <=> Marked
    BY <1>2 DEF Marked, SaleCancelled, SaleCancelling, saleVars
  <2> QED
    BY <1>0, <1>2, <2>1, RunStep DEF SaleCancelled, saleVars
<1>3. CASE ClaimSaleCancellation(c)
  BY <1>1, <1>3 DEF ClaimSaleCancellation, SaleInProgress
<1>4. CASE JoinCancellation(c)
  <2>1. CASE SaleRefundComplete /\ RunTo(c, "settlement")
    BY <1>2, <1>4, <2>1 DEF JoinCancellation, SaleRefundComplete
  <2>2. CASE /\ SaleCancelled \/ sale.cancellation \in LocalStates \union {"REFUNDING"}
             /\ RunTo(c, "refund") \/ RunTo(c, "local")
    <3>1. Marked
      BY <2>2 DEF Marked, SaleCancelled, SaleCancelling, SaleInProgress, LocalStates
    <3>2. UNCHANGED <<saleVars, bookVars, told>>
      BY <1>4 DEF JoinCancellation
    <3> QED
      BY <1>2, <2>2, <3>1, <3>2
  <2> QED
    BY <1>4, <2>1, <2>2 DEF JoinCancellation
<1>5. CASE RefundCancelledSale(c)
  BY <1>2, <1>5 DEF RefundCancelledSale
<1>6. CASE RecordSaleCancellation(c)
  <2>1. UNCHANGED <<salePayment, saleFee, restocked, bookVars, told>>
    BY <1>6 DEF RecordSaleCancellation
  <2>2. \/ Record("LOCAL_PENDING") /\ RunTo(c, "local")
        \/ Record("REFUND_FAILED") /\ RunTo(c, "idle")
        \/ Record("LOCAL_FAILED") /\ RunTo(c, "idle")
    BY <1>6 DEF RecordSaleCancellation
  <2> QED
    BY <1>1, <2>1, <2>2 DEF SaleInProgress
<1>7. CASE ApplySaleCancellation(c)
  <2>1. RunAt(c, "local") /\ UNCHANGED <<salePayment, saleFee, bookVars, told>> /\ Marked
    BY <1>0, <1>7 DEF ApplySaleCancellation, MoneyMovesBehindTheMark, RunAt
  <2>2. CASE Record("REFUNDING") /\ (RunTo(c, "refund") \/ RunTo(c, "idle")) /\ UNCHANGED restocked
    BY <1>1, <2>1, <2>2 DEF SaleInProgress
  <2>3. CASE SaleCancelled /\ Record("COMPLETED") /\ RunTo(c, "settlement") /\ UNCHANGED restocked
    BY <1>1, <2>1, <2>3
  <2>4. CASE /\ StillCancellable /\ restocked' = "yes" /\ RunTo(c, "settlement")
             /\ sale' = [sale EXCEPT !.status = "CANCELLED", !.cancellation = "COMPLETED"]
    <3>1. sale' = [status |-> "CANCELLED", cancellation |-> "COMPLETED",
                   refund |-> sale.refund, by |-> sale.by]
      BY <2>4
    <3>2. Marked' /\ sale' \in SaleRecords
      BY <3>1 DEF Marked, SaleCancelled, SaleRecords
    <3>3. sale.status = "PREPARING" /\ sale.refund = "none"
      BY <2>4 DEF StillCancellable, NothingBeforeDelivery
    <3> QED
      BY <1>0, <2>1, <2>4, <3>1, <3>2, <3>3, RunStep
  <2>5. CASE RunTo(c, "localFailed") /\ UNCHANGED <<sale, restocked>>
    BY <1>2, <2>1, <2>5 DEF saleVars
  <2> QED
    BY <1>7, <2>2, <2>3, <2>4, <2>5 DEF ApplySaleCancellation
<1> QED
  BY <1>3, <1>4, <1>5, <1>6, <1>7 DEF CancelSale

(* The money moves while a run is at its refund, behind the mark.          *)
LEMMA MoneyStep ==
  ASSUME SettlementInv, NEW w \in RefundRuns, RefundUnderWay(w)
  PROVE  SettlementInv'
<1> USE SettlementParts DEF SettlementInv, RunSteps
<1>1. /\ RunAt(w, "refund") /\ UNCHANGED <<sale, restocked, bookVars, run, told>>
      /\ salePayment' = salePayment \/ salePayment' \in {"CLAIMED", "CANCELLED"}
      /\ salePayment = "CANCELLED" => salePayment' = "CANCELLED"
      /\ saleFee' = saleFee \/ saleFee' = "REFUNDED"
  BY DEF RefundUnderWay
<1>2. Marked
  BY <1>1 DEF MoneyMovesBehindTheMark, RunAt
<1>3. RunTo(w, "refund") /\ Marked'
  BY <1>1, <1>2 DEF RunAt, RunTo, Marked, SaleCancelled, SaleCancelling
<1>4. /\ sale.refund = "completed" => salePayment = "CANCELLED" /\ saleFee # "PAID"
      /\ w \in Refunders => sale.refund # "none"
      /\ restocked \in {"no", "yes"}
  BY <1>1 DEF RefundsReachTheBooks, RefundersHaveARefund, RunAt, SettlementTypeOK
<1> QED
  BY <1>1, <1>2, <1>3, <1>4, RunStep

LEMMA EndStep ==
  ASSUME SettlementInv, NEW w \in RefundRuns, CancelSaleSettlement(w) \/ StopRun(w)
  PROVE  SettlementInv'
<1> USE SettlementParts DEF SettlementInv, RunSteps
<1>0. /\ sale.refund # "none" => Marked
      /\ sale.refund = "completed" => salePayment = "CANCELLED" /\ saleFee # "PAID"
      /\ w \notin SaleCancellers \/ w \notin Refunders
      /\ restocked \in {"no", "yes"}
  BY SettlementAssumption
  DEF MoneyMovesBehindTheMark, RefundsReachTheBooks, SettlementTypeOK
<1>1. CASE StopRun(w)
  <2>1. UNCHANGED <<saleVars, bookVars, told>>
    BY <1>1 DEF StopRun
  <2>2. Marked' <=> Marked
    BY <2>1 DEF Marked, SaleCancelled, SaleCancelling, saleVars
  <2>3. CASE RunTo(w, "idle")
    BY <1>0, <2>1, <2>2, <2>3, RunStep DEF saleVars
  <2>4. CASE w \in SaleCancellers /\ RunTo(w, "localFailed")
    BY <1>0, <2>1, <2>2, <2>4, RunStep DEF saleVars
  <2> QED
    BY <1>1, <2>3, <2>4 DEF StopRun
<1>2. CASE CancelSaleSettlement(w)
  <2>1. /\ UNCHANGED <<sale, salePayment, saleFee, restocked, reversal, creation, confirming>>
        /\ SaleCancelled /\ told' = "refunded" /\ RunTo(w, "idle")
        /\ settlement' = CancelledSettlement
    BY <1>2 DEF CancelSaleSettlement, saleVars, ClosersComeLast
  <2>2. /\ run' \in [RefundRuns -> RunSteps]
        /\ \A v \in RefundRuns : run'[v] = IF v = w THEN "idle" ELSE run[v]
    BY <2>1, RunMoves
  <2>3. \/ settlement.status = "none" /\ settlement' = settlement
        \/ /\ settlement.status = "paid"
           /\ settlement' = [status |-> "paid", recovery |-> "yes"]
        \/ /\ settlement.status \notin {"none", "paid"}
           /\ settlement' = [status |-> "cancelled", recovery |-> settlement.recovery]
    BY <2>1 DEF CancelledSettlement
  <2>4. /\ settlement' \in SettlementRecords
        /\ settlement'.recovery = "yes" => settlement'.status = "paid"
        /\ settlement'.status = "none" <=> settlement.status = "none"
        /\ settlement'.status = "paid" <=> settlement.status = "paid"
        /\ settlement'.status = "paid" => settlement'.recovery = "yes"
        /\ settlement'.status # "confirmed"
    <3>1. settlement.recovery = "yes" => settlement.status = "paid"
      BY DEF SettlementTypeOK
    <3> QED
      BY <2>3, <3>1 DEF SettlementRecords
  <2>5. SettlementTypeOK'
    BY <2>1, <2>2, <2>4 DEF SettlementTypeOK, SettlementRecords
  <2>6. RunParts'
    BY <2>1, <2>2 DEF RunParts, MoneyMovesBehindTheMark, ClosersComeLast,
      CompletingMeansFeeReturned, RefundersHaveARefund, RefundRuns, Marked, SaleCancelled,
      SaleCancelling, RunAt
  <2>7. (NothingBeforeDelivery /\ RestockedIsCancelled /\ ActorsAreRecorded)'
    BY <2>1, <2>4 DEF NothingBeforeDelivery, RestockedIsCancelled, ActorsAreRecorded, SaleCancelled
  <2>8. RefundsReachTheBooks'
    BY <2>1, <2>4 DEF RefundsReachTheBooks, SettlementRecords
  <2>9. SellerRefundsNeedNoRecovery'
    BY <2>1, <2>4 DEF SellerRefundsNeedNoRecovery
  <2> QED
    BY <2>5, <2>6, <2>7, <2>8, <2>9 DEF RunParts
<1> QED
  BY <1>1, <1>2

LEMMA SettlementStep == SettlementInv /\ [SettlementNext]_settlementVars => SettlementInv'
<1>1. ASSUME SettlementInv, SettlementNext PROVE SettlementInv'
  BY <1>1, BookStep, RefundStep, CancelStep, MoneyStep, EndStep DEF SettlementNext
<1>2. ASSUME SettlementInv, UNCHANGED settlementVars PROVE SettlementInv'
  BY <1>2 DEF settlementVars, saleVars, bookVars, SettlementInv, SettlementTypeOK,
    MoneyMovesBehindTheMark, ClosersComeLast, CompletingMeansFeeReturned, NothingBeforeDelivery,
    RestockedIsCancelled, RefundersHaveARefund, ActorsAreRecorded, RefundsReachTheBooks,
    SellerRefundsNeedNoRecovery, Marked, SaleCancelled, SaleCancelling, RunAt
<1> QED
  BY <1>1, <1>2

THEOREM SettlementInvariant == SettlementSpec => []SettlementInv
BY SettlementInitially, SettlementStep, PTL DEF SettlementSpec

(* The documents and runs keep their types, and only a payout that was made *)
(* is marked for recovery.                                                 *)
THEOREM SettlementTypes == SettlementSpec => []SettlementTypeOK
BY SettlementInvariant, PTL DEF SettlementInv

(* A completed refund returned payment and fee, and whoever was told that  *)
(* the order is refunded can rely on its settlement                        *)
(* (PostDeliveryRefundService.completeLocally, cancelSettlement).          *)
THEOREM BooksFollowRefunds == SettlementSpec => []RefundsReachTheBooks
BY SettlementInvariant, PTL DEF SettlementInv

(* A refund the seller starts costs him no payout he already has           *)
(* (assertSellerCanRefund and markAsPaid meet in the order document).      *)
THEOREM NoRecoveryFromSellers == SettlementSpec => []SellerRefundsNeedNoRecovery
BY SettlementInvariant, PTL DEF SettlementInv

(* Delivered goods are not put on sale again (applyLocalCancellation).     *)
THEOREM DeliveredGoodsStaySold == SettlementSpec => []DeliveredGoodsAreNotRestocked
<1>1. SettlementInv => DeliveredGoodsAreNotRestocked
  BY DEF SettlementInv, NothingBeforeDelivery, RestockedIsCancelled, SaleCancelled,
    DeliveredGoodsAreNotRestocked
<1> QED
  BY <1>1, SettlementInvariant, PTL

(* The seller is paid only while the money is all there, and a payout      *)
(* stays in the books (markAsPaid, readOrderPayoutHoldInTransaction).      *)
THEOREM PayoutsAreSafe == SettlementSpec => PayoutsAreForKeptMoney
<1> DEFINE Safe ==
      /\ settlement.status = "paid" => settlement'.status = "paid"
      /\ settlement'.status = "paid" /\ settlement.status # "paid" =>
           /\ salePayment = "PAID" /\ ~ReversalOpen
           /\ \A w \in RefundRuns : run[w] \notin {"refund", "complete", "local"}
<1>1. SettlementInv /\ [SettlementNext]_settlementVars => [Safe]_settlementVars
  <2> SUFFICES ASSUME SettlementInv, SettlementNext PROVE Safe
    OBVIOUS
  <2>1. CASE MarkAsPaid
    <3>1. ~Marked /\ ~ReversalOpen /\ settlement.status = "confirmed"
      BY <2>1 DEF MarkAsPaid, PayoutHeld, Marked
    <3> QED
      BY <3>1 DEF SettlementInv, MoneyMovesBehindTheMark
  <2>2. CASE CreateSettlement
    BY <2>2 DEF CreateSettlement, Created, NewSettlement
  <2>3. CASE ConfirmListed
    <3>1. \/ settlement' = settlement
          \/ /\ settlement.status = "pending"
             /\ settlement' = [status |-> "confirmed", recovery |-> settlement.recovery]
      BY <2>3, SettlementParts DEF ConfirmListed, StillPending, SettlementInv
    <3> QED
      BY <3>1
  <2>4. CASE \E w \in RefundRuns : CancelSaleSettlement(w)
    <3>1. settlement' = CancelledSettlement
      BY <2>4 DEF CancelSaleSettlement
    <3>2. settlement'.status = "paid" <=> settlement.status = "paid"
      <4>1. settlement = [status |-> settlement.status, recovery |-> settlement.recovery]
        BY SettlementParts DEF SettlementInv
      <4> QED
        BY <3>1, <4>1 DEF CancelledSettlement
    <3> QED
      BY <3>2
  <2>5. CASE settlement' = settlement
    BY <2>5
  <2>6. CASE Deliver \/ Review \/ ReconcileDelivery \/ ListDueSettlements
             \/ OwnCancellationWebhook \/ ReversalWebhook \/ ResolveReversal
    BY <2>5, <2>6 DEF Deliver, Review, ReconcileDelivery, ListDueSettlements,
      OwnCancellationWebhook, ReversalWebhook, ResolveReversal
  <2>7. ASSUME NEW r \in Refunders, PostDeliveryRefund(r) PROVE settlement' = settlement
    BY <2>7 DEF PostDeliveryRefund, StartRefund, ResumeRefund, RefundAfterDelivery,
      CompleteLocally, RecordFailedRefund, bookVars
  <2>8. ASSUME NEW c \in SaleCancellers, CancelSale(c) PROVE settlement' = settlement
    BY <2>8 DEF CancelSale, ClaimSaleCancellation, JoinCancellation, RefundCancelledSale,
      RecordSaleCancellation, ApplySaleCancellation, bookVars
  <2>9. ASSUME NEW w \in RefundRuns, RefundUnderWay(w) \/ StopRun(w)
        PROVE  settlement' = settlement
    BY <2>9 DEF RefundUnderWay, StopRun, bookVars
  <2> HIDE DEF Safe
  <2> QED
    BY <2>1, <2>2, <2>3, <2>4, <2>5, <2>6, <2>7, <2>8, <2>9 DEF SettlementNext
<1> QED
  BY SettlementInitially, SettlementStep, <1>1, PTL DEF SettlementSpec, PayoutsAreForKeptMoney

(* The shop's own refunds are not taken for reversals: its webhook finds   *)
(* the claim that was written before PortOne was asked                     *)
(* (PaymentReversalService, ownsCancellation).                             *)
THEOREM OwnRefundsAreQuiet == SettlementSpec => []OwnRefundsRaiseNoAlarm
<1>1. SettlementInit => OwnRefundsRaiseNoAlarm
  BY DEF SettlementInit, OwnRefundsRaiseNoAlarm
<1>2. OwnRefundsRaiseNoAlarm /\ [SettlementNext]_settlementVars => OwnRefundsRaiseNoAlarm'
  <2> SUFFICES ASSUME OwnRefundsRaiseNoAlarm, [SettlementNext]_settlementVars
               PROVE  reversal' # "own"
    BY DEF OwnRefundsRaiseNoAlarm
  <2>1. CASE OwnCancellationWebhook
    BY <2>1 DEF OwnCancellationWebhook, OwnedLocally, OwnRefundsRaiseNoAlarm
  <2>2. CASE ReversalWebhook \/ ResolveReversal
    BY <2>2 DEF ReversalWebhook, ResolveReversal, ReversalIssue, OwnRefundsRaiseNoAlarm
  <2>3. CASE reversal' = reversal
    BY <2>3 DEF OwnRefundsRaiseNoAlarm
  <2>4. CASE Deliver \/ Review \/ ReconcileDelivery \/ CreateSettlement \/ ListDueSettlements
             \/ ConfirmListed \/ MarkAsPaid \/ UNCHANGED settlementVars
    BY <2>3, <2>4 DEF Deliver, Review, ReconcileDelivery, CreateSettlement, ListDueSettlements,
      ConfirmListed, MarkAsPaid, settlementVars, bookVars
  <2>5. ASSUME NEW r \in Refunders, PostDeliveryRefund(r) PROVE reversal' = reversal
    BY <2>5 DEF PostDeliveryRefund, StartRefund, ResumeRefund, RefundAfterDelivery,
      CompleteLocally, RecordFailedRefund, bookVars
  <2>6. ASSUME NEW c \in SaleCancellers, CancelSale(c) PROVE reversal' = reversal
    BY <2>6 DEF CancelSale, ClaimSaleCancellation, JoinCancellation, RefundCancelledSale,
      RecordSaleCancellation, ApplySaleCancellation, bookVars
  <2>7. ASSUME NEW w \in RefundRuns, RefundUnderWay(w) \/ CancelSaleSettlement(w) \/ StopRun(w)
        PROVE  reversal' = reversal
    BY <2>7 DEF RefundUnderWay, CancelSaleSettlement, StopRun, bookVars
  <2> QED
    BY <2>1, <2>2, <2>3, <2>4, <2>5, <2>6, <2>7 DEF SettlementNext
<1> QED
  BY <1>1, <1>2, PTL DEF SettlementSpec
-------------------------------------------------------------------------------
(* The run of a round's cancellation or of a settlement is a behaviour of  *)
(* both specifications, because the one that is not picked stutters: what  *)
(* is proved of a round and of a settlement holds of the run.              *)
THEOREM EndsRunBoth == EndSpec => Spec /\ SettlementSpec
<1>1. EndInit => Init /\ SettlementInit
  BY DEF EndInit
<1>2. ASSUME [EndNext]_<<focus, vars, settlementVars>>
      PROVE  [Next]_vars /\ [SettlementNext]_settlementVars
  BY <1>2 DEF EndNext
<1> QED
  BY <1>1, <1>2, PTL DEF EndSpec, Spec, SettlementSpec
================================================================================
