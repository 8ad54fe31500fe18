------------------------------ MODULE Redelivery ------------------------------
(***************************************************************************)
(* The redelivery fee of one round order.  A delivery may be held at the   *)
(* customer's expense; the customer then pays a charge of its own, beside  *)
(* the order's payment, and only a paid charge lets the delivery resume.   *)
(* Webhooks and a job every minute book the payment; cancelling the order  *)
(* returns it.  The charge is refunded under a claim like the payment's    *)
(* (PaymentRefund), whose single idempotency key is left out here.         *)
(***************************************************************************)
EXTENDS Naturals

CONSTANTS
  Finalisers, \* runs of the webhook handler, the job and the customer's check
  ParcelCancellers, \* runs of the order's cancellation
  Droppable,  \* webhooks that PortOne may stop delivering unanswered
  MaxHolds    \* bound: how often the delivery is held

ChargeWorkers == Finalisers \union ParcelCancellers

ASSUME RedeliveryAssumption ==
  /\ Finalisers \intersect ParcelCancellers = {} /\ "nobody" \notin ChargeWorkers
  /\ Droppable \subseteq {"Paid"}
  /\ MaxHolds \in Nat

VARIABLES
  parcel,      \* the order: status, cancellation and its deliveryHold
  mainPayment, \* status of the order's own payment
  charge,      \* the order's charge document and the hold it was made for
  feeClaim,    \* the charge's refundClaim
  fee,         \* what PortOne did with the fee
  lateRefund,  \* a refund request whose sender no longer waits, if any
  notices,     \* the webhooks PortOne delivers until they are answered
  work         \* work[w]: where worker w is, and on whose behalf

feeVars == <<charge, feeClaim, fee, lateRefund>>
redeliveryVars == <<parcel, mainPayment, feeVars, notices, work>>

(* A hold is known by its heldAt, here its number; 0 is no hold.           *)
NoCharge == [status |-> "none", hold |-> 0, unneeded |-> "no"]
NoFeeClaim == [status |-> "NONE", token |-> "nobody", lease |-> "lapsed"]
FeeClaim(status, w) == [status |-> status, token |-> w, lease |-> "live"]

Unfinished == {"REFUNDING", "LOCAL_PENDING", "LOCAL_FAILED", "REFUND_FAILED"}
Cancelling == parcel.cancellation \in Unfinished
CancelledOrCancelling == parcel.status = "CANCELLED" \/ Cancelling

FeeRequired == parcel.fee = "due" /\ parcel.resolved = "no"
ForCurrentHold == FeeRequired /\ charge.status # "none" /\ charge.hold = parcel.hold

RefundSubsteps == {"claim", "readback", "recheck", "post", "complete",
                   "completeAfterReadback", "uncertain"}
ChargeSteps == {"idle", "finalise", "unpaid", "payment", "charges", "requery", "refunded",
                "refundFailed", "local", "localFailed", "settlement"} \union RefundSubsteps
Resting == [pc |-> "idle", as |-> "none"]
At(w, step) == work[w].pc = step
Step(w, step) == work' = [work EXCEPT ![w].pc = step]
Rest(w) == work' = [work EXCEPT ![w] = Resting]
-------------------------------------------------------------------------------
(* Seller and driver move the order, never while it is being cancelled.    *)

Move(status) == parcel.status \in status /\ ~Cancelling

HoldAnyOrder == TRUE
MayHold == ~(parcel.status = "PREPARING" /\ FeeRequired)

HoldDelivery(terms) ==
  /\ Move({"PREPARING", "DELIVERING"}) /\ MayHold
  /\ parcel.hold < MaxHolds
  /\ parcel' = [parcel EXCEPT !.status = "DELIVERY_HELD", !.hold = @ + 1,
                              !.fee = terms, !.resolved = "no"]
  /\ UNCHANGED <<mainPayment, feeVars, notices, work>>

BackToPreparing ==
  /\ Move({"DELIVERY_HELD"})
  /\ parcel' = [parcel EXCEPT !.status = "PREPARING",
                              !.resolved = IF FeeRequired THEN @ ELSE "yes"]
  /\ UNCHANGED <<mainPayment, feeVars, notices, work>>

(* assertPaidRedeliveryResume, without the link and with it. *)
AnyPaidChargeResumes == FeeRequired => charge.status = "PAID"
PaidResume == FeeRequired => ForCurrentHold /\ charge.status = "PAID"

StartDelivery ==
  /\ Move({"PREPARING", "DELIVERY_HELD"}) /\ PaidResume
  /\ parcel' = [parcel EXCEPT !.status = "DELIVERING", !.resolved = "yes"]
  /\ UNCHANGED <<mainPayment, feeVars, notices, work>>

FinishDelivery ==
  /\ Move({"DELIVERING"})
  /\ parcel' = [parcel EXCEPT !.status = "DELIVERED"]
  /\ UNCHANGED <<mainPayment, feeVars, notices, work>>

UpdateStatus ==
  \/ \E terms \in {"free", "due"} : HoldDelivery(terms)
  \/ BackToPreparing \/ StartDelivery \/ FinishDelivery

(* An order has one charge: a later hold at the customer's expense finds   *)
(* the old charge's link and is handed to the operators instead.           *)
CreateCharge ==
  /\ Move({"DELIVERY_HELD", "PREPARING"}) /\ FeeRequired
  /\ charge.status = "none"
  /\ charge' = [NoCharge EXCEPT !.status = "PENDING", !.hold = parcel.hold]
  /\ UNCHANGED <<parcel, mainPayment, feeClaim, fee, lateRefund, notices, work>>

(* The customer's payment window may stay open for as long as it likes.    *)
PayFee ==
  /\ charge.status # "none" /\ fee = "unpaid"
  /\ fee' = "PAID"
  /\ notices' = notices \union {"Paid"}
  /\ UNCHANGED <<parcel, mainPayment, charge, feeClaim, lateRefund, work>>

DropNotice ==
  /\ \E kind \in Droppable \intersect notices : notices' = notices \ {kind}
  /\ UNCHANGED <<parcel, mainPayment, feeVars, work>>
-------------------------------------------------------------------------------
(* Booking what PortOne reports. *)

FailedCharge == IF charge.status = "PENDING" THEN [charge EXCEPT !.status = "FAILED"] ELSE charge

(* A failed attempt to pay is reported at any time after it, even after a   *)
(* later attempt succeeded.                                                *)
FailedWebhook ==
  /\ charge.status # "none"
  /\ charge' = FailedCharge
  /\ UNCHANGED <<parcel, mainPayment, feeClaim, fee, lateRefund, notices, work>>

PaidWebhook(w) ==
  /\ At(w, "idle") /\ "Paid" \in notices
  /\ work' = [work EXCEPT ![w] = [pc |-> "finalise", as |-> "webhook"]]
  /\ UNCHANGED <<parcel, mainPayment, feeVars, notices>>

AfterLookupUnpaid == "unpaid"
AfterLookup == IF fee = "PAID" THEN "finalise" ELSE "unpaid"

(* The job or the customer's check finds the charge pending and asks       *)
(* PortOne.  Nothing is decided between the two: both later transactions   *)
(* look at the charge again.                                               *)
CheckPendingCharge(w) ==
  /\ At(w, "idle") /\ charge.status = "PENDING"
  /\ work' = [work EXCEPT ![w] = [pc |-> AfterLookup, as |-> "check"]]
  /\ UNCHANGED <<parcel, mainPayment, feeVars, notices>>

PermanentlyUnneeded == parcel.status = "CANCELLED" \/ ~ForCurrentHold

CloseUnpaidCharge(w) ==
  /\ At(w, "unpaid")
  /\ charge' = IF PermanentlyUnneeded THEN FailedCharge ELSE charge
  /\ Rest(w)
  /\ UNCHANGED <<parcel, mainPayment, feeClaim, fee, lateRefund, notices>>

(* A worker's refund of the charge ends: the webhook is answered with 200, *)
(* the cancellation counts what is left.                                   *)
Handled(w) ==
  IF w \in ParcelCancellers THEN Step(w, "requery") /\ UNCHANGED notices
  ELSE /\ Rest(w)
       /\ notices' = IF work[w].as = "webhook" THEN notices \ {"Paid"} ELSE notices

(* Another attempt holds the claim: the webhook is to be delivered again.  *)
ClaimInFlight(w) ==
  IF w \in ParcelCancellers THEN Step(w, "requery") /\ UNCHANGED notices
  ELSE Rest(w) /\ UNCHANGED notices

Threw(w) ==
  /\ IF w \in ParcelCancellers THEN Step(w, "refundFailed") ELSE Rest(w)
  /\ UNCHANGED notices

Payable == parcel.status \in {"DELIVERY_HELD", "PREPARING"} /\ ForCurrentHold

BookedCharge ==
  IF charge.status \notin {"PENDING", "FAILED"} THEN charge
  ELSE [charge EXCEPT !.status = "PAID",
                      !.unneeded = IF CancelledOrCancelling \/ Payable THEN "no" ELSE "yes"]

UnwantedWheneverResumed(booked) ==
  booked.status = "PAID" /\ (CancelledOrCancelling \/ ~Payable)
Unwanted(booked) ==
  booked.status = "PAID" /\ (CancelledOrCancelling \/ booked.unneeded = "yes")

FinalisePaid(w) ==
  /\ At(w, "finalise")
  /\ charge' = BookedCharge
  /\ IF Unwanted(BookedCharge) THEN Step(w, "claim") /\ UNCHANGED notices ELSE Handled(w)
  /\ UNCHANGED <<parcel, mainPayment, feeClaim, fee, lateRefund>>
-------------------------------------------------------------------------------
(* refundCharge, run by finalisers and cancellers alike. *)

FeeClaimTaken == feeClaim.status = "CLAIMED" /\ feeClaim.lease = "live"
OwnsFeeRefund(w) == feeClaim.status # "NONE" /\ feeClaim.token = w

ClaimFeeRefund(w) ==
  /\ At(w, "claim")
  /\ IF charge.status # "PAID" THEN Handled(w) /\ UNCHANGED feeClaim
     ELSE IF FeeClaimTaken THEN ClaimInFlight(w) /\ UNCHANGED feeClaim
     ELSE LET fresh == feeClaim.status = "NONE" IN
          /\ feeClaim' = FeeClaim(IF fresh THEN "CLAIMED" ELSE "UNKNOWN", w)
          /\ Step(w, IF fresh THEN "post" ELSE "readback")
          /\ UNCHANGED notices
  /\ UNCHANGED <<parcel, mainPayment, charge, fee, lateRefund>>

ReadFee(w) ==
  /\ At(w, "readback")
  /\ \/ Step(w, IF fee = "CANCELLED" THEN "completeAfterReadback" ELSE "recheck")
     \/ Step(w, "uncertain")
  /\ UNCHANGED <<parcel, mainPayment, feeVars, notices>>

RecheckFeeRefund(w) ==
  /\ At(w, "recheck")
  /\ IF OwnsFeeRefund(w) THEN Step(w, "post") /\ UNCHANGED notices ELSE Handled(w)
  /\ UNCHANGED <<parcel, mainPayment, feeVars>>

PostFeeRefund(w) ==
  /\ At(w, "post")
  /\ fee' = "CANCELLED"
  /\ Step(w, "complete")
  /\ UNCHANGED <<parcel, mainPayment, charge, feeClaim, lateRefund, notices>>

AfterFailedFeePostOptimistic == "complete"
AfterFailedFeePost == "uncertain"

FeePostFails(w) ==
  /\ At(w, "post")
  /\ lateRefund' = "underway"
  /\ Step(w, AfterFailedFeePost)
  /\ UNCHANGED <<parcel, mainPayment, charge, feeClaim, fee, notices>>

LateRefundLands ==
  /\ lateRefund = "underway"
  /\ fee' = "CANCELLED" /\ lateRefund' = "none"
  /\ UNCHANGED <<parcel, mainPayment, charge, feeClaim, notices, work>>

ClaimCleared(w) == IF OwnsFeeRefund(w) THEN NoFeeClaim ELSE feeClaim

CompleteFeeRefund(w) ==
  /\ work[w].pc \in {"complete", "completeAfterReadback"}
  /\ charge' = IF OwnsFeeRefund(w) THEN [charge EXCEPT !.status = "REFUNDED"] ELSE charge
  /\ feeClaim' = ClaimCleared(w)
  /\ Handled(w)
  /\ UNCHANGED <<parcel, mainPayment, fee, lateRefund>>

CompleteFeeRefundFails(w) ==
  \/ /\ At(w, "complete")
     /\ Step(w, "uncertain")
     /\ UNCHANGED <<parcel, mainPayment, feeVars, notices>>
  \/ /\ At(w, "completeAfterReadback")
     /\ Threw(w)
     /\ UNCHANGED <<parcel, mainPayment, feeVars>>

(* Whether or not the uncertainty is recorded, the caller sees the error.  *)
PersistUncertainFee(w) ==
  /\ At(w, "uncertain")
  /\ feeClaim' \in {feeClaim, IF OwnsFeeRefund(w) THEN FeeClaim("UNKNOWN", w) ELSE feeClaim}
  /\ Threw(w)
  /\ UNCHANGED <<parcel, mainPayment, charge, fee, lateRefund>>

RefundCharge(w) ==
  \/ ClaimFeeRefund(w) \/ ReadFee(w) \/ RecheckFeeRefund(w)
  \/ PostFeeRefund(w) \/ FeePostFails(w)
  \/ CompleteFeeRefund(w) \/ CompleteFeeRefundFails(w) \/ PersistUncertainFee(w)

FeeLeaseLapses ==
  /\ feeClaim.lease = "live"
  /\ feeClaim' = [feeClaim EXCEPT !.lease = "lapsed"]
  /\ UNCHANGED <<parcel, mainPayment, charge, fee, lateRefund, notices, work>>
-------------------------------------------------------------------------------
(* Cancelling the order: RoundOrderLifecycleService.cancel. *)

Cancellable == parcel.status \in {"PREPARING", "DELIVERY_HELD"}

Begin(c, step) == work' = [work EXCEPT ![c] = [pc |-> step, as |-> "first"]]

(* An unfinished cancellation is resumed: with the refund of the payment   *)
(* and the charge while the payment is PAID, else with the local part.     *)
ResumeCancellation(c) ==
  /\ At(c, "idle")
  /\ \/ parcel.status = "CANCELLED" /\ (parcel.cancellation # "COMPLETED" \/ mainPayment = "PAID")
     \/ parcel.status # "CANCELLED" /\ parcel.cancellation \in {"REFUNDING", "LOCAL_PENDING", "LOCAL_FAILED"}
  /\ Begin(c, IF mainPayment = "PAID" /\ (parcel.status = "CANCELLED" \/ parcel.cancellation = "REFUNDING")
              THEN "payment" ELSE "local")
  /\ UNCHANGED <<parcel, mainPayment, feeVars, notices>>

ClaimParcelCancellation(c) ==
  /\ At(c, "idle")
  /\ parcel.cancellation \in {"none", "REFUND_FAILED"} /\ Cancellable
  /\ parcel' = [parcel EXCEPT !.cancellation = "REFUNDING"]
  /\ Begin(c, "payment")
  /\ UNCHANGED <<mainPayment, feeVars, notices>>

(* PaymentRefund, in one step: the payment is returned, or left to the     *)
(* attempt that holds its claim, or the refund throws.                     *)
RefundMainPayment(c) ==
  /\ At(c, "payment")
  /\ mainPayment' \in {mainPayment, "CANCELLED"}
  /\ \/ Step(c, "charges")
     \/ mainPayment' = mainPayment /\ Step(c, "refundFailed")
  /\ UNCHANGED <<parcel, feeVars, notices>>

QueryPaidCharges(c) ==
  /\ At(c, "charges")
  /\ Step(c, IF charge.status = "PAID" THEN "claim" ELSE "refunded")
  /\ UNCHANGED <<parcel, mainPayment, feeVars, notices>>

Unsettled == charge.status = "PAID"

CountUnsettled(c) ==
  /\ At(c, "requery")
  /\ Step(c, IF Unsettled THEN "refundFailed" ELSE "refunded")
  /\ UNCHANGED <<parcel, mainPayment, feeVars, notices>>

(* recordCancellationState writes whatever the order says by then. *)
RecordCancellationState(c) ==
  /\ \/ /\ At(c, "refunded")
        /\ parcel' = [parcel EXCEPT !.cancellation = "LOCAL_PENDING"]
        /\ Step(c, "local")
     \/ /\ At(c, "refundFailed")
        /\ parcel' = [parcel EXCEPT !.cancellation = "REFUND_FAILED"]
        /\ Rest(c)
     \/ /\ At(c, "localFailed")
        /\ parcel' = [parcel EXCEPT !.cancellation = "LOCAL_FAILED"]
        /\ Rest(c)
  /\ UNCHANGED <<mainPayment, feeVars, notices>>

(* The payment turned out to be PAID: it is refunded once more, but only   *)
(* once in a run.                                                          *)
RefundAgain(c) ==
  /\ parcel' = [parcel EXCEPT !.cancellation = "REFUNDING"]
  /\ IF work[c].as = "first" THEN work' = [work EXCEPT ![c] = [pc |-> "payment", as |-> "second"]]
     ELSE Rest(c)

ApplyLocal(c) ==
  /\ At(c, "local")
  /\ IF /\ mainPayment = "PAID"
        /\ parcel.status = "CANCELLED" \/ parcel.cancellation \in {"LOCAL_PENDING", "LOCAL_FAILED"}
     THEN RefundAgain(c)
     ELSE IF parcel.status = "CANCELLED"
     THEN parcel' = [parcel EXCEPT !.cancellation = "COMPLETED"] /\ Step(c, "settlement")
     ELSE IF parcel.cancellation \in {"LOCAL_PENDING", "LOCAL_FAILED"} /\ Cancellable
     THEN /\ parcel' = [parcel EXCEPT !.status = "CANCELLED", !.cancellation = "COMPLETED",
                                      !.resolved = "yes"]
          /\ Step(c, "settlement")
     ELSE Step(c, "localFailed") /\ UNCHANGED parcel
  /\ UNCHANGED <<mainPayment, feeVars, notices>>

CancelSettlementOfOrder(c) ==
  /\ At(c, "settlement")
  /\ Rest(c) \/ Step(c, "localFailed")
  /\ UNCHANGED <<parcel, mainPayment, feeVars, notices>>

Cancel(c) ==
  \/ ResumeCancellation(c) \/ ClaimParcelCancellation(c)
  \/ RefundMainPayment(c) \/ QueryPaidCharges(c) \/ CountUnsettled(c)
  \/ RecordCancellationState(c) \/ ApplyLocal(c) \/ CancelSettlementOfOrder(c)

(* A process dies, or a write it needs to go on is refused. *)
StopWork(w) ==
  /\ ~At(w, "idle")
  /\ Rest(w)
  /\ UNCHANGED <<parcel, mainPayment, feeVars, notices>>
-------------------------------------------------------------------------------
RedeliveryInit ==
  /\ parcel = [status |-> "PREPARING", cancellation |-> "none", hold |-> 0,
               fee |-> "free", resolved |-> "yes"]
  /\ mainPayment = "PAID"
  /\ charge = NoCharge /\ feeClaim = NoFeeClaim
  /\ fee = "unpaid" /\ lateRefund = "none" /\ notices = {}
  /\ work = [w \in ChargeWorkers |-> Resting]

RedeliveryNext ==
  \/ UpdateStatus \/ CreateCharge \/ PayFee
  \/ DropNotice \/ FailedWebhook \/ LateRefundLands \/ FeeLeaseLapses
  \/ \E f \in Finalisers :
       PaidWebhook(f) \/ CheckPendingCharge(f) \/ CloseUnpaidCharge(f) \/ FinalisePaid(f)
  \/ \E c \in ParcelCancellers : Cancel(c)
  \/ \E w \in ChargeWorkers : RefundCharge(w) \/ StopWork(w)

RedeliverySpec == RedeliveryInit /\ [][RedeliveryNext]_redeliveryVars

(* Checks of a pending charge go on, every worker gets done or dies, and a *)
(* booking that can be made again and again is made in the end.            *)
RedeliveryFairness ==
  \A f \in Finalisers :
    /\ SF_redeliveryVars(CheckPendingCharge(f)) /\ SF_redeliveryVars(PaidWebhook(f))
    /\ SF_redeliveryVars(FinalisePaid(f))
    /\ WF_redeliveryVars(CloseUnpaidCharge(f) \/ RefundCharge(f) \/ StopWork(f))
-------------------------------------------------------------------------------
(* The documents and workers keep their types; a claim belongs to a charge *)
(* that is still to be refunded and names who holds it.                    *)
RedeliveryTypeOK ==
  /\ parcel \in [status : {"PREPARING", "DELIVERING", "DELIVERY_HELD", "DELIVERED", "CANCELLED"},
                 cancellation : {"none", "COMPLETED"} \union Unfinished,
                 hold : 0..MaxHolds, fee : {"free", "due"}, resolved : {"no", "yes"}]
  /\ mainPayment \in {"PAID", "CANCELLED"}
  /\ charge \in [status : {"none", "PENDING", "FAILED", "PAID", "REFUNDED"},
                 hold : 0..MaxHolds, unneeded : {"no", "yes"}]
  /\ feeClaim \in [status : {"NONE", "CLAIMED", "UNKNOWN"},
                   token : ChargeWorkers \union {"nobody"}, lease : {"live", "lapsed"}]
  /\ feeClaim.status # "NONE" => charge.status = "PAID" /\ feeClaim.token \in ChargeWorkers
  /\ fee \in {"unpaid", "PAID", "CANCELLED"} /\ lateRefund \in {"none", "underway"}
  /\ notices \subseteq {"Paid"}
  /\ work \in [ChargeWorkers -> [pc : ChargeSteps, as : {"none", "webhook", "check", "first", "second"}]]

(* A fee the customer has not paid yet is always the fee of the hold the   *)
(* order is in: holding, releasing and resuming never leave a payable      *)
(* charge behind, so no customer is asked to pay for a hold that is over.  *)
PayableFeeIsCurrent ==
  charge.status \in {"PENDING", "FAILED"} => parcel.status = "CANCELLED" \/ Payable

(* An order goes out or arrives only while its payment is kept, and after  *)
(* a hold at the customer's expense only on the paid fee of that very hold,*)
(* whatever webhooks, jobs and cancellations do meanwhile.                 *)
DeliveryIsFunded ==
  parcel.status \in {"DELIVERING", "DELIVERED"} =>
    /\ mainPayment = "PAID"
    /\ parcel.fee = "due" =>
         charge.status = "PAID" /\ charge.hold = parcel.hold /\ fee = "PAID"

(* Money goes back only for an order that is cancelled or on its way there:*)
(* no late or repeated webhook of a used fee returns it.  (The code also   *)
(* returns a charge booked for no current hold; no order gets that far.)   *)
OnlyUnwantedFeesGoBack ==
  fee = "CANCELLED" \/ feeClaim.status # "NONE" => CancelledOrCancelling

(* The charge's claims, takeovers and late requests keep the same promise  *)
(* as the refund of the order's payment.                                   *)
FeeContract == INSTANCE RefundContract WITH
  returnedBy <- IF fee = "CANCELLED" THEN "shop" ELSE "nobody",
  books <- IF charge.status = "REFUNDED" THEN "recorded"
           ELSE IF feeClaim.status = "NONE" THEN "open" ELSE "requested"
KeepsFeeRefundContract == FeeContract!Spec

(* A fee that was paid is booked: the job asks for what no webhook brings, *)
(* and only a charge closed by a failed attempt depends on its webhook.    *)
PaidFeesAreBooked ==
  fee = "PAID" ~>
    \/ charge.status \in {"PAID", "REFUNDED"}
    \/ charge.status = "FAILED" /\ "Paid" \notin notices

(* The comment above refundByOrderId: a cancellation is completed only     *)
(* when no paid charge is left.  Fees that arrive afterwards are returned  *)
(* by the run that books them.                                             *)
CompletedCancellationReturnedTheFee ==
  parcel.status = "CANCELLED" /\ parcel.cancellation = "COMPLETED" /\ charge.status = "PAID" =>
    "Paid" \in notices \/ \E f \in Finalisers : ~At(f, "idle")
===============================================================================
