---------------------------- MODULE RedeliveryProofs ----------------------------
(***************************************************************************)
(* Theorems about Redelivery, for any number of finalisers, cancellers and *)
(* holds.  Nothing is returned before the order is marked as cancelled or  *)
(* being cancelled, the mark stays, and a marked order is not moved.  Once *)
(* a refund of the charge was begun, the claim or the REFUNDED charge says *)
(* so for good.                                                            *)
(***************************************************************************)
EXTENDS Redelivery, TLAPS

ParcelRecords ==
  [status : {"PREPARING", "DELIVERING", "DELIVERY_HELD", "DELIVERED", "CANCELLED"},
   cancellation : {"none", "COMPLETED"} \union Unfinished,
   hold : 0..MaxHolds, fee : {"free", "due"}, resolved : {"no", "yes"}]
ChargeRecords ==
  [status : {"none", "PENDING", "FAILED", "PAID", "REFUNDED"},
   hold : 0..MaxHolds, unneeded : {"no", "yes"}]
FeeClaimRecords ==
  [status : {"NONE", "CLAIMED", "UNKNOWN"},
   token : ChargeWorkers \union {"nobody"}, lease : {"live", "lapsed"}]
WorkRecords == [pc : ChargeSteps, as : {"none", "webhook", "check", "first", "second"}]

DocumentTypes ==
  /\ parcel \in ParcelRecords /\ mainPayment \in {"PAID", "CANCELLED"}
  /\ charge \in ChargeRecords /\ feeClaim \in FeeClaimRecords
  /\ feeClaim.status # "NONE" => charge.status = "PAID" /\ feeClaim.token \in ChargeWorkers
  /\ fee \in {"unpaid", "PAID", "CANCELLED"} /\ lateRefund \in {"none", "underway"}
  /\ notices \subseteq {"Paid"}

RefundBegun == feeClaim.status # "NONE" \/ charge.status = "REFUNDED"

(* What the mark in the order protects. *)
UnmarkedIsUntouched ==
  ~CancelledOrCancelling =>
    mainPayment = "PAID" /\ lateRefund = "none" /\ fee # "CANCELLED" /\ ~RefundBegun
MarkedStays ==
  /\ parcel.status \in {"DELIVERING", "DELIVERED"} => ~Cancelling
  /\ parcel.fee = "due" /\ parcel.resolved = "yes" =>
       parcel.status \in {"DELIVERING", "DELIVERED", "CANCELLED"}

(* How the charge follows the fee.  No charge is booked as unneeded: the   *)
(* order cannot leave a hold whose charge is unpaid.                       *)
ChargeFollowsFee ==
  /\ charge.unneeded = "no"
  /\ charge.status \in {"PAID", "REFUNDED"} \/ "Paid" \in notices => fee # "unpaid"
  /\ fee # "unpaid" => charge.status # "none"
  /\ charge.status = "REFUNDED" => fee = "CANCELLED"
  /\ lateRefund = "underway" \/ fee = "CANCELLED" => RefundBegun

DocumentInv ==
  /\ DocumentTypes /\ PayableFeeIsCurrent /\ DeliveryIsFunded
  /\ UnmarkedIsUntouched /\ MarkedStays /\ ChargeFollowsFee

WorkerInv ==
  /\ work \in [ChargeWorkers -> WorkRecords]
  /\ \A w \in ChargeWorkers :
       /\ work[w].pc \notin {"idle", "finalise", "unpaid"} => CancelledOrCancelling
       /\ w \in ParcelCancellers /\ work[w].pc # "idle" => CancelledOrCancelling
       /\ work[w].pc = "finalise" => fee # "unpaid"
       /\ work[w].pc \in RefundSubsteps \ {"claim"} => RefundBegun
       /\ work[w].pc \in {"complete", "completeAfterReadback"} => fee = "CANCELLED"

RedeliveryInv == DocumentInv /\ WorkerInv
-------------------------------------------------------------------------------
LEMMA ParcelParts ==
  ASSUME DocumentTypes
  PROVE  /\ parcel = [status |-> parcel.status, cancellation |-> parcel.cancellation,
                      hold |-> parcel.hold, fee |-> parcel.fee, resolved |-> parcel.resolved]
         /\ charge = [status |-> charge.status, hold |-> charge.hold, unneeded |-> charge.unneeded]
         /\ feeClaim = [status |-> feeClaim.status, token |-> feeClaim.token,
                        lease |-> feeClaim.lease]
         /\ parcel.hold \in Nat /\ MaxHolds \in Nat
         /\ parcel.status \in {"PREPARING", "DELIVERING", "DELIVERY_HELD", "DELIVERED", "CANCELLED"}
         /\ charge.status \in {"none", "PENDING", "FAILED", "PAID", "REFUNDED"}
         /\ parcel.fee \in {"free", "due"} /\ parcel.resolved \in {"no", "yes"}
<1>1. parcel \in ParcelRecords /\ charge \in ChargeRecords /\ feeClaim \in FeeClaimRecords
  BY DEF DocumentTypes
<1>2. MaxHolds \in Nat
  BY RedeliveryAssumption
<1> QED
  BY <1>1, <1>2 DEF ParcelRecords, ChargeRecords, FeeClaimRecords

(* Worker w moves to a step. *)
Moves(w, step) ==
  /\ work' \in [ChargeWorkers -> WorkRecords]
  /\ \A v \in ChargeWorkers : work'[v].pc = IF v = w THEN step ELSE work[v].pc

LEMMA StepMoves ==
  ASSUME work \in [ChargeWorkers -> WorkRecords], NEW w \in ChargeWorkers,
         NEW step \in ChargeSteps, Step(w, step)
  PROVE  Moves(w, step)
<1> DEFINE r == [work[w] EXCEPT !.pc = step]
<1>1. r \in WorkRecords /\ r.pc = step
  BY DEF WorkRecords
<1>2. work' = [work EXCEPT ![w] = r]
  BY DEF Step
<1> HIDE DEF r
<1> QED
  BY <1>1, <1>2 DEF Moves

LEMMA RecordMoves ==
  ASSUME work \in [ChargeWorkers -> WorkRecords], NEW w \in ChargeWorkers,
         NEW step \in ChargeSteps, NEW as \in {"none", "webhook", "check", "first", "second"},
         work' = [work EXCEPT ![w] = [pc |-> step, as |-> as]]
  PROVE  Moves(w, step)
<1> DEFINE r == [pc |-> step, as |-> as]
<1>1. r \in WorkRecords /\ r.pc = step
  BY DEF WorkRecords
<1>2. work' = [work EXCEPT ![w] = r]
  OBVIOUS
<1> HIDE DEF r
<1> QED
  BY <1>1, <1>2 DEF Moves

LEMMA RestMoves ==
  ASSUME work \in [ChargeWorkers -> WorkRecords], NEW w \in ChargeWorkers, Rest(w)
  PROVE  Moves(w, "idle")
BY RecordMoves DEF Rest, Resting, ChargeSteps

(* How a worker's refund of the charge may end. *)
LEMMA RefundEnds ==
  ASSUME work \in [ChargeWorkers -> WorkRecords], NEW w \in ChargeWorkers,
         Handled(w) \/ ClaimInFlight(w) \/ Threw(w)
  PROVE  /\ notices' \subseteq notices
         /\ Moves(w, "idle") \/ Moves(w, "requery") \/ Moves(w, "refundFailed")
BY StepMoves, RestMoves DEF Handled, ClaimInFlight, Threw, ChargeSteps

(* A worker's step keeps the workers' invariant, given what it finds there.*)
LEMMA WorkerMoves ==
  ASSUME WorkerInv, NEW w \in ChargeWorkers, NEW step \in ChargeSteps, Moves(w, step),
         CancelledOrCancelling => CancelledOrCancelling',
         fee # "unpaid" => fee' # "unpaid", fee = "CANCELLED" => fee' = "CANCELLED",
         RefundBegun => RefundBegun',
         step \notin {"idle", "finalise", "unpaid"} => CancelledOrCancelling',
         w \in ParcelCancellers /\ step # "idle" => CancelledOrCancelling',
         step = "finalise" => fee' # "unpaid",
         step \in RefundSubsteps \ {"claim"} => RefundBegun',
         step \in {"complete", "completeAfterReadback"} => fee' = "CANCELLED"
  PROVE  WorkerInv'
<1>1. work' \in [ChargeWorkers -> WorkRecords]
  BY DEF Moves
<1>2. ASSUME NEW v \in ChargeWorkers
      PROVE  /\ work'[v].pc \notin {"idle", "finalise", "unpaid"} => CancelledOrCancelling'
             /\ v \in ParcelCancellers /\ work'[v].pc # "idle" => CancelledOrCancelling'
             /\ work'[v].pc = "finalise" => fee' # "unpaid"
             /\ work'[v].pc \in RefundSubsteps \ {"claim"} => RefundBegun'
             /\ work'[v].pc \in {"complete", "completeAfterReadback"} => fee' = "CANCELLED"
  <2>1. work'[v].pc = IF v = w THEN step ELSE work[v].pc
    BY DEF Moves
  <2>2. CASE v = w
    BY <2>1, <2>2
  <2>3. CASE v # w
    BY <2>1, <2>3 DEF WorkerInv
  <2> QED
    BY <2>2, <2>3
<1> QED
  BY <1>1, <1>2 DEF WorkerInv

LEMMA WorkersWait ==
  ASSUME WorkerInv, work' = work,
         CancelledOrCancelling => CancelledOrCancelling',
         fee # "unpaid" => fee' # "unpaid", fee = "CANCELLED" => fee' = "CANCELLED",
         RefundBegun => RefundBegun'
  PROVE  WorkerInv'
BY DEF WorkerInv

(* The documents as they were, fewer notices.                              *)
LEMMA DocumentsStay ==
  ASSUME DocumentInv, UNCHANGED <<parcel, mainPayment, charge, feeClaim, fee, lateRefund>>,
         notices' \subseteq notices
  PROVE  /\ DocumentInv'
         /\ CancelledOrCancelling' <=> CancelledOrCancelling
         /\ RefundBegun' <=> RefundBegun
BY DEF DocumentInv, DocumentTypes, PayableFeeIsCurrent, DeliveryIsFunded, UnmarkedIsUntouched,
  MarkedStays, ChargeFollowsFee, CancelledOrCancelling, Cancelling, RefundBegun, Payable,
  ForCurrentHold, FeeRequired

LEMMA RedeliveryInitially == RedeliveryInit => RedeliveryInv
<1> SUFFICES ASSUME RedeliveryInit PROVE RedeliveryInv
  OBVIOUS
<1>1. DocumentTypes
  BY RedeliveryAssumption
  DEF RedeliveryInit, DocumentTypes, ParcelRecords, ChargeRecords, FeeClaimRecords, NoCharge, NoFeeClaim
<1>2. PayableFeeIsCurrent /\ DeliveryIsFunded /\ UnmarkedIsUntouched /\ MarkedStays /\ ChargeFollowsFee
  BY DEF RedeliveryInit, PayableFeeIsCurrent, DeliveryIsFunded, UnmarkedIsUntouched, MarkedStays,
    ChargeFollowsFee, NoCharge, NoFeeClaim, RefundBegun, Cancelling, Unfinished
<1>3. WorkerInv
  BY DEF RedeliveryInit, WorkerInv, WorkRecords, ChargeSteps, Resting, RefundSubsteps
<1> QED
  BY <1>1, <1>2, <1>3 DEF RedeliveryInv, DocumentInv
-------------------------------------------------------------------------------
(* Seller and driver. *)

LEMMA OrderMoves ==
  ASSUME RedeliveryInv, UpdateStatus
  PROVE  RedeliveryInv'
<1> USE DEF RedeliveryInv
<1>0. DocumentInv /\ WorkerInv /\ DocumentTypes
  BY DEF DocumentInv
<1>1. /\ UNCHANGED <<mainPayment, charge, feeClaim, fee, lateRefund, notices, work>>
      /\ ~CancelledOrCancelling /\ parcel'.cancellation = parcel.cancellation
      /\ parcel'.status # "CANCELLED"
  BY <1>0, ParcelParts DEF UpdateStatus, HoldDelivery, BackToPreparing, StartDelivery,
    FinishDelivery, Move, CancelledOrCancelling, Cancelling, feeVars
<1>2. ~CancelledOrCancelling'
  BY <1>1 DEF CancelledOrCancelling, Cancelling
<1>3. WorkerInv'
  BY <1>0, <1>1, WorkersWait DEF RefundBegun
<1>4. (UnmarkedIsUntouched /\ ChargeFollowsFee)'
  BY <1>0, <1>1 DEF DocumentInv, UnmarkedIsUntouched, ChargeFollowsFee, RefundBegun
<1>5. mainPayment = "PAID" /\ ~RefundBegun /\ fee # "CANCELLED"
  BY <1>1 DEF DocumentInv, UnmarkedIsUntouched
<1>6. ASSUME parcel' \in ParcelRecords, PayableFeeIsCurrent', DeliveryIsFunded', MarkedStays'
      PROVE  RedeliveryInv'
  BY <1>0, <1>1, <1>3, <1>4, <1>6 DEF DocumentInv, DocumentTypes
<1>7. ASSUME NEW terms \in {"free", "due"}, HoldDelivery(terms) PROVE RedeliveryInv'
  <2>1. /\ parcel' = [status |-> "DELIVERY_HELD", cancellation |-> parcel.cancellation,
                      hold |-> parcel.hold + 1, fee |-> terms, resolved |-> "no"]
        /\ parcel.status \in {"PREPARING", "DELIVERING"}
        /\ ~(parcel.status = "PREPARING" /\ FeeRequired) /\ parcel.hold < MaxHolds
    BY <1>0, <1>7, ParcelParts DEF HoldDelivery, Move, MayHold
  <2>2. parcel.hold + 1 \in 0..MaxHolds
    BY <1>0, <2>1, ParcelParts
  <2>3. parcel' \in ParcelRecords
    BY <1>0, <2>1, <2>2 DEF DocumentTypes, ParcelRecords
  <2>4. charge.status \notin {"PENDING", "FAILED"}
    BY <2>1 DEF DocumentInv, PayableFeeIsCurrent, Payable, ForCurrentHold
  <2> QED
    BY <1>1, <1>6, <2>1, <2>3, <2>4 DEF PayableFeeIsCurrent, DeliveryIsFunded, MarkedStays
<1>8. CASE BackToPreparing
  <2>1. /\ parcel' = [status |-> "PREPARING", cancellation |-> parcel.cancellation,
                      hold |-> parcel.hold, fee |-> parcel.fee,
                      resolved |-> IF FeeRequired THEN parcel.resolved ELSE "yes"]
        /\ parcel.status = "DELIVERY_HELD"
    BY <1>0, <1>8, ParcelParts DEF BackToPreparing, Move
  <2>2. parcel' \in ParcelRecords
    BY <1>0, <2>1 DEF DocumentTypes, ParcelRecords
  <2>3. FeeRequired' <=> FeeRequired
    BY <1>0, <2>1, ParcelParts DEF FeeRequired
  <2>4. PayableFeeIsCurrent'
    BY <1>1, <2>1, <2>3 DEF DocumentInv, PayableFeeIsCurrent, Payable, ForCurrentHold
  <2>5. MarkedStays'
    BY <1>0, <2>1, ParcelParts DEF DocumentInv, MarkedStays, FeeRequired
  <2> QED
    BY <1>6, <2>1, <2>2, <2>4, <2>5 DEF DeliveryIsFunded
<1>9. CASE StartDelivery
  <2>1. /\ parcel' = [status |-> "DELIVERING", cancellation |-> parcel.cancellation,
                      hold |-> parcel.hold, fee |-> parcel.fee, resolved |-> "yes"]
        /\ parcel.status \in {"PREPARING", "DELIVERY_HELD"}
        /\ FeeRequired => ForCurrentHold /\ charge.status = "PAID"
    BY <1>0, <1>9, ParcelParts DEF StartDelivery, Move, PaidResume
  <2>2. parcel' \in ParcelRecords
    BY <1>0, <2>1 DEF DocumentTypes, ParcelRecords
  <2>3. parcel.fee = "due" => FeeRequired
    BY <1>0, <2>1, ParcelParts DEF DocumentInv, MarkedStays, FeeRequired
  <2>4. charge.status \notin {"PENDING", "FAILED"}
    BY <1>1, <2>1
    DEF DocumentInv, PayableFeeIsCurrent, Payable, ForCurrentHold, CancelledOrCancelling
  <2>5. DeliveryIsFunded'
    <3>1. charge.status = "PAID" => fee = "PAID"
      BY <1>0, <1>5 DEF DocumentInv, ChargeFollowsFee, DocumentTypes
    <3> QED
      BY <1>1, <1>5, <2>1, <2>3, <3>1 DEF DeliveryIsFunded, ForCurrentHold
  <2>6. MarkedStays'
    BY <1>2, <2>1 DEF MarkedStays, CancelledOrCancelling
  <2> QED
    BY <1>1, <1>6, <2>2, <2>4, <2>5, <2>6 DEF PayableFeeIsCurrent
<1>10. CASE FinishDelivery
  <2>1. /\ parcel' = [status |-> "DELIVERED", cancellation |-> parcel.cancellation,
                      hold |-> parcel.hold, fee |-> parcel.fee, resolved |-> parcel.resolved]
        /\ parcel.status = "DELIVERING"
    BY <1>0, <1>10, ParcelParts DEF FinishDelivery, Move
  <2>2. parcel' \in ParcelRecords
    BY <1>0, <2>1 DEF DocumentTypes, ParcelRecords
  <2>3. PayableFeeIsCurrent'
    BY <1>1, <2>1 DEF DocumentInv, PayableFeeIsCurrent, Payable
  <2>4. DeliveryIsFunded'
    BY <1>1, <2>1 DEF DocumentInv, DeliveryIsFunded
  <2>5. MarkedStays'
    BY <1>2, <2>1 DEF MarkedStays, CancelledOrCancelling
  <2> QED
    BY <1>6, <2>2, <2>3, <2>4, <2>5
<1> QED
  BY <1>7, <1>8, <1>9, <1>10 DEF UpdateStatus

(* A failed attempt to pay closes the pending charge.                      *)
LEMMA ChargeCloses ==
  ASSUME DocumentInv, charge.status = "PENDING", charge' = [charge EXCEPT !.status = "FAILED"],
         UNCHANGED <<parcel, mainPayment, feeClaim, fee, lateRefund, notices>>
  PROVE  DocumentInv'
<1> USE DEF DocumentInv
<1>1. /\ charge' = [status |-> "FAILED", hold |-> charge.hold, unneeded |-> charge.unneeded]
      /\ feeClaim.status = "NONE" /\ charge \in ChargeRecords
  BY ParcelParts DEF DocumentTypes, FeeClaimRecords
<1>2. DocumentTypes'
  BY <1>1 DEF DocumentTypes, ChargeRecords
<1>3. (PayableFeeIsCurrent /\ DeliveryIsFunded)'
  BY <1>1 DEF PayableFeeIsCurrent, DeliveryIsFunded, Payable, ForCurrentHold, FeeRequired
<1>4. (UnmarkedIsUntouched /\ MarkedStays /\ ChargeFollowsFee)'
  BY <1>1 DEF UnmarkedIsUntouched, MarkedStays, ChargeFollowsFee, RefundBegun,
    CancelledOrCancelling, Cancelling
<1> QED
  BY <1>2, <1>3, <1>4

(* The provider returns the fee of a marked order whose refund was begun.  *)
LEMMA FeeReturned ==
  ASSUME DocumentInv, fee' = "CANCELLED", lateRefund' \in {lateRefund, "none"},
         UNCHANGED <<parcel, mainPayment, charge, feeClaim, notices>>,
         CancelledOrCancelling, RefundBegun
  PROVE  DocumentInv'
<1> USE DEF DocumentInv
<1>1. RefundBegun' /\ CancelledOrCancelling'
  BY DEF RefundBegun, CancelledOrCancelling, Cancelling
<1>2. DocumentTypes'
  BY DEF DocumentTypes
<1>3. parcel.status \notin {"DELIVERING", "DELIVERED"}
  BY DEF MarkedStays, CancelledOrCancelling
<1>4. (PayableFeeIsCurrent /\ DeliveryIsFunded)'
  BY <1>3 DEF PayableFeeIsCurrent, DeliveryIsFunded, Payable, ForCurrentHold, FeeRequired
<1>5. (UnmarkedIsUntouched /\ MarkedStays)'
  BY <1>1 DEF UnmarkedIsUntouched, MarkedStays, Cancelling
<1>6. ChargeFollowsFee'
  <2>1. feeClaim.status # "NONE" => charge.status = "PAID"
    BY DEF DocumentTypes
  <2> QED
    BY <1>1, <2>1 DEF ChargeFollowsFee, RefundBegun
<1> QED
  BY <1>2, <1>4, <1>5, <1>6

(* Steps nobody's run takes: the charge is created, paid and closed, a     *)
(* notice is dropped, a late request lands, a lease ends.                  *)
LEMMA ChargeMoves ==
  ASSUME RedeliveryInv,
         CreateCharge \/ PayFee \/ DropNotice \/ FailedWebhook \/ LateRefundLands \/ FeeLeaseLapses
  PROVE  RedeliveryInv'
<1> USE DEF RedeliveryInv
<1>0. /\ DocumentInv /\ WorkerInv /\ DocumentTypes
      /\ parcel \in ParcelRecords /\ charge \in ChargeRecords /\ feeClaim \in FeeClaimRecords
  BY DEF DocumentInv, DocumentTypes
<1>1. CASE CreateCharge
  <2>1. /\ charge' = [status |-> "PENDING", hold |-> parcel.hold, unneeded |-> "no"]
        /\ charge.status = "none" /\ FeeRequired /\ ~Cancelling
        /\ parcel.status \in {"DELIVERY_HELD", "PREPARING"}
        /\ UNCHANGED <<parcel, mainPayment, feeClaim, fee, lateRefund, notices, work>>
    BY <1>1 DEF CreateCharge, Move, NoCharge
  <2>2. charge' \in ChargeRecords
    BY <1>0, <2>1 DEF ChargeRecords, ParcelRecords
  <2>3. feeClaim.status = "NONE"
    BY <1>0, <2>1 DEF DocumentTypes, FeeClaimRecords
  <2>4. DocumentTypes'
    BY <1>0, <2>1, <2>2, <2>3 DEF DocumentTypes
  <2>5. (PayableFeeIsCurrent /\ DeliveryIsFunded)'
    BY <2>1 DEF PayableFeeIsCurrent, DeliveryIsFunded, Payable, ForCurrentHold, FeeRequired
  <2>6. (UnmarkedIsUntouched /\ MarkedStays)'
    BY <2>1 DEF DocumentInv, UnmarkedIsUntouched, MarkedStays, RefundBegun, CancelledOrCancelling,
      Cancelling
  <2>7. ChargeFollowsFee'
    BY <2>1, <2>3 DEF DocumentInv, ChargeFollowsFee, RefundBegun
  <2>8. WorkerInv'
    BY <1>0, <2>1, WorkersWait DEF RefundBegun, CancelledOrCancelling, Cancelling
  <2> QED
    BY <2>4, <2>5, <2>6, <2>7, <2>8 DEF DocumentInv
<1>2. CASE PayFee
  <2>1. /\ charge.status # "none" /\ fee = "unpaid" /\ fee' = "PAID"
        /\ notices' = notices \union {"Paid"}
        /\ UNCHANGED <<parcel, mainPayment, charge, feeClaim, lateRefund, work>>
    BY <1>2 DEF PayFee
  <2>2. DocumentTypes'
    BY <1>0, <2>1 DEF DocumentTypes
  <2>3. (PayableFeeIsCurrent /\ DeliveryIsFunded)'
    BY <2>1 DEF DocumentInv, PayableFeeIsCurrent, DeliveryIsFunded, Payable, ForCurrentHold, FeeRequired
  <2>4. (UnmarkedIsUntouched /\ MarkedStays)'
    BY <2>1 DEF DocumentInv, UnmarkedIsUntouched, MarkedStays, RefundBegun, CancelledOrCancelling,
      Cancelling
  <2>5. ChargeFollowsFee'
    BY <2>1 DEF DocumentInv, ChargeFollowsFee, RefundBegun
  <2>6. WorkerInv'
    BY <1>0, <2>1, WorkersWait DEF RefundBegun, CancelledOrCancelling, Cancelling
  <2> QED
    BY <2>2, <2>3, <2>4, <2>5, <2>6 DEF DocumentInv
<1>3. CASE DropNotice
  <2>1. /\ UNCHANGED <<parcel, mainPayment, charge, feeClaim, fee, lateRefund, work>>
        /\ notices' \subseteq notices
    BY <1>3 DEF DropNotice, feeVars
  <2> QED
    BY <1>0, <2>1, DocumentsStay, WorkersWait
<1>4. CASE FailedWebhook
  <2>1. CASE charge' = charge
    <3>1. UNCHANGED <<parcel, mainPayment, feeClaim, fee, lateRefund, notices, work>>
      BY <1>4 DEF FailedWebhook
    <3> QED
      BY <1>0, <2>1, <3>1, DocumentsStay, WorkersWait
  <2>2. CASE charge.status = "PENDING" /\ charge' = [charge EXCEPT !.status = "FAILED"]
    <3>1. UNCHANGED <<parcel, mainPayment, feeClaim, fee, lateRefund, notices, work>>
      BY <1>4 DEF FailedWebhook
    <3>2. WorkerInv'
      BY <1>0, <2>2, <3>1, WorkersWait DEF RefundBegun, CancelledOrCancelling, Cancelling
    <3> QED
      BY <2>2, <3>1, <3>2, ChargeCloses
  <2> QED
    BY <1>4, <2>1, <2>2 DEF FailedWebhook, FailedCharge
<1>5. CASE LateRefundLands
  <2>1. /\ lateRefund = "underway" /\ fee' = "CANCELLED" /\ lateRefund' = "none"
        /\ UNCHANGED <<parcel, mainPayment, charge, feeClaim, notices, work>>
    BY <1>5 DEF LateRefundLands
  <2>2. CancelledOrCancelling /\ RefundBegun
    BY <2>1 DEF DocumentInv, UnmarkedIsUntouched, ChargeFollowsFee
  <2>3. WorkerInv'
    BY <1>0, <2>1, WorkersWait DEF RefundBegun, CancelledOrCancelling, Cancelling
  <2> QED
    BY <2>1, <2>2, <2>3, FeeReturned
<1>6. CASE FeeLeaseLapses
  <2>1. /\ feeClaim' = [status |-> feeClaim.status, token |-> feeClaim.token, lease |-> "lapsed"]
        /\ UNCHANGED <<parcel, mainPayment, charge, fee, lateRefund, notices, work>>
    BY <1>0, <1>6, ParcelParts DEF FeeLeaseLapses
  <2>2. RefundBegun' <=> RefundBegun
    BY <2>1 DEF RefundBegun
  <2>3. feeClaim' \in FeeClaimRecords
    BY <1>0, <2>1 DEF FeeClaimRecords
  <2>4. DocumentTypes'
    BY <1>0, <2>1, <2>3 DEF DocumentTypes
  <2>5. (PayableFeeIsCurrent /\ DeliveryIsFunded /\ MarkedStays)'
    BY <2>1 DEF DocumentInv, PayableFeeIsCurrent, DeliveryIsFunded, Payable, ForCurrentHold,
      FeeRequired, MarkedStays, Cancelling
  <2>6. (UnmarkedIsUntouched /\ ChargeFollowsFee)'
    BY <2>1, <2>2 DEF DocumentInv, UnmarkedIsUntouched, ChargeFollowsFee, CancelledOrCancelling,
      Cancelling
  <2>7. WorkerInv'
    BY <1>0, <2>1, <2>2, WorkersWait DEF CancelledOrCancelling, Cancelling
  <2> QED
    BY <2>4, <2>5, <2>6, <2>7 DEF DocumentInv
<1> QED
  BY <1>1, <1>2, <1>3, <1>4, <1>5, <1>6
-------------------------------------------------------------------------------
(* Booking what PortOne reports. *)

(* A payment is booked; the order still needs it or is cancelled.          *)
LEMMA ChargeBooked ==
  ASSUME DocumentInv, charge' = BookedCharge, fee # "unpaid",
         UNCHANGED <<parcel, mainPayment, feeClaim, fee, lateRefund>>, notices' \subseteq notices
  PROVE  /\ DocumentInv'
         /\ RefundBegun' <=> RefundBegun
         /\ CancelledOrCancelling' <=> CancelledOrCancelling
<1> USE DEF DocumentInv
<1>1. CASE charge.status \in {"PENDING", "FAILED"}
  <2>1. /\ charge' = [status |-> "PAID", hold |-> charge.hold, unneeded |-> "no"]
        /\ feeClaim.status = "NONE" /\ charge \in ChargeRecords
        /\ parcel.status \in {"CANCELLED", "DELIVERY_HELD", "PREPARING"}
    <3>1. parcel.status = "CANCELLED" \/ Payable
      BY <1>1 DEF PayableFeeIsCurrent
    <3>2. charge' = [charge EXCEPT !.status = "PAID", !.unneeded = "no"]
      BY <1>1, <3>1 DEF BookedCharge, CancelledOrCancelling
    <3> QED
      BY <1>1, <3>1, <3>2, ParcelParts DEF DocumentTypes, FeeClaimRecords, Payable
  <2>2. DocumentTypes'
    BY <2>1 DEF DocumentTypes, ChargeRecords
  <2>3. (PayableFeeIsCurrent /\ DeliveryIsFunded)'
    BY <2>1 DEF PayableFeeIsCurrent, DeliveryIsFunded
  <2>4. (UnmarkedIsUntouched /\ MarkedStays /\ ChargeFollowsFee)'
    BY <1>1, <2>1 DEF UnmarkedIsUntouched, MarkedStays, ChargeFollowsFee, RefundBegun,
      CancelledOrCancelling, Cancelling
  <2> QED
    BY <1>1, <2>1, <2>2, <2>3, <2>4 DEF RefundBegun, CancelledOrCancelling, Cancelling
<1>2. CASE charge' = charge
  BY <1>2, DocumentsStay
<1> QED
  BY <1>1, <1>2 DEF BookedCharge

LEMMA FinaliserMoves ==
  ASSUME RedeliveryInv, NEW f \in Finalisers,
         PaidWebhook(f) \/ CheckPendingCharge(f) \/ CloseUnpaidCharge(f) \/ FinalisePaid(f)
  PROVE  RedeliveryInv'
<1> USE DEF RedeliveryInv
<1>0. /\ DocumentInv /\ WorkerInv /\ work \in [ChargeWorkers -> WorkRecords]
      /\ f \in ChargeWorkers /\ f \notin ParcelCancellers
      /\ {"idle", "finalise", "unpaid", "claim", "requery", "refundFailed"} \subseteq ChargeSteps
      /\ {"idle", "finalise", "unpaid", "claim", "requery", "refundFailed"}
            \intersect (RefundSubsteps \ {"claim"}) = {}
  BY RedeliveryAssumption DEF WorkerInv, ChargeWorkers, ChargeSteps, RefundSubsteps
<1>1. ASSUME NEW step \in {"finalise", "unpaid"}, Moves(f, step), step = "finalise" => fee # "unpaid",
             UNCHANGED <<parcel, mainPayment, feeVars, notices>>
      PROVE  RedeliveryInv'
  <2>1. /\ DocumentInv'
        /\ RefundBegun' <=> RefundBegun
        /\ CancelledOrCancelling' <=> CancelledOrCancelling
    BY <1>0, <1>1, DocumentsStay DEF feeVars
  <2>2. step \in ChargeSteps /\ step \notin RefundSubsteps \ {"claim"} /\ fee' = fee
    BY <1>0, <1>1 DEF feeVars
  <2> QED
    BY <1>0, <1>1, <2>1, <2>2, WorkerMoves
<1>2. CASE PaidWebhook(f)
  <2>1. Moves(f, "finalise")
    BY <1>0, <1>2, RecordMoves DEF PaidWebhook
  <2>2. fee # "unpaid"
    BY <1>2 DEF PaidWebhook, DocumentInv, ChargeFollowsFee
  <2> QED
    BY <1>1, <1>2, <2>1, <2>2 DEF PaidWebhook
<1>3. CASE CheckPendingCharge(f)
  <2>1. AfterLookup \in {"finalise", "unpaid"} /\ (AfterLookup = "finalise" => fee # "unpaid")
    BY DEF AfterLookup
  <2>2. work' = [work EXCEPT ![f] = [pc |-> AfterLookup, as |-> "check"]]
    BY <1>3 DEF CheckPendingCharge
  <2>3. AfterLookup \in ChargeSteps
    BY <1>0, <2>1
  <2>4. Moves(f, AfterLookup)
    BY <1>0, <2>2, <2>3, RecordMoves
  <2> QED
    BY <1>1, <1>3, <2>1, <2>4 DEF CheckPendingCharge
<1>4. CASE CloseUnpaidCharge(f)
  <2>1. /\ UNCHANGED <<parcel, mainPayment, feeClaim, fee, lateRefund, notices>>
        /\ Moves(f, "idle")
    BY <1>0, <1>4, RestMoves DEF CloseUnpaidCharge
  <2>2. \/ charge' = charge
        \/ charge.status = "PENDING" /\ charge' = [charge EXCEPT !.status = "FAILED"]
    BY <1>4 DEF CloseUnpaidCharge, FailedCharge
  <2>3. /\ DocumentInv'
        /\ RefundBegun => RefundBegun'
        /\ CancelledOrCancelling => CancelledOrCancelling'
    BY <1>0, <2>1, <2>2, DocumentsStay, ChargeCloses DEF RefundBegun, CancelledOrCancelling, Cancelling
  <2> QED
    BY <1>0, <2>1, <2>3, WorkerMoves
<1>5. CASE FinalisePaid(f)
  <2>1. /\ UNCHANGED <<parcel, mainPayment, feeClaim, fee, lateRefund>> /\ charge' = BookedCharge
        /\ fee # "unpaid"
    BY <1>0, <1>5 DEF FinalisePaid, At, WorkerInv
  <2>2. CASE Unwanted(BookedCharge) /\ Step(f, "claim") /\ UNCHANGED notices
    <3>1. /\ DocumentInv'
          /\ RefundBegun' <=> RefundBegun
          /\ CancelledOrCancelling' <=> CancelledOrCancelling
      BY <1>0, <2>1, <2>2, ChargeBooked
    <3>2. CancelledOrCancelling
      BY <2>1, <2>2, <3>1 DEF Unwanted, DocumentInv, ChargeFollowsFee
    <3>3. Moves(f, "claim")
      BY <1>0, <2>2, StepMoves
    <3> QED
      BY <1>0, <2>1, <3>1, <3>2, <3>3, WorkerMoves
  <2>3. CASE Handled(f)
    <3>1. Moves(f, "idle") /\ notices' \subseteq notices
      BY <1>0, <2>3, RestMoves DEF Handled
    <3>2. /\ DocumentInv'
          /\ RefundBegun' <=> RefundBegun
          /\ CancelledOrCancelling' <=> CancelledOrCancelling
      BY <1>0, <2>1, <3>1, ChargeBooked
    <3> QED
      BY <1>0, <2>1, <3>1, <3>2, WorkerMoves
  <2> QED
    BY <1>5, <2>2, <2>3 DEF FinalisePaid
<1> QED
  BY <1>2, <1>3, <1>4, <1>5
-------------------------------------------------------------------------------
(* Refunding the charge. *)

(* A claim is written for the paid charge of a marked order.               *)
LEMMA ClaimWritten ==
  ASSUME DocumentInv, NEW w \in ChargeWorkers, NEW status \in {"CLAIMED", "UNKNOWN"},
         feeClaim' = FeeClaim(status, w), charge.status = "PAID", CancelledOrCancelling,
         UNCHANGED <<parcel, mainPayment, charge, fee, lateRefund>>, notices' \subseteq notices
  PROVE  DocumentInv' /\ RefundBegun'
<1> USE DEF DocumentInv
<1>1. /\ feeClaim' = [status |-> status, token |-> w, lease |-> "live"]
      /\ feeClaim'.status # "NONE" /\ feeClaim'.token = w
  BY DEF FeeClaim
<1>2. RefundBegun' /\ CancelledOrCancelling'
  BY <1>1 DEF RefundBegun, CancelledOrCancelling, Cancelling
<1>3. feeClaim' \in FeeClaimRecords
  BY <1>1 DEF FeeClaimRecords
<1>4. DocumentTypes'
  BY <1>1, <1>3 DEF DocumentTypes
<1>5. (PayableFeeIsCurrent /\ DeliveryIsFunded)'
  BY DEF PayableFeeIsCurrent, DeliveryIsFunded, Payable, ForCurrentHold, FeeRequired
<1>6. (UnmarkedIsUntouched /\ MarkedStays /\ ChargeFollowsFee)'
  BY <1>2 DEF UnmarkedIsUntouched, MarkedStays, ChargeFollowsFee, Cancelling
<1> QED
  BY <1>2, <1>4, <1>5, <1>6

(* The books record that the fee is back.                                  *)
LEMMA RefundBooked ==
  ASSUME DocumentInv, charge' = [charge EXCEPT !.status = "REFUNDED"], feeClaim' = NoFeeClaim,
         fee = "CANCELLED", CancelledOrCancelling,
         UNCHANGED <<parcel, mainPayment, fee, lateRefund>>, notices' \subseteq notices
  PROVE  DocumentInv' /\ RefundBegun'
<1> USE DEF DocumentInv
<1>1. /\ charge' = [status |-> "REFUNDED", hold |-> charge.hold, unneeded |-> charge.unneeded]
      /\ charge \in ChargeRecords
  BY ParcelParts DEF DocumentTypes
<1>2. RefundBegun' /\ CancelledOrCancelling'
  BY <1>1 DEF RefundBegun, CancelledOrCancelling, Cancelling
<1>3. DocumentTypes'
  BY <1>1 DEF DocumentTypes, ChargeRecords, FeeClaimRecords, NoFeeClaim
<1>4. parcel.status \notin {"DELIVERING", "DELIVERED"}
  BY DEF MarkedStays, CancelledOrCancelling
<1>5. (PayableFeeIsCurrent /\ DeliveryIsFunded)'
  BY <1>1, <1>4 DEF PayableFeeIsCurrent, DeliveryIsFunded
<1>6. (UnmarkedIsUntouched /\ MarkedStays /\ ChargeFollowsFee)'
  BY <1>1, <1>2 DEF UnmarkedIsUntouched, MarkedStays, ChargeFollowsFee, Cancelling
<1> QED
  BY <1>2, <1>3, <1>5, <1>6

LEMMA RefundMoves ==
  ASSUME RedeliveryInv, NEW w \in ChargeWorkers, RefundCharge(w)
  PROVE  RedeliveryInv'
<1> USE DEF RedeliveryInv
<1>0. /\ DocumentInv /\ WorkerInv /\ work \in [ChargeWorkers -> WorkRecords]
      /\ {"idle", "requery", "refundFailed"} \union RefundSubsteps \subseteq ChargeSteps
      /\ {"idle", "requery", "refundFailed"} \intersect RefundSubsteps = {}
  BY DEF WorkerInv, ChargeSteps, RefundSubsteps
(* A run in its refund belongs to a marked order; it goes on, or ends.     *)
<1>1. ASSUME CancelledOrCancelling, NEW step \in {"idle", "requery", "refundFailed"} \union RefundSubsteps,
             Moves(w, step), parcel' = parcel, DocumentInv',
             fee' = fee \/ fee' = "CANCELLED", RefundBegun => RefundBegun',
             step \in RefundSubsteps \ {"claim"} => RefundBegun',
             step \in {"complete", "completeAfterReadback"} => fee' = "CANCELLED"
      PROVE  RedeliveryInv'
  <2>1. step \in ChargeSteps /\ step # "finalise"
    BY <1>0, <1>1 DEF RefundSubsteps
  <2>2. CancelledOrCancelling'
    BY <1>1 DEF CancelledOrCancelling, Cancelling
  <2> QED
    BY <1>0, <1>1, <2>1, <2>2, WorkerMoves
<1>2. ASSUME CancelledOrCancelling, Handled(w) \/ ClaimInFlight(w) \/ Threw(w), parcel' = parcel,
             fee' = fee, notices' \subseteq notices => DocumentInv', RefundBegun => RefundBegun'
      PROVE  RedeliveryInv'
  <2>1. /\ notices' \subseteq notices
        /\ Moves(w, "idle") \/ Moves(w, "requery") \/ Moves(w, "refundFailed")
    BY <1>0, <1>2, RefundEnds
  <2>2. {"idle", "requery", "refundFailed"} \intersect {"complete", "completeAfterReadback"} = {}
    OBVIOUS
  <2> QED
    BY <1>0, <1>1, <1>2, <2>1, <2>2
<1>3. CASE ClaimFeeRefund(w)
  <2>1. CancelledOrCancelling /\ UNCHANGED <<parcel, mainPayment, charge, fee, lateRefund>>
    BY <1>0, <1>3 DEF ClaimFeeRefund, At, WorkerInv
  <2>2. CASE (Handled(w) \/ ClaimInFlight(w)) /\ UNCHANGED feeClaim
    BY <1>0, <1>2, <2>1, <2>2, DocumentsStay DEF RefundBegun
  <2>3. CASE charge.status = "PAID" /\ ~(Handled(w) /\ UNCHANGED feeClaim) /\ ~(ClaimInFlight(w) /\ UNCHANGED feeClaim)
    <3>1. PICK status \in {"CLAIMED", "UNKNOWN"}, step \in {"post", "readback"} :
            feeClaim' = FeeClaim(status, w) /\ Step(w, step) /\ notices' = notices
      BY <1>3, <2>3 DEF ClaimFeeRefund
    <3>2. DocumentInv' /\ RefundBegun'
      BY <1>0, <2>1, <2>3, <3>1, ClaimWritten
    <3>3. step \in RefundSubsteps /\ Moves(w, step)
      BY <1>0, <3>1, StepMoves DEF RefundSubsteps
    <3> QED
      BY <1>1, <2>1, <3>1, <3>2, <3>3
  <2> QED
    BY <1>3, <2>2, <2>3 DEF ClaimFeeRefund
<1>4. ASSUME At(w, "readback") \/ At(w, "recheck") \/ At(w, "post") \/ At(w, "uncertain")
             \/ work[w].pc \in {"complete", "completeAfterReadback"}
      PROVE  CancelledOrCancelling /\ RefundBegun
  BY <1>0, <1>4 DEF At, WorkerInv, RefundSubsteps
<1>5. CASE ReadFee(w)
  <2>1. /\ UNCHANGED <<parcel, mainPayment, charge, feeClaim, fee, lateRefund, notices>>
        /\ CancelledOrCancelling /\ RefundBegun
    BY <1>4, <1>5 DEF ReadFee, feeVars
  <2>2. PICK step \in {"completeAfterReadback", "recheck", "uncertain"} :
          Step(w, step) /\ (step = "completeAfterReadback" => fee = "CANCELLED")
    BY <1>5 DEF ReadFee
  <2>3. step \in RefundSubsteps /\ Moves(w, step) /\ step # "complete"
    BY <1>0, <2>2, StepMoves DEF RefundSubsteps
  <2>4. DocumentInv' /\ RefundBegun'
    BY <1>0, <2>1, DocumentsStay
  <2> QED
    BY <1>1, <2>1, <2>2, <2>3, <2>4
<1>6. CASE RecheckFeeRefund(w)
  <2>1. /\ UNCHANGED <<parcel, mainPayment, charge, feeClaim, fee, lateRefund>>
        /\ CancelledOrCancelling /\ RefundBegun
    BY <1>4, <1>6 DEF RecheckFeeRefund, feeVars
  <2>2. notices' \subseteq notices => DocumentInv' /\ RefundBegun'
    BY <1>0, <2>1, DocumentsStay
  <2>3. CASE Step(w, "post") /\ UNCHANGED notices
    <3>1. Moves(w, "post") /\ "post" \in RefundSubsteps
      BY <1>0, <2>3, StepMoves DEF RefundSubsteps
    <3> QED
      BY <1>1, <2>1, <2>2, <2>3, <3>1
  <2>4. CASE Handled(w)
    BY <1>2, <2>1, <2>2, <2>4 DEF RefundBegun
  <2> QED
    BY <1>6, <2>3, <2>4 DEF RecheckFeeRefund
<1>7. CASE PostFeeRefund(w)
  <2>1. /\ UNCHANGED <<parcel, mainPayment, charge, feeClaim, lateRefund, notices>>
        /\ CancelledOrCancelling /\ RefundBegun /\ fee' = "CANCELLED" /\ Step(w, "complete")
    BY <1>4, <1>7 DEF PostFeeRefund
  <2>2. DocumentInv' /\ RefundBegun'
    BY <1>0, <2>1, FeeReturned DEF RefundBegun
  <2>3. Moves(w, "complete") /\ "complete" \in RefundSubsteps
    BY <1>0, <2>1, StepMoves DEF RefundSubsteps
  <2> QED
    BY <1>1, <2>1, <2>2, <2>3
<1>8. CASE FeePostFails(w)
  <2>1. /\ UNCHANGED <<parcel, mainPayment, charge, feeClaim, fee, notices>>
        /\ CancelledOrCancelling /\ RefundBegun
        /\ lateRefund' = "underway" /\ Step(w, "uncertain")
    BY <1>4, <1>8 DEF FeePostFails, AfterFailedFeePost
  <2>2. RefundBegun' /\ CancelledOrCancelling'
    BY <2>1 DEF RefundBegun, CancelledOrCancelling, Cancelling
  <2>3. DocumentInv'
    BY <2>1, <2>2 DEF DocumentInv, DocumentTypes, PayableFeeIsCurrent, DeliveryIsFunded,
      UnmarkedIsUntouched, MarkedStays, ChargeFollowsFee, Cancelling, Payable,
      ForCurrentHold, FeeRequired
  <2>4. Moves(w, "uncertain") /\ "uncertain" \in RefundSubsteps
    BY <1>0, <2>1, StepMoves DEF RefundSubsteps
  <2> QED
    BY <1>1, <2>1, <2>2, <2>3, <2>4
<1>9. CASE CompleteFeeRefund(w)
  <2>1. /\ UNCHANGED <<parcel, mainPayment, fee, lateRefund>> /\ Handled(w)
        /\ CancelledOrCancelling /\ fee = "CANCELLED"
    BY <1>0, <1>4, <1>9 DEF CompleteFeeRefund, WorkerInv
  <2>2. CASE OwnsFeeRefund(w)
    <3>1. charge' = [charge EXCEPT !.status = "REFUNDED"] /\ feeClaim' = NoFeeClaim
      BY <1>9, <2>2 DEF CompleteFeeRefund, ClaimCleared
    <3>2. notices' \subseteq notices => DocumentInv' /\ RefundBegun'
      BY <1>0, <2>1, <3>1, RefundBooked
    <3>3. notices' \subseteq notices
      BY <1>0, <2>1, RefundEnds
    <3> QED
      BY <1>2, <2>1, <3>2, <3>3
  <2>3. CASE ~OwnsFeeRefund(w)
    <3>1. charge' = charge /\ feeClaim' = feeClaim
      BY <1>9, <2>3 DEF CompleteFeeRefund, ClaimCleared
    <3>2. notices' \subseteq notices => DocumentInv'
      BY <1>0, <2>1, <3>1, DocumentsStay
    <3> QED
      BY <1>2, <2>1, <3>1, <3>2 DEF RefundBegun
  <2> QED
    BY <2>2, <2>3
<1>10. CASE CompleteFeeRefundFails(w)
  <2>1. /\ UNCHANGED <<parcel, mainPayment, charge, feeClaim, fee, lateRefund>>
        /\ CancelledOrCancelling /\ RefundBegun
    BY <1>4, <1>10 DEF CompleteFeeRefundFails, At, feeVars
  <2>2. notices' \subseteq notices => DocumentInv' /\ RefundBegun'
    BY <1>0, <2>1, DocumentsStay
  <2>3. CASE Step(w, "uncertain") /\ UNCHANGED notices
    <3>1. Moves(w, "uncertain") /\ "uncertain" \in RefundSubsteps
      BY <1>0, <2>3, StepMoves DEF RefundSubsteps
    <3> QED
      BY <1>1, <2>1, <2>2, <2>3, <3>1
  <2>4. CASE Threw(w)
    BY <1>2, <2>1, <2>2, <2>4 DEF RefundBegun
  <2> QED
    BY <1>10, <2>3, <2>4 DEF CompleteFeeRefundFails
<1>11. CASE PersistUncertainFee(w)
  <2>1. /\ UNCHANGED <<parcel, mainPayment, charge, fee, lateRefund>> /\ Threw(w)
        /\ CancelledOrCancelling /\ RefundBegun
    BY <1>4, <1>11 DEF PersistUncertainFee
  <2>2. CASE feeClaim' = feeClaim
    BY <1>0, <1>2, <2>1, <2>2, DocumentsStay DEF RefundBegun
  <2>3. CASE OwnsFeeRefund(w) /\ feeClaim' = FeeClaim("UNKNOWN", w)
    <3>1. charge.status = "PAID"
      BY <2>3 DEF OwnsFeeRefund, DocumentInv, DocumentTypes
    <3>2. notices' \subseteq notices => DocumentInv' /\ RefundBegun'
      BY <1>0, <2>1, <2>3, <3>1, ClaimWritten
    <3>3. notices' \subseteq notices
      BY <1>0, <2>1, RefundEnds
    <3> QED
      BY <1>2, <2>1, <3>2, <3>3
  <2> QED
    BY <1>11, <2>2, <2>3 DEF PersistUncertainFee
<1> QED
  BY <1>3, <1>5, <1>6, <1>7, <1>8, <1>9, <1>10, <1>11 DEF RefundCharge
-------------------------------------------------------------------------------
(* Cancelling the order. *)

(* A cancellation's status is written into an order that is not out for    *)
(* delivery; COMPLETED only into one that is cancelled.                    *)
LEMMA ParcelMarked ==
  ASSUME DocumentInv, NEW status \in Unfinished \union {"COMPLETED"},
         parcel' = [parcel EXCEPT !.cancellation = status],
         parcel.status \notin {"DELIVERING", "DELIVERED"},
         status = "COMPLETED" => parcel.status = "CANCELLED",
         UNCHANGED <<mainPayment, charge, feeClaim, fee, lateRefund, notices>>
  PROVE  /\ DocumentInv' /\ CancelledOrCancelling'
         /\ RefundBegun' <=> RefundBegun
<1> USE DEF DocumentInv
<1>1. /\ parcel' = [status |-> parcel.status, cancellation |-> status, hold |-> parcel.hold,
                    fee |-> parcel.fee, resolved |-> parcel.resolved]
      /\ parcel \in ParcelRecords
  BY ParcelParts DEF DocumentTypes
<1>2. parcel' \in ParcelRecords
  BY <1>1 DEF ParcelRecords
<1>3. DocumentTypes'
  BY <1>2 DEF DocumentTypes
<1>4. CancelledOrCancelling' /\ (RefundBegun' <=> RefundBegun)
  BY <1>1 DEF CancelledOrCancelling, Cancelling, RefundBegun
<1>5. (PayableFeeIsCurrent /\ DeliveryIsFunded)'
  BY <1>1 DEF PayableFeeIsCurrent, DeliveryIsFunded, Payable, ForCurrentHold, FeeRequired
<1>6. (UnmarkedIsUntouched /\ MarkedStays /\ ChargeFollowsFee)'
  BY <1>1, <1>4 DEF UnmarkedIsUntouched, MarkedStays, ChargeFollowsFee
<1> QED
  BY <1>3, <1>4, <1>5, <1>6

LEMMA CancellerMoves ==
  ASSUME RedeliveryInv, NEW c \in ParcelCancellers, Cancel(c)
  PROVE  RedeliveryInv'
<1> USE DEF RedeliveryInv
<1> DEFINE Own == {"idle", "claim", "payment", "charges", "requery", "refunded", "refundFailed",
                   "local", "localFailed", "settlement"}
<1>0. /\ DocumentInv /\ WorkerInv /\ work \in [ChargeWorkers -> WorkRecords]
      /\ c \in ChargeWorkers /\ Own \subseteq ChargeSteps /\ Own \intersect (RefundSubsteps \ {"claim"}) = {}
      /\ {"complete", "completeAfterReadback", "finalise", "unpaid"} \intersect Own = {}
  BY DEF WorkerInv, ChargeWorkers, ChargeSteps, RefundSubsteps
<1>1. ASSUME NEW step \in Own, Moves(c, step), DocumentInv', CancelledOrCancelling',
             UNCHANGED <<charge, feeClaim, fee>>
      PROVE  RedeliveryInv'
  <2>1. step \in ChargeSteps /\ step \notin RefundSubsteps \ {"claim"}
    BY <1>0
  <2>2. step \notin {"complete", "completeAfterReadback", "finalise", "unpaid"}
    BY <1>0
  <2>3. RefundBegun' <=> RefundBegun
    BY <1>1 DEF RefundBegun
  <2> HIDE DEF Own
  <2> QED
    BY <1>0, <1>1, <2>1, <2>2, <2>3, WorkerMoves
<1>2. ASSUME NEW step \in Own, Moves(c, step), CancelledOrCancelling,
             UNCHANGED <<parcel, mainPayment, feeVars, notices>>
      PROVE  RedeliveryInv'
  <2>1. DocumentInv' /\ CancelledOrCancelling'
    BY <1>0, <1>2, DocumentsStay DEF feeVars
  <2> QED
    BY <1>1, <1>2, <2>1 DEF feeVars
<1>3. CancelledOrCancelling => parcel.status \notin {"DELIVERING", "DELIVERED"}
  BY DEF DocumentInv, MarkedStays, CancelledOrCancelling
<1>4. ~At(c, "idle") => CancelledOrCancelling
  BY <1>0 DEF At, WorkerInv
<1>5. ASSUME NEW step \in Own, Step(c, step) \/ (step = "idle" /\ Rest(c)) PROVE Moves(c, step)
  BY <1>0, <1>5, StepMoves, RestMoves
<1>6. CASE ResumeCancellation(c)
  <2>1. PICK step \in {"payment", "local"} : Begin(c, step)
    BY <1>6 DEF ResumeCancellation
  <2>2. CancelledOrCancelling
    BY <1>6 DEF ResumeCancellation, CancelledOrCancelling, Cancelling, Unfinished
  <2>3. step \in Own /\ Moves(c, step)
    BY <1>0, <2>1, RecordMoves DEF Begin
  <2> QED
    BY <1>2, <1>6, <2>2, <2>3 DEF ResumeCancellation
<1>7. CASE ClaimParcelCancellation(c)
  <2>1. Moves(c, "payment")
    BY <1>0, <1>7, RecordMoves DEF ClaimParcelCancellation, Begin
  <2>2. DocumentInv' /\ CancelledOrCancelling'
    BY <1>0, <1>7, ParcelMarked DEF ClaimParcelCancellation, Cancellable, feeVars, Unfinished
  <2> QED
    BY <1>1, <1>7, <2>1, <2>2 DEF ClaimParcelCancellation, feeVars
<1>8. CASE RefundMainPayment(c)
  <2>1. CancelledOrCancelling /\ mainPayment' \in {mainPayment, "CANCELLED"}
        /\ UNCHANGED <<parcel, charge, feeClaim, fee, lateRefund, notices>>
    BY <1>4, <1>8 DEF RefundMainPayment, At, feeVars
  <2>2. Moves(c, "charges") \/ Moves(c, "refundFailed")
    BY <1>5, <1>8 DEF RefundMainPayment
  <2>3. CancelledOrCancelling'
    BY <2>1 DEF CancelledOrCancelling, Cancelling
  <2>4. DocumentInv'
    <3>1. (PayableFeeIsCurrent /\ DeliveryIsFunded)'
      BY <1>3, <2>1 DEF DocumentInv, PayableFeeIsCurrent, DeliveryIsFunded, Payable,
        ForCurrentHold, FeeRequired
    <3>2. (UnmarkedIsUntouched /\ MarkedStays /\ ChargeFollowsFee)'
      BY <2>1, <2>3 DEF DocumentInv, UnmarkedIsUntouched, MarkedStays, ChargeFollowsFee,
        Cancelling, RefundBegun
    <3>3. DocumentTypes'
      BY <2>1 DEF DocumentInv, DocumentTypes
    <3> QED
      BY <3>1, <3>2, <3>3 DEF DocumentInv
  <2> QED
    BY <1>1, <2>1, <2>2, <2>3, <2>4
<1>9. CASE QueryPaidCharges(c)
  <2>1. PICK step \in {"claim", "refunded"} : Step(c, step)
    BY <1>9 DEF QueryPaidCharges
  <2>2. CancelledOrCancelling
    BY <1>4, <1>9 DEF QueryPaidCharges, At
  <2> QED
    BY <1>2, <1>5, <1>9, <2>1, <2>2 DEF QueryPaidCharges
<1>10. CASE CountUnsettled(c)
  <2>1. PICK step \in {"refundFailed", "refunded"} : Step(c, step)
    BY <1>10 DEF CountUnsettled
  <2>2. CancelledOrCancelling
    BY <1>4, <1>10 DEF CountUnsettled, At
  <2> QED
    BY <1>2, <1>5, <1>10, <2>1, <2>2 DEF CountUnsettled
<1>11. CASE RecordCancellationState(c)
  <2>1. /\ UNCHANGED <<mainPayment, charge, feeClaim, fee, lateRefund, notices>>
        /\ CancelledOrCancelling
    BY <1>4, <1>11 DEF RecordCancellationState, At, feeVars
  <2>2. PICK status \in {"LOCAL_PENDING", "REFUND_FAILED", "LOCAL_FAILED"} :
          parcel' = [parcel EXCEPT !.cancellation = status]
    BY <1>11 DEF RecordCancellationState
  <2>3. Moves(c, "local") \/ Moves(c, "idle")
    BY <1>5, <1>11 DEF RecordCancellationState
  <2>4. DocumentInv' /\ CancelledOrCancelling'
    BY <1>0, <1>3, <2>1, <2>2, ParcelMarked DEF Unfinished
  <2> QED
    BY <1>1, <2>1, <2>3, <2>4
<1>12. CASE ApplyLocal(c)
  <2>1. /\ UNCHANGED <<mainPayment, charge, feeClaim, fee, lateRefund, notices>>
        /\ CancelledOrCancelling
    BY <1>4, <1>12 DEF ApplyLocal, At, feeVars
  <2>2. CASE RefundAgain(c)
    <3>1. Moves(c, "payment") \/ Moves(c, "idle")
      BY <1>0, <2>2, RecordMoves, RestMoves DEF RefundAgain
    <3>2. DocumentInv' /\ CancelledOrCancelling'
      BY <1>0, <1>3, <2>1, <2>2, ParcelMarked DEF RefundAgain, Unfinished
    <3> QED
      BY <1>1, <2>1, <3>1, <3>2
  <2>3. CASE /\ parcel.status = "CANCELLED" /\ Step(c, "settlement")
             /\ parcel' = [parcel EXCEPT !.cancellation = "COMPLETED"]
    <3>1. DocumentInv' /\ CancelledOrCancelling'
      BY <1>0, <2>1, <2>3, ParcelMarked
    <3> QED
      BY <1>1, <1>5, <2>1, <2>3, <3>1
  <2>4. CASE /\ Step(c, "settlement")
             /\ parcel' = [parcel EXCEPT !.status = "CANCELLED", !.cancellation = "COMPLETED",
                                         !.resolved = "yes"]
    <3>1. parcel' = [status |-> "CANCELLED", cancellation |-> "COMPLETED", hold |-> parcel.hold,
                     fee |-> parcel.fee, resolved |-> "yes"]
      BY <2>4, ParcelParts DEF DocumentInv
    <3>2. CancelledOrCancelling' /\ ~Cancelling'
      BY <3>1 DEF CancelledOrCancelling, Cancelling, Unfinished
    <3>3. parcel' \in ParcelRecords
      BY <3>1 DEF DocumentInv, DocumentTypes, ParcelRecords
    <3>4. DocumentTypes'
      BY <2>1, <3>3 DEF DocumentInv, DocumentTypes
    <3>5. (PayableFeeIsCurrent /\ DeliveryIsFunded)'
      BY <2>1, <3>1 DEF PayableFeeIsCurrent, DeliveryIsFunded
    <3>6. (UnmarkedIsUntouched /\ MarkedStays /\ ChargeFollowsFee)'
      BY <2>1, <3>1, <3>2 DEF DocumentInv, UnmarkedIsUntouched, MarkedStays, ChargeFollowsFee,
        RefundBegun
    <3> QED
      BY <1>1, <1>5, <2>1, <2>4, <3>2, <3>4, <3>5, <3>6 DEF DocumentInv
  <2>5. CASE Step(c, "localFailed") /\ UNCHANGED parcel
    BY <1>2, <1>5, <2>1, <2>5 DEF feeVars
  <2> QED
    BY <1>12, <2>2, <2>3, <2>4, <2>5 DEF ApplyLocal
<1>13. CASE CancelSettlementOfOrder(c)
  <2>1. Moves(c, "idle") \/ Moves(c, "localFailed")
    BY <1>5, <1>13 DEF CancelSettlementOfOrder
  <2>2. CancelledOrCancelling
    BY <1>4, <1>13 DEF CancelSettlementOfOrder, At
  <2> QED
    BY <1>2, <1>13, <2>1, <2>2 DEF CancelSettlementOfOrder
<1> QED
  BY <1>6, <1>7, <1>8, <1>9, <1>10, <1>11, <1>12, <1>13 DEF Cancel

LEMMA WorkerStops ==
  ASSUME RedeliveryInv, NEW w \in ChargeWorkers, StopWork(w)
  PROVE  RedeliveryInv'
<1>1. /\ DocumentInv /\ WorkerInv /\ work \in [ChargeWorkers -> WorkRecords]
      /\ "idle" \in ChargeSteps /\ "idle" \notin RefundSubsteps
  BY DEF RedeliveryInv, WorkerInv, ChargeSteps, RefundSubsteps
<1>2. /\ UNCHANGED <<parcel, mainPayment, charge, feeClaim, fee, lateRefund, notices>>
      /\ Moves(w, "idle")
  BY <1>1, RestMoves DEF StopWork, feeVars
<1>3. /\ DocumentInv'
      /\ RefundBegun' <=> RefundBegun
      /\ CancelledOrCancelling' <=> CancelledOrCancelling
  BY <1>1, <1>2, DocumentsStay
<1>4. WorkerInv'
  BY <1>1, <1>2, <1>3, WorkerMoves
<1> QED
  BY <1>3, <1>4 DEF RedeliveryInv

LEMMA RedeliveryStep == RedeliveryInv /\ [RedeliveryNext]_redeliveryVars => RedeliveryInv'
<1>1. ASSUME RedeliveryInv, RedeliveryNext PROVE RedeliveryInv'
  BY <1>1, OrderMoves, ChargeMoves, FinaliserMoves, CancellerMoves, RefundMoves, WorkerStops
  DEF RedeliveryNext
<1>2. ASSUME RedeliveryInv, UNCHANGED redeliveryVars PROVE RedeliveryInv'
  <2>1. UNCHANGED <<parcel, mainPayment, charge, feeClaim, fee, lateRefund, notices, work>>
    BY <1>2 DEF redeliveryVars, feeVars
  <2> QED
    BY <1>2, <2>1, DocumentsStay, WorkersWait DEF RedeliveryInv
<1> QED
  BY <1>1, <1>2

THEOREM RedeliveryInvariant == RedeliverySpec => []RedeliveryInv
BY RedeliveryInitially, RedeliveryStep, PTL DEF RedeliverySpec

(* Documents and workers keep their types. *)
THEOREM RedeliveryTypes == RedeliverySpec => []RedeliveryTypeOK
<1>1. RedeliveryInv => RedeliveryTypeOK
  BY DEF RedeliveryInv, DocumentInv, WorkerInv, DocumentTypes, RedeliveryTypeOK, ParcelRecords,
    ChargeRecords, FeeClaimRecords, WorkRecords
<1> QED
  BY <1>1, RedeliveryInvariant, PTL

(* An unpaid fee is always the fee of the hold the order is in             *)
(* (holdDelivery, updateStatus, createRedeliveryCharge).                   *)
THEOREM PayableFeesAreCurrent == RedeliverySpec => []PayableFeeIsCurrent
<1>1. RedeliveryInv => PayableFeeIsCurrent
  BY DEF RedeliveryInv, DocumentInv
<1> QED
  BY <1>1, RedeliveryInvariant, PTL

(* What is delivered is paid, the fee of its hold included                 *)
(* (assertPaidRedeliveryResume against cancel and refundCharge).           *)
THEOREM DeliveriesAreFunded == RedeliverySpec => []DeliveryIsFunded
<1>1. RedeliveryInv => DeliveryIsFunded
  BY DEF RedeliveryInv, DocumentInv
<1> QED
  BY <1>1, RedeliveryInvariant, PTL

(* Fees go back only for orders that are cancelled or being cancelled      *)
(* (finalizePaidCharge, refundCharge).                                     *)
THEOREM OnlyCancelledOrdersReturnFees == RedeliverySpec => []OnlyUnwantedFeesGoBack
<1>1. RedeliveryInv => OnlyUnwantedFeesGoBack
  BY DEF RedeliveryInv, DocumentInv, UnmarkedIsUntouched, RefundBegun, OnlyUnwantedFeesGoBack
<1> QED
  BY <1>1, RedeliveryInvariant, PTL
-------------------------------------------------------------------------------
(* The refund of the charge implements RefundContract. *)

FeeReturnedBy == IF fee = "CANCELLED" THEN "shop" ELSE "nobody"
FeeBooks == IF charge.status = "REFUNDED" THEN "recorded"
            ELSE IF feeClaim.status = "NONE" THEN "open" ELSE "requested"

(* What the contract does not see. *)
FeeRefundUntouched ==
  /\ fee' = "CANCELLED" <=> fee = "CANCELLED"
  /\ charge'.status = "REFUNDED" <=> charge.status = "REFUNDED"
  /\ feeClaim'.status = "NONE" <=> feeClaim.status = "NONE"

LEMMA UntouchedStutters ==
  ASSUME FeeRefundUntouched
  PROVE  UNCHANGED <<FeeReturnedBy, FeeBooks>>
BY DEF FeeRefundUntouched, FeeReturnedBy, FeeBooks

LEMMA MostStepsStutter ==
  ASSUME RedeliveryInv
  PROVE  /\ UpdateStatus \/ CreateCharge \/ PayFee \/ DropNotice \/ FailedWebhook \/ FeeLeaseLapses
              => FeeRefundUntouched
         /\ \A f \in Finalisers :
              PaidWebhook(f) \/ CheckPendingCharge(f) \/ CloseUnpaidCharge(f) \/ FinalisePaid(f)
                => FeeRefundUntouched
         /\ \A c \in ParcelCancellers : Cancel(c) => FeeRefundUntouched
         /\ \A w \in ChargeWorkers :
              StopWork(w) \/ ReadFee(w) \/ RecheckFeeRefund(w) \/ FeePostFails(w)
                \/ CompleteFeeRefundFails(w) => FeeRefundUntouched
<1>0. charge = [status |-> charge.status, hold |-> charge.hold, unneeded |-> charge.unneeded]
  BY ParcelParts DEF RedeliveryInv, DocumentInv
<1>1. feeClaim = [status |-> feeClaim.status, token |-> feeClaim.token, lease |-> feeClaim.lease]
  BY ParcelParts DEF RedeliveryInv, DocumentInv
<1>2. UNCHANGED <<charge, feeClaim, fee>> => FeeRefundUntouched
  BY DEF FeeRefundUntouched
<1>3. \/ UpdateStatus \/ DropNotice
      \/ \E f \in Finalisers : PaidWebhook(f) \/ CheckPendingCharge(f)
      \/ \E w \in ChargeWorkers :
           \/ StopWork(w) \/ ReadFee(w) \/ RecheckFeeRefund(w) \/ FeePostFails(w)
           \/ CompleteFeeRefundFails(w)
      => UNCHANGED <<charge, feeClaim, fee>>
  BY DEF UpdateStatus, HoldDelivery, BackToPreparing, StartDelivery, FinishDelivery, DropNotice,
    PaidWebhook, CheckPendingCharge, StopWork, ReadFee, RecheckFeeRefund, FeePostFails,
    CompleteFeeRefundFails, feeVars
<1>4. ASSUME NEW c \in ParcelCancellers, Cancel(c) PROVE UNCHANGED <<charge, feeClaim, fee>>
  BY <1>4 DEF Cancel, ResumeCancellation, ClaimParcelCancellation, RefundMainPayment,
    QueryPaidCharges, CountUnsettled, RecordCancellationState, ApplyLocal,
    CancelSettlementOfOrder, feeVars
<1>5. ASSUME CreateCharge \/ PayFee \/ FeeLeaseLapses PROVE FeeRefundUntouched
  BY <1>1, <1>5 DEF CreateCharge, PayFee, FeeLeaseLapses, NoCharge, FeeRefundUntouched
<1>6. ASSUME charge' = FailedCharge \/ charge' = charge, UNCHANGED <<feeClaim, fee>>
      PROVE  FeeRefundUntouched
  BY <1>0, <1>6 DEF FailedCharge, FeeRefundUntouched
<1>7. FailedWebhook => FeeRefundUntouched
  BY <1>6 DEF FailedWebhook
<1>8. ASSUME NEW f \in Finalisers, CloseUnpaidCharge(f) PROVE FeeRefundUntouched
  BY <1>6, <1>8 DEF CloseUnpaidCharge
<1>9. ASSUME NEW f \in Finalisers, FinalisePaid(f) PROVE FeeRefundUntouched
  <2>1. charge' = BookedCharge /\ UNCHANGED <<feeClaim, fee>>
    BY <1>9 DEF FinalisePaid
  <2>2. charge'.status = "REFUNDED" <=> charge.status = "REFUNDED"
    <3>1. CASE charge.status \in {"PENDING", "FAILED"}
      BY <1>0, <2>1, <3>1 DEF BookedCharge
    <3>2. CASE charge.status \notin {"PENDING", "FAILED"}
      BY <2>1, <3>2 DEF BookedCharge
    <3> QED
      BY <3>1, <3>2
  <2> QED
    BY <2>1, <2>2 DEF FeeRefundUntouched
<1> QED
  BY <1>2, <1>3, <1>4, <1>5, <1>7, <1>8, <1>9

LEMMA FeeRefundImplements ==
  ASSUME RedeliveryInv, RedeliveryNext
  PROVE  FeeContract!Next \/ UNCHANGED <<FeeReturnedBy, FeeBooks>>
<1>0. /\ DocumentInv /\ WorkerInv
      /\ feeClaim.status # "NONE" => charge.status = "PAID"
      /\ charge.status = "REFUNDED" => fee = "CANCELLED"
      /\ fee \in {"unpaid", "PAID", "CANCELLED"}
  BY DEF RedeliveryInv, DocumentInv, DocumentTypes, ChargeFollowsFee
<1>1. ASSUME fee' = "CANCELLED", RefundBegun, UNCHANGED <<charge, feeClaim>>
      PROVE  FeeContract!Next \/ UNCHANGED <<FeeReturnedBy, FeeBooks>>
  <2>1. CASE fee = "CANCELLED"
    BY <1>1, <2>1 DEF FeeReturnedBy, FeeBooks
  <2>2. CASE fee # "CANCELLED"
    <3>1. charge.status # "REFUNDED" /\ feeClaim.status # "NONE"
      BY <1>0, <1>1, <2>2 DEF RefundBegun
    <3> QED
      BY <1>1, <2>2, <3>1 DEF FeeContract!Next, FeeContract!ReturnMoney
  <2> QED
    BY <2>1, <2>2
<1>2. CASE LateRefundLands
  BY <1>0, <1>1, <1>2 DEF LateRefundLands, DocumentInv, ChargeFollowsFee
<1>3. ASSUME NEW w \in ChargeWorkers, PostFeeRefund(w)
      PROVE  FeeContract!Next \/ UNCHANGED <<FeeReturnedBy, FeeBooks>>
  BY <1>0, <1>1, <1>3 DEF PostFeeRefund, At, WorkerInv, RefundSubsteps
<1>4. ASSUME NEW w \in ChargeWorkers, ClaimFeeRefund(w)
      PROVE  FeeContract!Next \/ UNCHANGED <<FeeReturnedBy, FeeBooks>>
  <2>1. UNCHANGED <<charge, fee>>
    BY <1>4 DEF ClaimFeeRefund
  <2>2. CASE feeClaim' = feeClaim
    BY <2>1, <2>2 DEF FeeReturnedBy, FeeBooks
  <2>3. CASE charge.status = "PAID" /\ feeClaim'.status # "NONE"
    BY <2>1, <2>3 DEF FeeReturnedBy, FeeBooks, FeeContract!Next, FeeContract!Request
  <2>4. \A status \in {"CLAIMED", "UNKNOWN"} : FeeClaim(status, w).status # "NONE"
    BY DEF FeeClaim
  <2> QED
    BY <1>4, <2>2, <2>3, <2>4 DEF ClaimFeeRefund
<1>5. ASSUME NEW w \in ChargeWorkers, CompleteFeeRefund(w)
      PROVE  FeeContract!Next \/ UNCHANGED <<FeeReturnedBy, FeeBooks>>
  <2>1. fee = "CANCELLED" /\ fee' = fee
    BY <1>0, <1>5 DEF CompleteFeeRefund, WorkerInv
  <2>2. CASE ~OwnsFeeRefund(w)
    <3>1. charge' = charge /\ feeClaim' = feeClaim
      BY <1>5, <2>2 DEF CompleteFeeRefund, ClaimCleared
    <3> QED
      BY <2>1, <3>1 DEF FeeReturnedBy, FeeBooks
  <2>3. CASE OwnsFeeRefund(w)
    <3>1. charge' = [charge EXCEPT !.status = "REFUNDED"]
      BY <1>5, <2>3 DEF CompleteFeeRefund
    <3>2. charge = [status |-> charge.status, hold |-> charge.hold, unneeded |-> charge.unneeded]
      BY <1>0, ParcelParts DEF DocumentInv
    <3>3. charge'.status = "REFUNDED"
      BY <3>1, <3>2
    <3>4. feeClaim.status # "NONE" /\ charge.status = "PAID"
      BY <1>0, <2>3 DEF OwnsFeeRefund
    <3> QED
      BY <2>1, <3>3, <3>4 DEF FeeReturnedBy, FeeBooks, FeeContract!Next, FeeContract!Record
  <2> QED
    BY <2>2, <2>3
<1>6. ASSUME NEW w \in ChargeWorkers, PersistUncertainFee(w) PROVE FeeRefundUntouched
  BY <1>6 DEF PersistUncertainFee, FeeClaim, OwnsFeeRefund, FeeRefundUntouched
<1>7. FeeRefundUntouched => UNCHANGED <<FeeReturnedBy, FeeBooks>>
  BY UntouchedStutters
<1>8. ASSUME NEW w \in ChargeWorkers, RefundCharge(w)
      PROVE  FeeContract!Next \/ UNCHANGED <<FeeReturnedBy, FeeBooks>>
  <2>1. ReadFee(w) \/ RecheckFeeRefund(w) \/ FeePostFails(w) \/ CompleteFeeRefundFails(w)
          => FeeRefundUntouched
    BY MostStepsStutter
  <2> QED
    BY <1>3, <1>4, <1>5, <1>6, <1>7, <1>8, <2>1 DEF RefundCharge
<1>9. CASE \E w \in ChargeWorkers : RefundCharge(w)
  BY <1>8, <1>9
<1>10. RedeliveryNext => \/ FeeRefundUntouched \/ LateRefundLands
                        \/ \E w \in ChargeWorkers : RefundCharge(w)
  BY MostStepsStutter, Zenon DEF RedeliveryNext
<1> QED
  BY <1>2, <1>7, <1>9, <1>10

(* Claims, takeovers and late requests for the charge keep the promise of  *)
(* RefundContract, as those for the order's payment do.                    *)
THEOREM FeeContractKept == RedeliverySpec => KeepsFeeRefundContract
<1>1. RedeliveryInit => FeeContract!Init
  BY DEF RedeliveryInit, FeeContract!Init, NoCharge, NoFeeClaim
<1>2. RedeliveryInv /\ [RedeliveryNext]_redeliveryVars
        => [FeeContract!Next]_(FeeContract!contractVars)
  <2>1. ASSUME RedeliveryInv, RedeliveryNext
        PROVE  FeeContract!Next \/ UNCHANGED <<FeeReturnedBy, FeeBooks>>
    BY <2>1, FeeRefundImplements
  <2>2. ASSUME UNCHANGED redeliveryVars PROVE UNCHANGED <<FeeReturnedBy, FeeBooks>>
    BY <2>2 DEF redeliveryVars, feeVars, FeeReturnedBy, FeeBooks
  <2> QED
    BY <2>1, <2>2 DEF FeeContract!contractVars, FeeReturnedBy, FeeBooks
<1> QED
  BY <1>1, <1>2, RedeliveryInitially, RedeliveryStep, PTL
  DEF RedeliverySpec, KeepsFeeRefundContract, FeeContract!Spec
===============================================================================
