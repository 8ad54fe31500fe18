------------------------- MODULE OrderCapacityProofs -------------------------
(***************************************************************************)
(* Proofs about OrderCapacity, for every number of orders, customers,      *)
(* items and option stocks and for all limits.                             *)
(*                                                                         *)
(* OwnershipInv (types, and who owns which reservation) is inductive by    *)
(* itself; with it in place the counters are shown to follow the           *)
(* reservations and to stay within the limits.                             *)
(***************************************************************************)
EXTENDS OrderCapacity, QuantityTheorems

OwnershipInv == TypeOK /\ OrdersOwnTheirReservations

Occupying == {"HELD", "CONSUMED"}

(* There are finitely many reservations. *)
LEMMA ReservationsFinite == IsFiniteSet(Reservations)
<1>1. IsFiniteSet({"checkout"}) /\ IsFiniteSet({"late-payment"})
  BY FS_Singleton
<1>2. IsFiniteSet(CheckoutReservations) /\ IsFiniteSet(LateReservations)
  BY <1>1, FS_Product, ConstantsAssumption DEF CheckoutReservations, LateReservations
<1> QED
  BY <1>2, FS_Union DEF Reservations

(* A placed order's reservations are among the documents of the round. *)
LEMMA ReservationOfOrder ==
  ASSUME NEW o \in Orders
  PROVE  CheckoutReservation(o) \in Reservations /\ LateReservation(o) \in Reservations
BY ConstantsAssumption
   DEF CheckoutReservation, LateReservation, Reservations, CheckoutReservations, LateReservations

(* What an order takes of a resource is a number. *)
LEMMA DemandType ==
  ASSUME NEW o \in Orders, NEW x \in Resources
  PROVE  Demand(o, x) \in Nat
<1>1. Quantity(Items, Lines[o]) \in Nat
  <2>1. IsFiniteSet(Items) /\ \A i \in Items : Lines[o][i] \in Nat
    BY ConstantsAssumption
  <2> QED
    BY <2>1, QuantityType
<1> QED
  BY <1>1, ConstantsAssumption DEF Demand, Resources, RoundResources

(***************************************************************************)
(* Moving a reservation.                                                   *)
(***************************************************************************)
(* The variables a move changes keep their types, and the counters change  *)
(* by the shares that leave and enter.                                     *)
LEMMA MoveReservationType ==
  ASSUME TypeOK, NEW r \in Reservations, NEW next \in ReservationRecords,
         next.order \in Orders, MoveReservation(r, next)
  PROVE  /\ reservation' \in [Reservations -> ReservationRecords]
         /\ reservation' = [reservation EXCEPT ![r] = next]
         /\ reserved' \in [Resources -> Nat]
         /\ ordered' \in [Resources -> Nat]
         /\ \A x \in Resources :
              /\ reserved'[x] = reserved[x] - Share(reservation[r].status, "HELD", next.order, x)
                                            + Share(next.status, "HELD", next.order, x)
              /\ ordered'[x] = ordered[x] - Share(reservation[r].status, "CONSUMED", next.order, x)
                                          + Share(next.status, "CONSUMED", next.order, x)
<1>1. \A x \in Resources : Demand(next.order, x) \in Nat
  BY DemandType
<1>2. /\ reservation' = [reservation EXCEPT ![r] = next]
      /\ reserved' = MovedCounter(reserved, "HELD", next.order, reservation[r].status, next.status)
      /\ ordered' = MovedCounter(ordered, "CONSUMED", next.order, reservation[r].status, next.status)
      /\ \A x \in Resources : reserved'[x] >= 0 /\ ordered'[x] >= 0
  BY DEF MoveReservation
<1>3. reservation' \in [Reservations -> ReservationRecords]
  BY <1>2 DEF TypeOK
<1>4. \A x \in Resources :
              /\ reserved'[x] = reserved[x] - Share(reservation[r].status, "HELD", next.order, x)
                                            + Share(next.status, "HELD", next.order, x)
              /\ ordered'[x] = ordered[x] - Share(reservation[r].status, "CONSUMED", next.order, x)
                                          + Share(next.status, "CONSUMED", next.order, x)
  BY <1>2 DEF MovedCounter
<1>5. ASSUME NEW status, NEW bucket, NEW x \in Resources
      PROVE  Share(status, bucket, next.order, x) \in Int
  BY <1>1 DEF Share
<1>6. \A x \in Resources : reserved'[x] \in Nat /\ ordered'[x] \in Nat
  BY <1>2, <1>4, <1>5 DEF TypeOK
<1>7. reserved' \in [Resources -> Nat] /\ ordered' \in [Resources -> Nat]
  BY <1>2, <1>6 DEF MovedCounter
<1> QED
  BY <1>2, <1>3, <1>4, <1>7

(***************************************************************************)
(* Ownership: every action keeps OwnershipInv.                             *)
(***************************************************************************)
LEMMA CreateOrderOwnership ==
  ASSUME OwnershipInv, NEW o \in Orders, CreateOrder(o)
  PROVE  OwnershipInv'
<1> DEFINE r == CheckoutReservation(o)
           next == [status |-> "HELD", order |-> o, lapsed |-> FALSE]
<1>1. r \in Reservations /\ next \in ReservationRecords /\ next.order = o
  BY ReservationOfOrder DEF ReservationRecords, ReservationStatuses
<1>2. /\ order[o].status = "NONE"
      /\ reservation[r].status = "NONE"
      /\ MoveReservation(r, next)
      /\ order' = [order EXCEPT ![o] = [status |-> "PENDING", cancelReason |-> "none",
                                        reservation |-> r, redelivery |-> "none"]]
      /\ round' = EffectiveRound
      /\ UNCHANGED <<window, limit, heldOrderCount>>
  BY DEF CreateOrder, ReservationAvailable
<1> HIDE DEF r, next
<1>3. /\ reservation' \in [Reservations -> ReservationRecords]
      /\ reservation' = [reservation EXCEPT ![r] = next]
      /\ reserved' \in [Resources -> Nat] /\ ordered' \in [Resources -> Nat]
  BY <1>1, <1>2, MoveReservationType DEF OwnershipInv
<1>4. order' \in [Orders -> OrderRecords]
  BY <1>1, <1>2 DEF OwnershipInv, TypeOK, OrderRecords, OrderStatuses
<1>5. round' \in Rounds
  BY <1>2 DEF OwnershipInv, TypeOK, EffectiveRound, ResolveAutomaticState, Opened, Closed,
              Rounds, RoundStatuses, CloseReasons, CancellationStatuses
<1>6. TypeOK'
  BY <1>2, <1>3, <1>4, <1>5 DEF OwnershipInv, TypeOK
<1>7. OrdersOwnTheirReservations'
  BY <1>1, <1>2, <1>3
     DEF OwnershipInv, TypeOK, OrdersOwnTheirReservations, ReservationStatusFor, WithStatus, next
<1> QED
  BY <1>6, <1>7 DEF OwnershipInv

(* The reservation a placed order points to, and its type. *)
LEMMA OwnedReservation ==
  ASSUME OwnershipInv, NEW o \in Orders, order[o].status # "NONE"
  PROVE  /\ order[o].reservation \in Reservations
         /\ reservation[order[o].reservation] \in ReservationRecords
         /\ reservation[order[o].reservation].order = o
         /\ reservation[order[o].reservation].status \in ReservationStatusFor(order[o].status)
BY DEF OwnershipInv, TypeOK, OrdersOwnTheirReservations

(* An order whose reservation stays in its status keeps owning it. *)
LEMMA BecomeOwnership ==
  ASSUME OwnershipInv, NEW o \in Orders, order[o].status # "NONE",
         NEW status \in ReservationStatuses, Become(order[o].reservation, status),
         NEW next \in OrderRecords, order' = [order EXCEPT ![o] = next],
         next.reservation = order[o].reservation, next.status # "NONE",
         status \in ReservationStatusFor(next.status),
         heldOrderCount' \in Nat, UNCHANGED <<round, window, limit>>
  PROVE  OwnershipInv'
<1> DEFINE r == order[o].reservation
           moved == [reservation[r] EXCEPT !.status = status]
<1>1. r \in Reservations /\ reservation[r].order = o /\ reservation[r] \in ReservationRecords
  BY OwnedReservation
<1>2. moved \in ReservationRecords /\ moved.order = o /\ moved.status = status
  BY <1>1 DEF ReservationRecords
<1>3. MoveReservation(r, moved)
  BY DEF Become
<1> HIDE DEF moved
<1>4. /\ reservation' \in [Reservations -> ReservationRecords]
      /\ reservation' = [reservation EXCEPT ![r] = moved]
      /\ reserved' \in [Resources -> Nat] /\ ordered' \in [Resources -> Nat]
  BY <1>1, <1>2, <1>3, MoveReservationType DEF OwnershipInv
<1>5. TypeOK'
  BY <1>4 DEF OwnershipInv, TypeOK
<1> HIDE DEF r
<1>6. OrdersOwnTheirReservations'
  BY <1>1, <1>2, <1>4 DEF OwnershipInv, TypeOK, OrdersOwnTheirReservations, WithStatus, r
<1> QED
  BY <1>5, <1>6 DEF OwnershipInv

LEMMA FinalizePaidOrderOwnership ==
  ASSUME OwnershipInv, NEW o \in Orders, FinalizePaidOrder(o)
  PROVE  OwnershipInv'
<1> DEFINE next == [order[o] EXCEPT !.status = "ACCEPTED"]
<1>1. next \in OrderRecords /\ next.status = "ACCEPTED" /\ next.reservation = order[o].reservation
  BY DEF OwnershipInv, TypeOK, OrderRecords, OrderStatuses
<1>2. /\ order[o].status # "NONE" /\ Become(order[o].reservation, "CONSUMED")
      /\ order' = [order EXCEPT ![o] = next]
      /\ heldOrderCount' \in Nat /\ UNCHANGED <<round, window, limit>>
  BY DEF FinalizePaidOrder, OwnershipInv, TypeOK
<1>3. "CONSUMED" \in ReservationStatuses /\ "CONSUMED" \in ReservationStatusFor("ACCEPTED")
  BY DEF ReservationStatuses, ReservationStatusFor
<1> HIDE DEF next
<1> QED
  BY <1>1, <1>2, <1>3, BecomeOwnership

LEMMA FinalizeLatePaidOrderOwnership ==
  ASSUME OwnershipInv, NEW o \in Orders, FinalizeLatePaidOrder(o)
  PROVE  OwnershipInv'
<1> DEFINE r == LateReservation(o)
           next == [status |-> "CONSUMED", order |-> o, lapsed |-> FALSE]
           accepted == [order[o] EXCEPT !.status = "ACCEPTED", !.reservation = r]
<1>1. r \in Reservations /\ next \in ReservationRecords /\ next.order = o
  BY ReservationOfOrder DEF ReservationRecords, ReservationStatuses
<1>2. /\ order[o].status = "CANCELLED"
      /\ reservation[r].status = "NONE"
      /\ MoveReservation(r, next)
      /\ order' = [order EXCEPT ![o] = accepted]
      /\ round' = EffectiveRound
      /\ UNCHANGED <<window, limit, heldOrderCount>>
  BY DEF FinalizeLatePaidOrder, OwnershipInv, TypeOK, OrderRecords
<1>3. accepted \in OrderRecords /\ accepted.status = "ACCEPTED" /\ accepted.reservation = r
  BY <1>1 DEF OwnershipInv, TypeOK, OrderRecords, OrderStatuses
<1>4. next.status = "CONSUMED"
  OBVIOUS
<1> HIDE DEF r, next, accepted
<1>5. /\ reservation' \in [Reservations -> ReservationRecords]
      /\ reservation' = [reservation EXCEPT ![r] = next]
      /\ reserved' \in [Resources -> Nat] /\ ordered' \in [Resources -> Nat]
  BY <1>1, <1>2, MoveReservationType DEF OwnershipInv
<1>6. order' \in [Orders -> OrderRecords]
  BY <1>2, <1>3 DEF OwnershipInv, TypeOK
<1>7. round' \in Rounds
  BY <1>2 DEF OwnershipInv, TypeOK, EffectiveRound, ResolveAutomaticState, Opened, Closed,
              Rounds, RoundStatuses, CloseReasons, CancellationStatuses
<1>8. TypeOK'
  BY <1>2, <1>5, <1>6, <1>7 DEF OwnershipInv, TypeOK
<1>9. OrdersOwnTheirReservations'
  BY <1>1, <1>2, <1>5, <1>3, <1>4
     DEF OwnershipInv, TypeOK, OrdersOwnTheirReservations, ReservationStatusFor, WithStatus
<1> QED
  BY <1>8, <1>9 DEF OwnershipInv

LEMMA CancelPendingOrderOwnership ==
  ASSUME OwnershipInv, NEW o \in Orders, NEW reason \in {"timeout", "other"},
         CancelPendingOrder(o, reason)
  PROVE  OwnershipInv'
<1> DEFINE next == [order[o] EXCEPT !.status = "CANCELLED", !.cancelReason = reason]
           status == IF reason = "timeout" THEN "EXPIRED" ELSE "RELEASED"
<1>1. next \in OrderRecords /\ next.status = "CANCELLED" /\ next.reservation = order[o].reservation
  BY DEF OwnershipInv, TypeOK, OrderRecords, OrderStatuses
<1>2. /\ order[o].status # "NONE" /\ Become(order[o].reservation, status)
      /\ order' = [order EXCEPT ![o] = next]
      /\ heldOrderCount' \in Nat /\ UNCHANGED <<round, window, limit>>
  BY DEF CancelPendingOrder, OwnershipInv, TypeOK, OrderRecords
<1>3. status \in ReservationStatuses /\ status \in ReservationStatusFor("CANCELLED")
  BY DEF ReservationStatuses, ReservationStatusFor
<1> HIDE DEF next, status
<1> QED
  BY <1>1, <1>2, <1>3, BecomeOwnership

LEMMA CancelOrderOwnership ==
  ASSUME OwnershipInv, NEW o \in Orders, CancelOrder(o)
  PROVE  OwnershipInv'
<1> DEFINE next == [order[o] EXCEPT !.status = "CANCELLED", !.cancelReason = "other",
                                    !.redelivery = "none"]
<1>1. next \in OrderRecords /\ next.status = "CANCELLED" /\ next.reservation = order[o].reservation
  BY DEF OwnershipInv, TypeOK, OrderRecords, OrderStatuses
<1>2. order[o].status # "NONE" /\ order[o].status # "CANCELLED"
  BY DEF CancelOrder, CancellableStatuses
<1>3. reservation[order[o].reservation].status \in {"HELD", "CONSUMED"}
  BY <1>2, OwnedReservation DEF ReservationStatusFor
<1>4. Become(order[o].reservation, "RELEASED")
  BY <1>3 DEF CancelOrder
<1>5. /\ order' = [order EXCEPT ![o] = next]
      /\ heldOrderCount' \in Nat /\ UNCHANGED <<round, window, limit>>
  <2>1. order' = [order EXCEPT ![o] = next] /\ UNCHANGED <<round, window, limit>>
    BY DEF CancelOrder
  <2>2. AdjustHeldOrderCount(IF HoldCounted(o) THEN -1 ELSE 0)
    BY DEF CancelOrder
  <2>3. heldOrderCount' \in Nat
    BY <2>2 DEF AdjustHeldOrderCount, OwnershipInv, TypeOK
  <2> QED
    BY <2>1, <2>3
<1>6. "RELEASED" \in ReservationStatuses /\ "RELEASED" \in ReservationStatusFor("CANCELLED")
  BY DEF ReservationStatuses, ReservationStatusFor
<1> HIDE DEF next
<1> QED
  BY <1>1, <1>2, <1>4, <1>5, <1>6, BecomeOwnership

(* A delivery step leaves the order among those that have paid. *)
LEMMA UpdateOrderStatusOwnership ==
  ASSUME OwnershipInv, NEW o \in Orders, NEW next \in OrderStatuses,
         NEW fee \in {"none", "unpaid"}, UpdateOrderStatus(o, next, fee)
  PROVE  OwnershipInv'
<1> DEFINE paid == {"ACCEPTED", "PREPARING", "DELIVERING", "DELIVERY_HELD", "DELIVERED"}
<1>1. order[o].status \in paid /\ next \in paid
  BY DEF UpdateOrderStatus, DeliveryTransitions
<1>2. ReservationStatusFor(order[o].status) = ReservationStatusFor(next)
  BY <1>1 DEF ReservationStatusFor
<1>3. PICK redelivery \in {"none", "unpaid", "paid"} :
        order' = [order EXCEPT ![o] = [@ EXCEPT !.status = next, !.redelivery = redelivery]]
  <2>1. order[o] \in OrderRecords
    BY DEF OwnershipInv, TypeOK
  <2> DEFINE kept == IF next \in {"DELIVERY_HELD", "DELIVERING"} THEN fee
                     ELSE order[o].redelivery
  <2>2. kept \in {"none", "unpaid", "paid"}
    BY <2>1 DEF OrderRecords
  <2>3. order' = [order EXCEPT ![o] = [@ EXCEPT !.status = next, !.redelivery = kept]]
    BY <2>1 DEF UpdateOrderStatus, OrderRecords
  <2> QED
    BY <2>2, <2>3
<1>4. /\ heldOrderCount' \in Nat
      /\ UNCHANGED <<round, window, limit, reserved, ordered, reservation>>
  BY DEF UpdateOrderStatus, AdjustHeldOrderCount, HeldOrderDelta, OwnershipInv, TypeOK
<1>5. TypeOK'
  BY <1>3, <1>4 DEF OwnershipInv, TypeOK, OrderRecords
<1>6. \A p \in Orders : /\ order'[p].reservation = order[p].reservation
                        /\ order'[p].status = IF p = o THEN next ELSE order[p].status
  BY <1>3 DEF OwnershipInv, TypeOK, OrderRecords
<1>7. OrdersOwnTheirReservations'
  BY <1>1, <1>2, <1>4, <1>6 DEF OwnershipInv, OrdersOwnTheirReservations, WithStatus
<1> QED
  BY <1>5, <1>7 DEF OwnershipInv

LEMMA PayRedeliveryFeeOwnership ==
  ASSUME OwnershipInv, NEW o \in Orders, PayRedeliveryFee(o)
  PROVE  OwnershipInv'
<1>1. /\ order' = [order EXCEPT ![o] = [@ EXCEPT !.redelivery = "paid"]]
      /\ UNCHANGED <<round, window, limit, reserved, ordered, heldOrderCount, reservation>>
  BY DEF PayRedeliveryFee
<1>2. TypeOK'
  BY <1>1 DEF OwnershipInv, TypeOK, OrderRecords
<1>3. \A p \in Orders : /\ order'[p].reservation = order[p].reservation
                        /\ order'[p].status = order[p].status
  BY <1>1 DEF OwnershipInv, TypeOK, OrderRecords
<1>4. OrdersOwnTheirReservations'
  BY <1>1, <1>3 DEF OwnershipInv, OrdersOwnTheirReservations, WithStatus
<1> QED
  BY <1>2, <1>4 DEF OwnershipInv

LEMMA LapseOwnership ==
  ASSUME OwnershipInv, NEW r \in Reservations, Lapse(r)
  PROVE  OwnershipInv'
<1>1. /\ reservation' = [reservation EXCEPT ![r] = [@ EXCEPT !.lapsed = TRUE]]
      /\ UNCHANGED <<round, window, limit, reserved, ordered, heldOrderCount, order>>
  BY DEF Lapse
<1>2. TypeOK'
  BY <1>1 DEF OwnershipInv, TypeOK, ReservationRecords
<1>3. \A s \in Reservations : /\ reservation'[s].order = reservation[s].order
                              /\ reservation'[s].status = reservation[s].status
  BY <1>1 DEF OwnershipInv, TypeOK, ReservationRecords
<1>4. OrdersOwnTheirReservations'
  BY <1>1, <1>3 DEF OwnershipInv, OrdersOwnTheirReservations, WithStatus
<1> QED
  BY <1>2, <1>4 DEF OwnershipInv

(* The steps of the round and of the stocks touch no order and no          *)
(* reservation.                                                            *)
LEMMA RoundOwnership ==
  ASSUME OwnershipInv, round' \in Rounds, window' \in Windows, limit' \in [Resources -> Nat],
         UNCHANGED <<reserved, ordered, heldOrderCount, reservation, order>>
  PROVE  OwnershipInv'
<1>1. TypeOK'
  BY DEF OwnershipInv, TypeOK
<1>2. OrdersOwnTheirReservations'
  BY DEF OwnershipInv, OrdersOwnTheirReservations, WithStatus
<1> QED
  BY <1>1, <1>2 DEF OwnershipInv

LEMMA RoundStepOwnership ==
  ASSUME OwnershipInv, RoundStep
  PROVE  OwnershipInv'
<1> USE DEF OwnershipInv, TypeOK, RoundUnchanged, Rounds, RoundStatuses, CloseReasons,
            CancellationStatuses, Windows
<1>1. UNCHANGED <<reserved, ordered, heldOrderCount, reservation, order>>
  BY DEF RoundStep, RefreshStatus, UpdateRoundStatus, CompleteRound, ClaimRoundCancellation,
         RecordCancellationFailure, FinalizeRoundCancellation, UpdateRound, PassTime
<1>2. round' \in Rounds /\ window' \in Windows /\ limit' \in [Resources -> Nat]
  <2>1. CASE RefreshStatus
    BY <2>1 DEF RefreshStatus, EffectiveRound, ResolveAutomaticState, Opened, Closed
  <2>2. CASE \E next \in {"SCHEDULED", "OPEN", "CLOSED"} : UpdateRoundStatus(next)
    BY <2>2 DEF UpdateRoundStatus
  <2>3. CASE CompleteRound
    BY <2>3 DEF CompleteRound
  <2>4. CASE ClaimRoundCancellation
    BY <2>4 DEF ClaimRoundCancellation
  <2>5. CASE RecordCancellationFailure
    BY <2>5 DEF RecordCancellationFailure
  <2>6. CASE FinalizeRoundCancellation
    BY <2>6 DEF FinalizeRoundCancellation
  <2>7. ASSUME NEW newLimits \in RoundLimits, NEW newWindow \in Windows,
               UpdateRound(newLimits, newWindow)
        PROVE  round' \in Rounds /\ window' \in Windows /\ limit' \in [Resources -> Nat]
    <3>1. newLimits \in [RoundResources -> Nat]
      BY ConstantsAssumption
    <3> QED
      BY <2>7, <3>1 DEF UpdateRound
  <2>8. CASE PassTime
    BY <2>8 DEF PassTime
  <2> QED
    BY <2>1, <2>2, <2>3, <2>4, <2>5, <2>6, <2>7, <2>8 DEF RoundStep
<1> QED
  BY <1>1, <1>2, RoundOwnership

LEMMA UpdateStockOwnership ==
  ASSUME OwnershipInv, NEW s \in Stocks, NEW amount \in Nat, NEW adds \in BOOLEAN,
         UpdateStock(s, amount, adds)
  PROVE  OwnershipInv'
<1>1. limit' \in [Resources -> Nat]
  BY DEF UpdateStock, StockBase, OwnershipInv, TypeOK, Resources
<1>2. UNCHANGED <<round, window, reserved, ordered, heldOrderCount, reservation, order>>
  BY DEF UpdateStock
<1>3. round' \in Rounds /\ window' \in Windows
  BY <1>2 DEF OwnershipInv, TypeOK
<1> QED
  BY <1>1, <1>2, <1>3, RoundOwnership

LEMMA InitOwnership ==
  ASSUME Init
  PROVE  OwnershipInv
<1>1. limit \in [Resources -> Nat]
  <2>1. PICK limits \in RoundLimits :
          limit = [x \in Resources |-> IF x \in RoundResources THEN limits[x] ELSE InitialStock[x]]
    BY DEF Init
  <2>2. limits \in [RoundResources -> Nat]
    BY ConstantsAssumption
  <2> QED
    BY <2>1, <2>2, ConstantsAssumption DEF Resources
<1>2. TypeOK
  BY <1>1 DEF Init, TypeOK, Rounds, RoundStatuses, CloseReasons, CancellationStatuses,
              ReservationRecords, ReservationStatuses, OrderRecords, OrderStatuses
<1>3. OrdersOwnTheirReservations
  BY DEF Init, OrdersOwnTheirReservations, WithStatus
<1> QED
  BY <1>2, <1>3 DEF OwnershipInv

LEMMA StutterOwnership ==
  ASSUME OwnershipInv, UNCHANGED vars
  PROVE  OwnershipInv'
<1>1. TypeOK' /\ OrdersOwnTheirReservations'
  BY DEF vars, OwnershipInv, TypeOK, OrdersOwnTheirReservations, WithStatus
<1> QED
  BY <1>1 DEF OwnershipInv

LEMMA NextOwnership ==
  ASSUME OwnershipInv, [Next]_vars
  PROVE  OwnershipInv'
<1>1. ASSUME NEW o \in Orders, OrderStep(o)
      PROVE  OwnershipInv'
  <2>1. CASE CreateOrder(o)
    BY <2>1, CreateOrderOwnership
  <2>2. CASE FinalizePaidOrder(o)
    BY <2>2, FinalizePaidOrderOwnership
  <2>3. CASE FinalizeLatePaidOrder(o)
    BY <2>3, FinalizeLatePaidOrderOwnership
  <2>4. CASE \E reason \in {"timeout", "other"} : CancelPendingOrder(o, reason)
    BY <2>4, CancelPendingOrderOwnership
  <2>5. CASE CancelOrder(o)
    BY <2>5, CancelOrderOwnership
  <2>6. CASE \E next \in OrderStatuses, fee \in {"none", "unpaid"} :
               UpdateOrderStatus(o, next, fee)
    BY <2>6, UpdateOrderStatusOwnership
  <2>7. CASE PayRedeliveryFee(o)
    BY <2>7, PayRedeliveryFeeOwnership
  <2> QED
    BY <1>1, <2>1, <2>2, <2>3, <2>4, <2>5, <2>6, <2>7 DEF OrderStep
<1>2. ASSUME NEW r \in Reservations, Lapse(r)
      PROVE  OwnershipInv'
  BY <1>2, LapseOwnership
<1>3. CASE RoundStep
  BY <1>3, RoundStepOwnership
<1>4. ASSUME NEW s \in Stocks, NEW amount \in 0 .. StockBound, NEW adds \in BOOLEAN,
             UpdateStock(s, amount, adds)
      PROVE  OwnershipInv'
  <2>1. amount \in Nat
    OBVIOUS
  <2> QED
    BY <1>4, <2>1, UpdateStockOwnership
<1>5. CASE UNCHANGED vars
  BY <1>5, StutterOwnership
<1> QED
  BY <1>1, <1>2, <1>3, <1>4, <1>5 DEF Next

LEMMA OwnershipInvariant == Spec => []OwnershipInv
<1>1. Init => OwnershipInv
  BY InitOwnership
<1>2. OwnershipInv /\ [Next]_vars => OwnershipInv'
  BY NextOwnership
<1> QED
  BY <1>1, <1>2, PTL DEF Spec

(* The documents keep to their types: no counter ever becomes negative and *)
(* no reservation or order reaches a status the code does not know.        *)
THEOREM TypeCorrectness == Spec => []TypeOK
<1>1. OwnershipInv => TypeOK
  BY DEF OwnershipInv
<1> QED
  BY <1>1, OwnershipInvariant, PTL

(* A waiting order holds capacity, an order in progress has paid for it, a *)
(* cancelled one occupies nothing, and no capacity is occupied without an  *)
(* order.                                                                  *)
THEOREM Ownership == Spec => []OrdersOwnTheirReservations
<1>1. OwnershipInv => OrdersOwnTheirReservations
  BY DEF OwnershipInv
<1> QED
  BY <1>1, OwnershipInvariant, PTL

(***************************************************************************)
(* The ledger: counters and reservations stay equal.                       *)
(***************************************************************************)
(* What a bucket holds changes by the shares that leave and enter.         *)
LEMMA OccupiedOfMove ==
  ASSUME OwnershipInv, NEW r \in Reservations, NEW next \in ReservationRecords,
         next.order \in Orders, reservation' = [reservation EXCEPT ![r] = next],
         reservation[r].status \in Occupying => reservation[r].order = next.order,
         NEW bucket \in Occupying, NEW x \in Resources
  PROVE  Occupied(WithStatus(bucket), x)'
           = Occupied(WithStatus(bucket), x)
               - Share(reservation[r].status, bucket, next.order, x)
               + Share(next.status, bucket, next.order, x)
<1> DEFINE S == {s \in Reservations : reservation[s].status = bucket}
           T == {s \in Reservations : reservation'[s].status = bucket}
           p == [s \in S |-> Demand(reservation[s].order, x)]
           q == [s \in T |-> Demand(reservation'[s].order, x)]
<1>1. Occupied(WithStatus(bucket), x) = Quantity(S, p)
  BY DEF Occupied, WithStatus
<1>2. Occupied(WithStatus(bucket), x)' = Quantity(T, q)
  BY DEF Occupied, WithStatus, Demand
<1>3. \A s \in Reservations \ {r} : reservation'[s] = reservation[s]
  BY DEF OwnershipInv, TypeOK
<1>4. reservation'[r] = next
  BY DEF OwnershipInv, TypeOK
<1>5. \A s \in S : reservation[s].order \in Orders
  BY DEF OwnershipInv, OrdersOwnTheirReservations, WithStatus, Occupying
<1>6. \A s \in T : reservation'[s].order \in Orders
  BY <1>3, <1>4, <1>5
<1>7. S \ {r} = T \ {r}
  BY <1>3
<1>8. (\A s \in S : p[s] \in Nat) /\ (\A s \in T : q[s] \in Nat)
  BY <1>5, <1>6, DemandType
<1>9. \A s \in S \ {r} : p[s] = q[s]
  BY <1>3, <1>7
<1>10. IsFiniteSet(S)
  BY ReservationsFinite, FS_Subset
<1>11. (r \in S => p[r] = Demand(next.order, x)) /\ (r \in T => q[r] = Demand(next.order, x))
  BY <1>4
<1>12. (r \in S <=> reservation[r].status = bucket) /\ (r \in T <=> next.status = bucket)
  BY <1>4
<1> HIDE DEF S, T, p, q
<1>13. Quantity(T, q) = Quantity(S, p) - (IF r \in S THEN p[r] ELSE 0)
                                       + (IF r \in T THEN q[r] ELSE 0)
  <2>1. \A s \in S : p[s] \in Nat
    BY <1>8
  <2>2. \A s \in T : q[s] \in Nat
    BY <1>8
  <2> QED
    BY ONLY <2>1, <2>2, <1>7, <1>9, <1>10, QuantityOfChange
<1> QED
  BY <1>1, <1>2, <1>11, <1>12, <1>13 DEF Share

LEMMA LedgerOfMove ==
  ASSUME OwnershipInv, CountersMatchReservations, NEW r \in Reservations,
         NEW next \in ReservationRecords, next.order \in Orders, MoveReservation(r, next),
         reservation[r].status \in Occupying => reservation[r].order = next.order
  PROVE  CountersMatchReservations'
<1>1. reservation' = [reservation EXCEPT ![r] = next]
  BY DEF MoveReservation
<1>2. ASSUME NEW x \in Resources
      PROVE  /\ reserved'[x] = Occupied(WithStatus("HELD"), x)'
             /\ ordered'[x] = Occupied(WithStatus("CONSUMED"), x)'
  <2>1. /\ reserved[x] = Occupied(WithStatus("HELD"), x)
        /\ ordered[x] = Occupied(WithStatus("CONSUMED"), x)
    BY DEF CountersMatchReservations
  <2>2. /\ reserved'[x] = reserved[x] - Share(reservation[r].status, "HELD", next.order, x)
                                      + Share(next.status, "HELD", next.order, x)
        /\ ordered'[x] = ordered[x] - Share(reservation[r].status, "CONSUMED", next.order, x)
                                    + Share(next.status, "CONSUMED", next.order, x)
    BY MoveReservationType DEF OwnershipInv
  <2>3. "HELD" \in Occupying /\ "CONSUMED" \in Occupying
    BY DEF Occupying
  <2> QED
    BY <1>1, <2>1, <2>2, <2>3, OccupiedOfMove
<1> QED
  BY <1>2 DEF CountersMatchReservations

(* Steps that leave every reservation's status and order alone.            *)
LEMMA LedgerUnmoved ==
  ASSUME OwnershipInv, CountersMatchReservations, UNCHANGED <<reserved, ordered>>,
         \A s \in Reservations : /\ reservation'[s].status = reservation[s].status
                                 /\ reservation'[s].order = reservation[s].order
  PROVE  CountersMatchReservations'
<1>1. ASSUME NEW bucket, NEW x \in Resources
      PROVE  Occupied(WithStatus(bucket), x)' = Occupied(WithStatus(bucket), x)
  <2> DEFINE S == {s \in Reservations : reservation[s].status = bucket}
             T == {s \in Reservations : reservation'[s].status = bucket}
             p == [s \in S |-> Demand(reservation[s].order, x)]
             q == [s \in T |-> Demand(reservation'[s].order, x)]
  <2>1. Occupied(WithStatus(bucket), x) = Quantity(S, p)
    BY DEF Occupied, WithStatus
  <2>2. Occupied(WithStatus(bucket), x)' = Quantity(T, q)
    BY DEF Occupied, WithStatus, Demand
  <2>3. S = T
    OBVIOUS
  <2>4. \A s \in S : p[s] = q[s]
    BY <2>3
  <2> HIDE DEF S, T, p, q
  <2> QED
    BY <2>1, <2>2, <2>3, <2>4, QuantityCongruence
<1> QED
  BY <1>1 DEF CountersMatchReservations

(* A change of status of an order's own reservation, as a move. *)
LEMMA BecomeIsMove ==
  ASSUME OwnershipInv, NEW o \in Orders, order[o].status # "NONE",
         NEW status \in ReservationStatuses, Become(order[o].reservation, status)
  PROVE  \E next \in ReservationRecords :
           /\ next.order = o /\ next.status = status
           /\ reservation[order[o].reservation].order = o
           /\ order[o].reservation \in Reservations
           /\ MoveReservation(order[o].reservation, next)
<1> DEFINE moved == [reservation[order[o].reservation] EXCEPT !.status = status]
<1>1. /\ order[o].reservation \in Reservations
      /\ reservation[order[o].reservation].order = o
      /\ reservation[order[o].reservation] \in ReservationRecords
  BY OwnedReservation
<1>2. moved \in ReservationRecords /\ moved.order = o /\ moved.status = status
  BY <1>1 DEF ReservationRecords
<1>3. MoveReservation(order[o].reservation, moved)
  BY DEF Become
<1> QED
  BY <1>1, <1>2, <1>3

(* The two moves that a new reservation makes. *)
LEMMA AcquisitionIsMove ==
  ASSUME NEW o \in Orders
  PROVE  /\ CreateOrder(o) =>
              /\ reservation[CheckoutReservation(o)].status = "NONE"
              /\ MoveReservation(CheckoutReservation(o),
                                [status |-> "HELD", order |-> o, lapsed |-> FALSE])
              /\ CapacityAvailable(o) /\ UNCHANGED limit
         /\ FinalizeLatePaidOrder(o) =>
              /\ reservation[LateReservation(o)].status = "NONE"
              /\ MoveReservation(LateReservation(o),
                                [status |-> "CONSUMED", order |-> o, lapsed |-> FALSE])
              /\ CapacityAvailable(o) /\ UNCHANGED limit
         /\ [status |-> "HELD", order |-> o, lapsed |-> FALSE] \in ReservationRecords
         /\ [status |-> "CONSUMED", order |-> o, lapsed |-> FALSE] \in ReservationRecords
BY DEF CreateOrder, FinalizeLatePaidOrder, ReservationAvailable, ReservationRecords,
       ReservationStatuses

(* The moves of an order's own reservation: how each handler changes it. *)
LEMMA SettlementIsMove ==
  ASSUME OwnershipInv, NEW o \in Orders,
         \/ FinalizePaidOrder(o)
         \/ \E reason \in {"timeout", "other"} : CancelPendingOrder(o, reason)
         \/ CancelOrder(o)
  PROVE  \E status \in ReservationStatuses :
           /\ order[o].status # "NONE"
           /\ reservation[order[o].reservation].status \in {"HELD", "CONSUMED"}
           /\ status = "CONSUMED" => reservation[order[o].reservation].status = "HELD"
           /\ status \in {"CONSUMED", "RELEASED", "EXPIRED"}
           /\ Become(order[o].reservation, status)
           /\ UNCHANGED limit
<1>1. CASE FinalizePaidOrder(o)
  BY <1>1 DEF FinalizePaidOrder, ReservationStatuses
<1>2. CASE \E reason \in {"timeout", "other"} : CancelPendingOrder(o, reason)
  BY <1>2 DEF CancelPendingOrder, ReservationStatuses
<1>3. CASE CancelOrder(o)
  <2>1. order[o].status \in CancellableStatuses
    BY <1>3 DEF CancelOrder
  <2>2. order[o].status # "NONE" /\ order[o].status # "CANCELLED"
    BY <2>1 DEF CancellableStatuses
  <2>3. reservation[order[o].reservation].status \in {"HELD", "CONSUMED"}
    BY <2>2, OwnedReservation DEF ReservationStatusFor
  <2>4. Become(order[o].reservation, "RELEASED") /\ UNCHANGED limit
    BY <1>3, <2>3 DEF CancelOrder
  <2> QED
    BY <2>2, <2>3, <2>4 DEF ReservationStatuses
<1> QED
  BY <1>1, <1>2, <1>3

(* Every other step of the system leaves the occupied capacity alone. *)
LEMMA OtherStepsMoveNothing ==
  ASSUME OwnershipInv, [Next]_vars,
         \A o \in Orders :
           /\ ~CreateOrder(o) /\ ~FinalizePaidOrder(o) /\ ~FinalizeLatePaidOrder(o)
           /\ ~CancelOrder(o)
           /\ \A reason \in {"timeout", "other"} : ~CancelPendingOrder(o, reason)
  PROVE  /\ UNCHANGED <<reserved, ordered>>
         /\ \A s \in Reservations : /\ reservation'[s].status = reservation[s].status
                                   /\ reservation'[s].order = reservation[s].order
<1>1. ASSUME NEW r \in Reservations, Lapse(r)
      PROVE  /\ UNCHANGED <<reserved, ordered>>
             /\ \A s \in Reservations : /\ reservation'[s].status = reservation[s].status
                                       /\ reservation'[s].order = reservation[s].order
  <2>1. reservation' = [reservation EXCEPT ![r] = [@ EXCEPT !.lapsed = TRUE]]
    BY <1>1 DEF Lapse
  <2> QED
    BY <1>1, <2>1 DEF Lapse, OwnershipInv, TypeOK, ReservationRecords
<1>2. CASE UNCHANGED <<reserved, ordered, reservation>>
  BY <1>2
<1>3. ASSUME NEW o \in Orders, OrderStep(o)
      PROVE  UNCHANGED <<reserved, ordered, reservation>>
  BY <1>3 DEF OrderStep, UpdateOrderStatus, PayRedeliveryFee
<1>4. RoundStep => UNCHANGED <<reserved, ordered, reservation>>
  BY DEF RoundStep, RefreshStatus, UpdateRoundStatus, CompleteRound, ClaimRoundCancellation,
         RecordCancellationFailure, FinalizeRoundCancellation, UpdateRound, PassTime,
         RoundUnchanged
<1>5. ASSUME NEW s \in Stocks, NEW amount \in 0 .. StockBound, NEW adds \in BOOLEAN,
             UpdateStock(s, amount, adds)
      PROVE  UNCHANGED <<reserved, ordered, reservation>>
  BY <1>5 DEF UpdateStock
<1> QED
  BY <1>1, <1>2, <1>3, <1>4, <1>5 DEF Next, vars

LEMMA NextLedger ==
  ASSUME OwnershipInv, CountersMatchReservations, [Next]_vars
  PROVE  CountersMatchReservations'
<1>1. ASSUME NEW o \in Orders, CreateOrder(o) \/ FinalizeLatePaidOrder(o)
      PROVE  CountersMatchReservations'
  <2>1. PICK r \in Reservations, next \in ReservationRecords :
          next.order = o /\ reservation[r].status = "NONE" /\ MoveReservation(r, next)
    BY <1>1, AcquisitionIsMove, ReservationOfOrder
  <2>2. reservation[r].status \notin Occupying
    BY <2>1 DEF Occupying
  <2> QED
    BY <2>1, <2>2, LedgerOfMove
<1>2. ASSUME NEW o \in Orders,
             \/ FinalizePaidOrder(o)
             \/ \E reason \in {"timeout", "other"} : CancelPendingOrder(o, reason)
             \/ CancelOrder(o)
      PROVE  CountersMatchReservations'
  <2>1. PICK status \in ReservationStatuses :
          order[o].status # "NONE" /\ Become(order[o].reservation, status)
    BY <1>2, SettlementIsMove
  <2>2. PICK next \in ReservationRecords :
          /\ next.order = o /\ order[o].reservation \in Reservations
          /\ reservation[order[o].reservation].order = o
          /\ MoveReservation(order[o].reservation, next)
    BY <2>1, BecomeIsMove
  <2> QED
    BY <2>2, LedgerOfMove
<1>3. CASE \A o \in Orders :
             /\ ~CreateOrder(o) /\ ~FinalizePaidOrder(o) /\ ~FinalizeLatePaidOrder(o)
             /\ ~CancelOrder(o)
             /\ \A reason \in {"timeout", "other"} : ~CancelPendingOrder(o, reason)
  BY <1>3, OtherStepsMoveNothing, LedgerUnmoved
<1> QED
  BY <1>1, <1>2, <1>3

(* At first nothing is counted and nothing is reserved. *)
LEMMA InitLedger ==
  ASSUME Init
  PROVE  CountersMatchReservations
<1>1. WithStatus("HELD") = {} /\ WithStatus("CONSUMED") = {}
  BY DEF Init, WithStatus
<1>2. \A x \in Resources : Occupied({}, x) = 0
  BY QuantityOfNothing DEF Occupied
<1> QED
  BY <1>1, <1>2 DEF Init, CountersMatchReservations

(* Every counter of the round, its items and its option stocks equals, in  *)
(* every reachable state, the sum of what the reservations take.           *)
THEOREM Ledger == Spec => []CountersMatchReservations
<1>1. Init => CountersMatchReservations
  BY InitLedger
<1>2. OwnershipInv /\ CountersMatchReservations /\ [Next]_vars => CountersMatchReservations'
  BY NextLedger
<1> QED
  BY <1>1, <1>2, OwnershipInvariant, PTL DEF Spec

(***************************************************************************)
(* Nothing is oversold.                                                    *)
(***************************************************************************)
LEMMA NextNoOversell ==
  ASSUME OwnershipInv, NoOversell, [Next]_vars
  PROVE  NoOversell'
<1>1. ASSUME NEW o \in Orders, CreateOrder(o) \/ FinalizeLatePaidOrder(o)
      PROVE  NoOversell'
  <2>1. PICK r \in Reservations, next \in ReservationRecords :
          /\ next.order = o /\ reservation[r].status = "NONE" /\ MoveReservation(r, next)
          /\ next.status \in {"HELD", "CONSUMED"}
          /\ CapacityAvailable(o) /\ UNCHANGED limit
    BY <1>1, AcquisitionIsMove, ReservationOfOrder
  <2>2. ASSUME NEW x \in Resources
        PROVE  reserved'[x] + ordered'[x] <= limit'[x]
    <3>1. Demand(o, x) \in Nat
      BY DemandType
    <3>2. /\ reserved'[x] = reserved[x] + Share(next.status, "HELD", o, x)
          /\ ordered'[x] = ordered[x] + Share(next.status, "CONSUMED", o, x)
      BY <2>1, <3>1, MoveReservationType DEF OwnershipInv, TypeOK, Share
    <3>3. reserved'[x] + ordered'[x] = reserved[x] + ordered[x] + Demand(o, x)
      BY <2>1, <3>1, <3>2 DEF Share, OwnershipInv, TypeOK
    <3>4. reserved[x] + ordered[x] + Demand(o, x) <= limit[x]
      BY <2>1, <3>1 DEF CapacityAvailable, NoOversell, OwnershipInv, TypeOK
    <3> QED
      BY <2>1, <3>3, <3>4
  <2> QED
    BY <2>2 DEF NoOversell
<1>2. ASSUME NEW o \in Orders,
             \/ FinalizePaidOrder(o)
             \/ \E reason \in {"timeout", "other"} : CancelPendingOrder(o, reason)
             \/ CancelOrder(o)
      PROVE  NoOversell'
  <2>1. PICK status \in ReservationStatuses :
          /\ order[o].status # "NONE" /\ Become(order[o].reservation, status)
          /\ reservation[order[o].reservation].status \in {"HELD", "CONSUMED"}
          /\ status = "CONSUMED" => reservation[order[o].reservation].status = "HELD"
          /\ status \in {"CONSUMED", "RELEASED", "EXPIRED"} /\ UNCHANGED limit
    BY <1>2, SettlementIsMove
  <2>2. PICK next \in ReservationRecords :
          /\ next.order = o /\ next.status = status /\ order[o].reservation \in Reservations
          /\ MoveReservation(order[o].reservation, next)
    BY <2>1, BecomeIsMove
  <2>3. ASSUME NEW x \in Resources
        PROVE  reserved'[x] + ordered'[x] <= limit'[x]
    <3> DEFINE from == reservation[order[o].reservation].status
    <3>1. Demand(o, x) \in Nat
      BY DemandType
    <3>2. /\ reserved'[x] = reserved[x] - Share(from, "HELD", o, x) + Share(status, "HELD", o, x)
          /\ ordered'[x] = ordered[x] - Share(from, "CONSUMED", o, x)
                                      + Share(status, "CONSUMED", o, x)
      BY <2>2, MoveReservationType DEF OwnershipInv
    <3>3. reserved'[x] + ordered'[x] <= reserved[x] + ordered[x]
      BY <2>1, <3>1, <3>2 DEF Share, OwnershipInv, TypeOK
    <3>4. reserved'[x] \in Nat /\ ordered'[x] \in Nat
      BY <2>2, MoveReservationType DEF OwnershipInv
    <3> QED
      BY <2>1, <3>3, <3>4 DEF NoOversell, OwnershipInv, TypeOK
  <2> QED
    BY <2>3 DEF NoOversell
<1>3. ASSUME NEW newLimits \in RoundLimits, NEW newWindow \in Windows,
             UpdateRound(newLimits, newWindow)
      PROVE  NoOversell'
  <2>1. ASSUME limit' # limit, NEW x \in Resources
        PROVE  reserved[x] + ordered[x] <= limit'[x]
    <3>1. ~HasRoundUsage
      BY <1>3, <2>1 DEF UpdateRound
    <3>2. CASE x \in RoundResources
      <4>1. reserved[x] = 0 /\ ordered[x] = 0
        BY <3>1, <3>2 DEF HasRoundUsage, OwnershipInv, TypeOK
      <4>2. limit'[x] \in Nat
        BY <1>3, <3>2, ConstantsAssumption DEF UpdateRound
      <4> QED
        BY <4>1, <4>2
    <3>3. CASE x \notin RoundResources
      BY <1>3, <3>3 DEF UpdateRound, NoOversell
    <3> QED
      BY <3>2, <3>3
  <2>2. UNCHANGED <<reserved, ordered>>
    BY <1>3 DEF UpdateRound
  <2> QED
    BY <2>1, <2>2 DEF NoOversell
<1>4. ASSUME NEW s \in Stocks, NEW amount \in 0 .. StockBound, NEW adds \in BOOLEAN,
             UpdateStock(s, amount, adds)
      PROVE  NoOversell'
  <2>1. limit' = [limit EXCEPT ![s] = StockBase(s, adds) + amount] /\ UNCHANGED <<reserved, ordered>>
    BY <1>4 DEF UpdateStock
  <2>2. reserved[s] + ordered[s] <= StockBase(s, adds) + amount
    BY DEF StockBase, NoOversell, OwnershipInv, TypeOK, Resources
  <2> QED
    BY <2>1, <2>2 DEF NoOversell, OwnershipInv, TypeOK, Resources
<1>5. CASE UNCHANGED <<reserved, ordered, limit>>
  BY <1>5 DEF NoOversell
<1>6. ASSUME NEW o \in Orders, OrderStep(o)
      PROVE  \/ CreateOrder(o) \/ FinalizeLatePaidOrder(o)
             \/ FinalizePaidOrder(o)
             \/ \E reason \in {"timeout", "other"} : CancelPendingOrder(o, reason)
             \/ CancelOrder(o)
             \/ UNCHANGED <<reserved, ordered, limit>>
  BY <1>6 DEF OrderStep, UpdateOrderStatus, PayRedeliveryFee
<1>7. ASSUME RoundStep
      PROVE  \/ \E newLimits \in RoundLimits, newWindow \in Windows :
                  UpdateRound(newLimits, newWindow)
             \/ UNCHANGED <<reserved, ordered, limit>>
  BY <1>7 DEF RoundStep, RefreshStatus, UpdateRoundStatus, CompleteRound, ClaimRoundCancellation,
     RecordCancellationFailure, FinalizeRoundCancellation, PassTime, RoundUnchanged
<1>8. ASSUME NEW r \in Reservations, Lapse(r)
      PROVE  UNCHANGED <<reserved, ordered, limit>>
  BY <1>8 DEF Lapse
<1> QED
  BY <1>1, <1>2, <1>3, <1>4, <1>5, <1>6, <1>7, <1>8 DEF Next, vars

LEMMA InitNoOversell ==
  ASSUME Init
  PROVE  NoOversell
<1>1. TypeOK
  BY InitOwnership DEF OwnershipInv
<1> QED
  BY <1>1 DEF Init, TypeOK, NoOversell

(* No resource is ever sold beyond its limit: not the round's addresses or *)
(* item quantity, not an item, not an option stock.                        *)
THEOREM NothingOversold == Spec => []NoOversell
<1>1. Init => NoOversell
  BY InitNoOversell
<1>2. OwnershipInv /\ NoOversell /\ [Next]_vars => NoOversell'
  BY NextNoOversell
<1> QED
  BY <1>1, <1>2, OwnershipInvariant, PTL DEF Spec

(***************************************************************************)
(* heldOrderCount.  A redelivery fee is known only while an order waits on *)
(* hold or has been moved from there to PREPARING, which is what makes the *)
(* count inductive.                                                        *)
(***************************************************************************)
RedeliveryBelongsToHold ==
  \A o \in Orders : RedeliveryRequired(o) => order[o].status \in {"DELIVERY_HELD", "PREPARING"}

HeldInv == HeldOrdersCounted /\ RedeliveryBelongsToHold

(* When one order changes, the count must change by the difference that    *)
(* order makes.                                                            *)
LEMMA HeldOfChange ==
  ASSUME OwnershipInv, HeldInv, NEW o \in Orders, NEW next \in OrderRecords,
         order' = [order EXCEPT ![o] = next],
         next.redelivery # "none" => next.status \in {"DELIVERY_HELD", "PREPARING"},
         NEW before \in {0, 1}, before = 1 <=> HoldCounted(o),
         NEW after \in {0, 1},
         after = 1 <=> \/ next.status = "DELIVERY_HELD"
                       \/ next.status = "PREPARING" /\ next.redelivery # "none",
         heldOrderCount' = heldOrderCount - before + after
  PROVE  HeldInv'
<1> DEFINE H == {p \in Orders : HoldCounted(p)}
           G == {p \in Orders : \/ order'[p].status = "DELIVERY_HELD"
                                \/ order'[p].status = "PREPARING" /\ order'[p].redelivery # "none"}
           rest == H \ {o}
<1>1. \A p \in Orders : order'[p] = IF p = o THEN next ELSE order[p]
  BY DEF OwnershipInv, TypeOK
<1>2. RedeliveryBelongsToHold'
  BY <1>1 DEF HeldInv, RedeliveryBelongsToHold, RedeliveryRequired
<1>3. HeldOrdersCounted' <=> heldOrderCount' = Cardinality(G)
  BY DEF HeldOrdersCounted, HoldCounted, RedeliveryRequired
<1>4. rest = G \ {o}
  BY <1>1 DEF HoldCounted, RedeliveryRequired
<1>5. (o \in H <=> before = 1) /\ (o \in G <=> after = 1)
  BY <1>1
<1>6. IsFiniteSet(H) /\ IsFiniteSet(G) /\ IsFiniteSet(rest)
  <2>1. H \subseteq Orders /\ G \subseteq Orders /\ rest \subseteq Orders /\ IsFiniteSet(Orders)
    BY ConstantsAssumption
  <2> HIDE DEF H, G, rest
  <2> QED
    BY <2>1, FS_Subset
<1>7. heldOrderCount = Cardinality(H)
  BY DEF HeldInv, HeldOrdersCounted
<1>8. Cardinality(H) = Cardinality(rest) + before
  <2>1. CASE before = 1
    <3>1. o \in H
      BY <1>5, <2>1
    <3>2. Cardinality(H \ {o}) = Cardinality(H) - 1
      BY <1>6, <3>1, FS_RemoveElement
    <3>3. Cardinality(H) \in Nat
      BY <1>6, FS_CardinalityType
    <3> HIDE DEF H
    <3> QED
      BY <2>1, <3>2, <3>3
  <2>2. CASE before = 0
    <3>1. rest = H
      BY <1>5, <2>2
    <3>2. Cardinality(H) \in Nat
      BY <1>6, FS_CardinalityType
    <3> HIDE DEF H, rest
    <3> QED
      BY <2>2, <3>1, <3>2
  <2> QED
    BY <2>1, <2>2
<1>9. Cardinality(G) = Cardinality(rest) + after
  <2>1. CASE after = 1
    <3>1. o \in G
      BY <1>5, <2>1
    <3>2. Cardinality(G \ {o}) = Cardinality(G) - 1
      BY <1>6, <3>1, FS_RemoveElement
    <3>3. Cardinality(G) \in Nat
      BY <1>6, FS_CardinalityType
    <3> HIDE DEF G, rest
    <3> QED
      BY <1>4, <2>1, <3>2, <3>3
  <2>2. CASE after = 0
    <3>1. rest = G
      BY <1>4, <1>5, <2>2
    <3>2. Cardinality(G) \in Nat
      BY <1>6, FS_CardinalityType
    <3> HIDE DEF G, rest
    <3> QED
      BY <2>2, <3>1, <3>2
  <2> QED
    BY <2>1, <2>2
<1>10. Cardinality(rest) \in Nat
  BY <1>6, FS_CardinalityType
<1> HIDE DEF H, G, rest
<1>11. heldOrderCount' = Cardinality(G)
  BY <1>7, <1>8, <1>9, <1>10
<1> QED
  BY <1>2, <1>3, <1>11 DEF HeldInv

(* Steps that change no order leave the count alone. *)
LEMMA HeldUnchanged ==
  ASSUME HeldInv, UNCHANGED <<order, heldOrderCount>>
  PROVE  HeldInv'
BY DEF HeldInv, HeldOrdersCounted, RedeliveryBelongsToHold, HoldCounted, RedeliveryRequired

(* Steps that begin and end outside of a hold. *)
LEMMA HeldNotConcerned ==
  ASSUME OwnershipInv, HeldInv, NEW o \in Orders, NEW next \in OrderRecords,
         order' = [order EXCEPT ![o] = next],
         ~HoldCounted(o), next.redelivery = "none",
         next.status \notin {"DELIVERY_HELD", "PREPARING"}, UNCHANGED heldOrderCount
  PROVE  HeldInv'
<1>1. PICK zero \in {0, 1} : zero = 0
  OBVIOUS
<1>2. heldOrderCount' = heldOrderCount - zero + zero
  BY <1>1 DEF OwnershipInv, TypeOK
<1>3. zero = 1 <=> HoldCounted(o)
  BY <1>1
<1>4. zero = 1 <=> \/ next.status = "DELIVERY_HELD"
                   \/ next.status = "PREPARING" /\ next.redelivery # "none"
  BY <1>1
<1> QED
  BY <1>2, <1>3, <1>4, HeldOfChange

LEMMA CancelOrderHeld ==
  ASSUME OwnershipInv, HeldInv, NEW o \in Orders, CancelOrder(o)
  PROVE  HeldInv'
<1> DEFINE next == [order[o] EXCEPT !.status = "CANCELLED", !.cancelReason = "other",
                                    !.redelivery = "none"]
<1>1. /\ next \in OrderRecords /\ next.redelivery = "none" /\ next.status = "CANCELLED"
      /\ order' = [order EXCEPT ![o] = next]
  BY DEF CancelOrder, OwnershipInv, TypeOK, OrderRecords, OrderStatuses
<1>2. heldOrderCount' = heldOrderCount + (IF HoldCounted(o) THEN -1 ELSE 0)
  BY DEF CancelOrder, AdjustHeldOrderCount
<1> HIDE DEF next
<1>3. PICK before \in {0, 1} : before = 1 <=> HoldCounted(o)
  OBVIOUS
<1>4. PICK after \in {0, 1} : after = 0
  OBVIOUS
<1>5. heldOrderCount' = heldOrderCount - before + after
  BY <1>2, <1>3, <1>4 DEF OwnershipInv, TypeOK
<1>6. after = 1 <=> \/ next.status = "DELIVERY_HELD"
                    \/ next.status = "PREPARING" /\ next.redelivery # "none"
  BY <1>1, <1>4
<1> QED
  BY <1>1, <1>3, <1>5, <1>6, HeldOfChange

LEMMA UpdateOrderStatusHeld ==
  ASSUME OwnershipInv, HeldInv, NEW o \in Orders, NEW next \in OrderStatuses,
         NEW fee \in {"none", "unpaid"}, UpdateOrderStatus(o, next, fee)
  PROVE  HeldInv'
<1> DEFINE kept == IF next \in {"DELIVERY_HELD", "DELIVERING"} THEN fee ELSE order[o].redelivery
           changed == [order[o] EXCEPT !.status = next, !.redelivery = kept]
<1>1. order[o] \in OrderRecords
  BY DEF OwnershipInv, TypeOK
<1>2. /\ changed \in OrderRecords /\ changed.status = next /\ changed.redelivery = kept
      /\ order' = [order EXCEPT ![o] = changed]
  BY <1>1 DEF UpdateOrderStatus, OrderRecords
<1>3. heldOrderCount' = heldOrderCount + HeldOrderDelta(o, next)
  BY DEF UpdateOrderStatus, AdjustHeldOrderCount
<1>4. /\ <<order[o].status, next>> \in DeliveryTransitions
      /\ ~(next = "DELIVERY_HELD" /\ order[o].status = "PREPARING" /\ RedeliveryRequired(o))
      /\ fee # "none" => next = "DELIVERY_HELD"
  BY DEF UpdateOrderStatus
<1>5. RedeliveryRequired(o) => order[o].status \in {"DELIVERY_HELD", "PREPARING"}
  BY DEF HeldInv, RedeliveryBelongsToHold
<1>6. PICK before \in {0, 1} : before = 1 <=> HoldCounted(o)
  OBVIOUS
<1>7. PICK after \in {0, 1} :
        after = 1 <=> next = "DELIVERY_HELD" \/ (next = "PREPARING" /\ kept # "none")
  OBVIOUS
<1>8. kept # "none" => next \in {"DELIVERY_HELD", "PREPARING"}
  BY <1>4, <1>5 DEF DeliveryTransitions, RedeliveryRequired
<1>9. HeldOrderDelta(o, next) = after - before
  <2>1. next = "PREPARING" => kept = order[o].redelivery
    OBVIOUS
  <2> HIDE DEF kept, changed
  <2> USE DEF HoldCounted, RedeliveryRequired
  <2>2. CASE next = "DELIVERY_HELD"
    <3>1. before = 0 /\ after = 1
      <4>1. order[o].status \in {"PREPARING", "DELIVERING"} /\ ~HoldCounted(o)
        BY <1>4, <1>5, <2>2 DEF DeliveryTransitions
      <4>2. before = 0
        BY <1>6, <4>1
      <4>3. after = 1
        BY <1>7, <2>2
      <4> QED
        BY <4>2, <4>3
    <3> QED
      BY <2>2, <3>1 DEF HeldOrderDelta
  <2>3. CASE next # "DELIVERY_HELD" /\ before = 1
    <3>1. order[o].status \in {"DELIVERY_HELD", "PREPARING"} /\ next \in {"PREPARING", "DELIVERING"}
      BY <1>4, <1>6, <2>3 DEF DeliveryTransitions
    <3>2. after = 1 <=> next = "PREPARING" /\ order[o].redelivery # "none"
      BY <1>7, <2>1, <2>3
    <3>3. order[o].status = "PREPARING" => next = "DELIVERING" /\ order[o].redelivery # "none"
      BY <1>4, <1>6, <2>3 DEF DeliveryTransitions
    <3> QED
      BY <2>3, <3>1, <3>2, <3>3 DEF HeldOrderDelta
  <2>4. CASE next # "DELIVERY_HELD" /\ before = 0
    <3>1. order[o].status # "DELIVERY_HELD" /\ order[o].redelivery = "none"
      BY <1>5, <1>6, <2>4
    <3>2. after = 0
      BY <1>7, <2>1, <2>4, <3>1
    <3> QED
      BY <2>4, <3>1, <3>2 DEF HeldOrderDelta
  <2> QED
    BY <2>2, <2>3, <2>4
<1>10. heldOrderCount' = heldOrderCount - before + after
  BY <1>3, <1>9 DEF OwnershipInv, TypeOK
<1> HIDE DEF changed, kept
<1>11. /\ after = 1 <=> \/ changed.status = "DELIVERY_HELD"
                        \/ changed.status = "PREPARING" /\ changed.redelivery # "none"
       /\ changed.redelivery # "none" => changed.status \in {"DELIVERY_HELD", "PREPARING"}
  BY <1>2, <1>7, <1>8
<1> QED
  BY <1>2, <1>6, <1>10, <1>11, HeldOfChange

LEMMA OrderStepHeld ==
  ASSUME OwnershipInv, HeldInv, NEW o \in Orders, OrderStep(o)
  PROVE  HeldInv'
<1>1. order[o] \in OrderRecords /\ (order[o].status \notin {"DELIVERY_HELD", "PREPARING"} =>
                                    ~HoldCounted(o) /\ order[o].redelivery = "none")
  BY DEF OwnershipInv, TypeOK, HeldInv, RedeliveryBelongsToHold, RedeliveryRequired, HoldCounted
<1>2. CASE CreateOrder(o)
  <2> DEFINE next == [status |-> "PENDING", cancelReason |-> "none",
                      reservation |-> CheckoutReservation(o), redelivery |-> "none"]
  <2>1. next \in OrderRecords /\ next.redelivery = "none" /\ next.status = "PENDING"
    BY ReservationOfOrder DEF OrderRecords, OrderStatuses
  <2>2. /\ order[o].status = "NONE" /\ order' = [order EXCEPT ![o] = next]
        /\ UNCHANGED heldOrderCount
    BY <1>2 DEF CreateOrder
  <2> HIDE DEF next
  <2> QED
    BY <1>1, <2>1, <2>2, HeldNotConcerned
<1>3. CASE FinalizePaidOrder(o)
  <2> DEFINE next == [order[o] EXCEPT !.status = "ACCEPTED"]
  <2>1. /\ order[o].status = "PENDING" /\ order' = [order EXCEPT ![o] = next]
        /\ UNCHANGED heldOrderCount
    BY <1>3 DEF FinalizePaidOrder
  <2>2. next \in OrderRecords /\ next.redelivery = "none" /\ next.status = "ACCEPTED"
    BY <1>1, <2>1 DEF OrderRecords, OrderStatuses
  <2> HIDE DEF next
  <2> QED
    BY <1>1, <2>1, <2>2, HeldNotConcerned
<1>4. CASE FinalizeLatePaidOrder(o)
  <2> DEFINE next == [order[o] EXCEPT !.status = "ACCEPTED", !.reservation = LateReservation(o)]
  <2>1. /\ order[o].status = "CANCELLED" /\ order' = [order EXCEPT ![o] = next]
        /\ UNCHANGED heldOrderCount
    BY <1>4 DEF FinalizeLatePaidOrder
  <2>2. next \in OrderRecords /\ next.redelivery = "none" /\ next.status = "ACCEPTED"
    BY <1>1, <2>1, ReservationOfOrder DEF OrderRecords, OrderStatuses
  <2> HIDE DEF next
  <2> QED
    BY <1>1, <2>1, <2>2, HeldNotConcerned
<1>5. ASSUME NEW reason \in {"timeout", "other"}, CancelPendingOrder(o, reason)
      PROVE  HeldInv'
  <2> DEFINE next == [order[o] EXCEPT !.status = "CANCELLED", !.cancelReason = reason]
  <2>1. /\ order[o].status = "PENDING" /\ order' = [order EXCEPT ![o] = next]
        /\ UNCHANGED heldOrderCount
    BY <1>5 DEF CancelPendingOrder
  <2>2. next \in OrderRecords /\ next.redelivery = "none" /\ next.status = "CANCELLED"
    BY <1>1, <2>1 DEF OrderRecords, OrderStatuses
  <2> HIDE DEF next
  <2> QED
    BY <1>1, <2>1, <2>2, HeldNotConcerned
<1>6. CASE PayRedeliveryFee(o)
  <2> DEFINE next == [order[o] EXCEPT !.redelivery = "paid"]
  <2>1. /\ HoldCounted(o) /\ order[o].redelivery # "none" /\ order' = [order EXCEPT ![o] = next]
        /\ UNCHANGED heldOrderCount
    BY <1>6 DEF PayRedeliveryFee
  <2>2. /\ next \in OrderRecords /\ next.redelivery = "paid" /\ next.status = order[o].status
        /\ order[o].status \in {"DELIVERY_HELD", "PREPARING"}
    BY <1>1, <2>1 DEF OrderRecords, HoldCounted
  <2>3. PICK one \in {0, 1} : one = 1
    OBVIOUS
  <2>4. heldOrderCount' = heldOrderCount - one + one
    BY <2>1, <2>3 DEF OwnershipInv, TypeOK
  <2>5. one = 1 <=> HoldCounted(o)
    BY <2>1, <2>3
  <2>6. one = 1 <=> \/ next.status = "DELIVERY_HELD"
                    \/ next.status = "PREPARING" /\ next.redelivery # "none"
    BY <2>2, <2>3
  <2> HIDE DEF next
  <2> QED
    BY <2>1, <2>2, <2>4, <2>5, <2>6, HeldOfChange
<1> QED
  BY <1>2, <1>3, <1>4, <1>5, <1>6, CancelOrderHeld, UpdateOrderStatusHeld DEF OrderStep

LEMMA NextHeld ==
  ASSUME OwnershipInv, HeldInv, [Next]_vars
  PROVE  HeldInv'
<1>1. CASE UNCHANGED <<order, heldOrderCount>>
  BY <1>1, HeldUnchanged
<1>2. RoundStep => UNCHANGED <<order, heldOrderCount>>
  BY DEF RoundStep, RefreshStatus, UpdateRoundStatus, CompleteRound, ClaimRoundCancellation,
         RecordCancellationFailure, FinalizeRoundCancellation, UpdateRound, PassTime,
         RoundUnchanged
<1> QED
  BY <1>1, <1>2, OrderStepHeld DEF Next, Lapse, UpdateStock, vars

LEMMA InitHeld ==
  ASSUME Init
  PROVE  HeldInv
<1>1. {o \in Orders : HoldCounted(o)} = {}
  BY DEF Init, HoldCounted
<1> QED
  BY <1>1, FS_EmptySet DEF Init, HeldInv, HeldOrdersCounted, RedeliveryBelongsToHold,
                           RedeliveryRequired

(* heldOrderCount is exactly the number of orders on hold, whatever holds, *)
(* fees, resumptions and cancellations came before.                        *)
THEOREM HeldOrders == Spec => []HeldOrdersCounted
<1>1. Init => HeldInv
  BY InitHeld
<1>2. OwnershipInv /\ HeldInv /\ [Next]_vars => HeldInv'
  BY NextHeld
<1>3. HeldInv => HeldOrdersCounted
  BY DEF HeldInv
<1> QED
  BY <1>1, <1>2, <1>3, OwnershipInvariant, PTL DEF Spec

(***************************************************************************)
(* Finished rounds.                                                        *)
(***************************************************************************)
Finished == {"COMPLETED", "CANCELLED"}

(* The clock and the counters never finish a round, and a finished round   *)
(* admits no checkout.                                                     *)
LEMMA EffectiveRoundFinished ==
  ASSUME TypeOK
  PROVE  /\ EffectiveRound.status \in Finished => round.status \in Finished
         /\ round.status \in Finished => ~OrderWindowOpen(EffectiveRound, window)
<1>1. round.status \in Finished => EffectiveRound = round
  BY DEF Finished, EffectiveRound, ResolveAutomaticState
<1>2. EffectiveRound = round \/ EffectiveRound.status \in {"OPEN", "CLOSED"}
  BY DEF TypeOK, Rounds, EffectiveRound, ResolveAutomaticState, Opened, Closed
<1>3. "OPEN" \notin Finished /\ "CLOSED" \notin Finished
  BY DEF Finished
<1> QED
  BY <1>1, <1>2, <1>3 DEF OrderWindowOpen

(* When no order is under way, nothing is held in any sense. *)
LEMMA NothingUnfinished ==
  ASSUME OwnershipInv, HeldOrdersCounted, \A o \in Orders : ~OrderUnfinished(o)
  PROVE  WithStatus("HELD") = {} /\ heldOrderCount = 0
<1>1. \A r \in Reservations : reservation[r].status # "HELD"
  <2> SUFFICES ASSUME NEW r \in Reservations, reservation[r].status = "HELD"
               PROVE  FALSE
    OBVIOUS
  <2> DEFINE o == reservation[r].order
  <2>1. o \in Orders /\ order[o].reservation = r /\ order[o].status # "NONE"
    BY DEF OwnershipInv, OrdersOwnTheirReservations, WithStatus
  <2>2. order[o].status \in {"DELIVERED", "CANCELLED"}
    BY <2>1 DEF OrderUnfinished
  <2>3. "HELD" \in ReservationStatusFor(order[o].status)
    BY <2>1, OwnedReservation
  <2> QED
    BY <2>2, <2>3 DEF ReservationStatusFor
<1>2. {o \in Orders : HoldCounted(o)} = {}
  BY DEF OrderUnfinished, HoldCounted
<1> QED
  BY <1>1, <1>2, FS_EmptySet DEF WithStatus, HeldOrdersCounted

LEMMA NextFinished ==
  ASSUME OwnershipInv, HeldOrdersCounted, FinishedRoundIsSettled, [Next]_vars
  PROVE  FinishedRoundIsSettled'
<1> SUFFICES ASSUME round'.status \in Finished
             PROVE  /\ \A o \in Orders : ~OrderUnfinished(o)'
                    /\ WithStatus("HELD")' = {}
                    /\ heldOrderCount' = 0
  BY DEF FinishedRoundIsSettled, Finished
<1> DEFINE settled == (\A o \in Orders : ~OrderUnfinished(o)) /\ UNCHANGED <<order, reservation, heldOrderCount>>
<1>1. SUFFICES settled
  BY NothingUnfinished DEF OrderUnfinished, WithStatus
<1>2. ASSUME round.status \in Finished
      PROVE  settled
  <2>1. (\A o \in Orders : ~OrderUnfinished(o)) /\ WithStatus("HELD") = {}
    BY <1>2 DEF FinishedRoundIsSettled, Finished
  <2>2. ASSUME NEW o \in Orders, OrderStep(o)
        PROVE  FALSE
    <3>1. order[o].status \in {"NONE", "DELIVERED", "CANCELLED"}
      BY <2>1 DEF OrderUnfinished
    <3>2. ~CreateOrder(o) /\ ~FinalizeLatePaidOrder(o)
      BY <1>2, EffectiveRoundFinished DEF CreateOrder, FinalizeLatePaidOrder, OwnershipInv
    <3> QED
      BY <2>2, <3>1, <3>2
         DEF OrderStep, FinalizePaidOrder, CancelPendingOrder, CancelOrder, CancellableStatuses,
             UpdateOrderStatus, DeliveryTransitions, PayRedeliveryFee, HoldCounted
  <2>3. ASSUME NEW r \in Reservations, Lapse(r)
        PROVE  FALSE
    BY <2>1, <2>3 DEF Lapse, WithStatus
  <2>4. RoundStep => UNCHANGED <<order, reservation, heldOrderCount>>
    BY DEF RoundStep, RefreshStatus, UpdateRoundStatus, CompleteRound, ClaimRoundCancellation,
           RecordCancellationFailure, FinalizeRoundCancellation, UpdateRound, PassTime,
           RoundUnchanged
  <2> QED
    BY <2>1, <2>2, <2>3, <2>4 DEF Next, UpdateStock, vars
<1>3. ASSUME round.status \notin Finished
      PROVE  settled
  <2>1. TypeOK
    BY DEF OwnershipInv
  <2>2. ASSUME NEW o \in Orders, OrderStep(o)
        PROVE  FALSE
    <3>1. round' \in {round, EffectiveRound}
      BY <2>2 DEF OrderStep, CreateOrder, FinalizePaidOrder, FinalizeLatePaidOrder,
         CancelPendingOrder, CancelOrder, UpdateOrderStatus, PayRedeliveryFee
    <3> QED
      BY <1>3, <2>1, <3>1, EffectiveRoundFinished
  <2>3. CASE RoundStep
    <3>1. CASE CompleteRound
      BY <3>1 DEF CompleteRound, RoundUnchanged
    <3>2. CASE FinalizeRoundCancellation
      BY <3>2 DEF FinalizeRoundCancellation, RoundUnchanged
    <3>3. CASE RefreshStatus
      BY <1>3, <2>1, <3>3, EffectiveRoundFinished DEF RefreshStatus
    <3>4. CASE \E next \in {"SCHEDULED", "OPEN", "CLOSED"} : UpdateRoundStatus(next)
      BY <2>1, <3>4 DEF UpdateRoundStatus, Finished, TypeOK, Rounds
    <3>5. CASE ClaimRoundCancellation \/ RecordCancellationFailure
      BY <1>3, <2>1, <3>5
         DEF ClaimRoundCancellation, RecordCancellationFailure, TypeOK, Rounds
    <3>6. CASE \/ \E newLimits \in RoundLimits, newWindow \in Windows :
                    UpdateRound(newLimits, newWindow)
               \/ PassTime
      BY <1>3, <3>6 DEF UpdateRound, PassTime
    <3> QED
      BY <2>3, <3>1, <3>2, <3>3, <3>4, <3>5, <3>6 DEF RoundStep
  <2> QED
    BY <1>3, <2>2, <2>3 DEF Next, Lapse, UpdateStock, vars
<1> QED
  BY <1>2, <1>3

LEMMA FinishedRounds == Spec => []FinishedRoundIsSettled
<1>1. Init => FinishedRoundIsSettled
  BY DEF Init, FinishedRoundIsSettled
<1>2. /\ OwnershipInv /\ HeldOrdersCounted /\ FinishedRoundIsSettled /\ [Next]_vars
         => FinishedRoundIsSettled'
  BY NextFinished
<1> QED
  BY <1>1, <1>2, OwnershipInvariant, HeldOrders, PTL DEF Spec

Editable == {"DRAFT", "SCHEDULED"}

(* Neither clock and counters nor the seller make a round editable again. *)
LEMMA NextEditable ==
  ASSUME OwnershipInv, EditableRoundIsUnused, [Next]_vars
  PROVE  EditableRoundIsUnused'
<1>0. TypeOK /\ round \in Rounds
  BY DEF OwnershipInv, TypeOK
<1>1. EffectiveRound = round \/ EffectiveRound.status \in {"OPEN", "CLOSED"}
  BY <1>0 DEF Rounds, EffectiveRound, ResolveAutomaticState, Opened, Closed
<1>2. "OPEN" \notin Editable /\ "CLOSED" \notin Editable
  BY DEF Editable
<1>3. ASSUME NEW o \in Orders, OrderStep(o)
      PROVE  EditableRoundIsUnused'
  <2>1. SUFFICES ASSUME round'.status \in Editable PROVE FALSE
    BY DEF EditableRoundIsUnused, Editable
  <2>2. round' \in {round, EffectiveRound}
    BY <1>3 DEF OrderStep, CreateOrder, FinalizePaidOrder, FinalizeLatePaidOrder,
       CancelPendingOrder, CancelOrder, UpdateOrderStatus, PayRedeliveryFee
  <2>3. round'.status = round.status /\ order[o].status = "NONE"
    BY <1>1, <1>2, <2>1, <2>2 DEF EditableRoundIsUnused, Editable
  <2>4. CreateOrder(o)
    BY <1>3, <2>3
       DEF OrderStep, FinalizePaidOrder, FinalizeLatePaidOrder, CancelPendingOrder, CancelOrder,
           CancellableStatuses, UpdateOrderStatus, DeliveryTransitions, PayRedeliveryFee, HoldCounted
  <2> QED
    BY <1>2, <2>1, <2>4 DEF CreateOrder, OrderWindowOpen
<1>4. ASSUME RoundStep
      PROVE  EditableRoundIsUnused'
  <2>1. UNCHANGED order
    BY <1>4 DEF RoundStep, RefreshStatus, UpdateRoundStatus, CompleteRound, ClaimRoundCancellation,
       RecordCancellationFailure, FinalizeRoundCancellation, UpdateRound, PassTime, RoundUnchanged
  <2>2. SUFFICES round'.status \in Editable => round.status \in Editable
    BY <2>1 DEF EditableRoundIsUnused, Editable
  <2>3. CASE RefreshStatus
    BY <1>1, <1>2, <2>3 DEF RefreshStatus
  <2>4. CASE \E next \in {"SCHEDULED", "OPEN", "CLOSED"} : UpdateRoundStatus(next)
    BY <1>0, <2>4 DEF UpdateRoundStatus, NextStatuses, Editable, Rounds
  <2>5. CASE CompleteRound \/ FinalizeRoundCancellation
    BY <1>0, <2>5 DEF CompleteRound, FinalizeRoundCancellation, Editable, Rounds
  <2>6. CASE ClaimRoundCancellation \/ RecordCancellationFailure
    BY <1>0, <2>6 DEF ClaimRoundCancellation, RecordCancellationFailure, Rounds
  <2>7. CASE \/ \E newLimits \in RoundLimits, newWindow \in Windows :
                  UpdateRound(newLimits, newWindow)
             \/ PassTime
    BY <2>7 DEF UpdateRound, PassTime
  <2> QED
    BY <1>4, <2>3, <2>4, <2>5, <2>6, <2>7 DEF RoundStep
<1>5. CASE UNCHANGED <<round, order>>
  BY <1>5 DEF EditableRoundIsUnused
<1> QED
  BY <1>3, <1>4, <1>5 DEF Next, Lapse, UpdateStock, vars

(* A round is editable only before its first order, and a completed or     *)
(* cancelled one leaves no order under way, no hold on its capacity and    *)
(* nothing counted as held.                                                *)
THEOREM RoundStatusIsRight == Spec => []RoundStatusFitsItsOrders
<1>1. Init => EditableRoundIsUnused
  BY DEF Init, EditableRoundIsUnused
<1>2. OwnershipInv /\ EditableRoundIsUnused /\ [Next]_vars => EditableRoundIsUnused'
  BY NextEditable
<1>3. EditableRoundIsUnused /\ FinishedRoundIsSettled => RoundStatusFitsItsOrders
  BY DEF RoundStatusFitsItsOrders
<1> QED
  BY <1>1, <1>2, <1>3, OwnershipInvariant, FinishedRounds, PTL DEF Spec

(***************************************************************************)
(* How a reservation ages: all steps but a checkout's and a late payment's *)
(* leave it as it is, settle it, or let its hold lapse.                    *)
(***************************************************************************)
Later(before, after) ==
  /\ after.order = before.order /\ (before.lapsed => after.lapsed)
  /\ \/ after.status = before.status
     \/ before.status = "HELD" /\ after.status \in {"CONSUMED", "RELEASED", "EXPIRED"}
     \/ before.status = "CONSUMED" /\ after.status = "RELEASED"

ReservationsAge == \A r \in Reservations : Later(reservation[r], reservation'[r])

(* A handler that settles an order's own reservation. *)
LEMMA BecomingAges ==
  ASSUME OwnershipInv, NEW o \in Orders, order[o].status # "NONE", NEW status,
         Become(order[o].reservation, status),
         \/ status = reservation[order[o].reservation].status
         \/ /\ reservation[order[o].reservation].status = "HELD"
            /\ status \in {"CONSUMED", "RELEASED", "EXPIRED"}
         \/ reservation[order[o].reservation].status = "CONSUMED" /\ status = "RELEASED"
  PROVE  ReservationsAge
<1> DEFINE r == order[o].reservation
           next == [reservation[r] EXCEPT !.status = status]
<1>1. r \in Reservations /\ reservation[r] \in ReservationRecords
  BY OwnedReservation
<1>2. reservation' = [reservation EXCEPT ![r] = next]
  BY DEF Become, MoveReservation
<1>3. next.order = reservation[r].order /\ next.lapsed = reservation[r].lapsed /\ next.status = status
  BY <1>1 DEF ReservationRecords
<1>4. Later(reservation[r], next)
  BY <1>3 DEF Later
<1> HIDE DEF next
<1>5. \A s \in Reservations : reservation'[s] = IF s = r THEN next ELSE reservation[s]
  BY <1>2 DEF OwnershipInv, TypeOK
<1> QED
  BY <1>4, <1>5 DEF ReservationsAge, Later

(* Only a checkout and a late payment make a new reservation. *)
LEMMA OthersAge ==
  ASSUME OwnershipInv, [Next]_vars,
         \A o \in Orders : ~CreateOrder(o) /\ ~FinalizeLatePaidOrder(o)
  PROVE  ReservationsAge
<1>1. ASSUME NEW o \in Orders, FinalizePaidOrder(o) PROVE ReservationsAge
  BY <1>1, BecomingAges DEF FinalizePaidOrder
<1>2. ASSUME NEW o \in Orders, NEW reason \in {"timeout", "other"}, CancelPendingOrder(o, reason)
      PROVE  ReservationsAge
  <2>1. PICK status \in {"RELEASED", "EXPIRED"} : Become(order[o].reservation, status)
    BY <1>2 DEF CancelPendingOrder
  <2> QED
    BY <1>2, <2>1, BecomingAges DEF CancelPendingOrder
<1>3. ASSUME NEW o \in Orders, CancelOrder(o) PROVE ReservationsAge
  <2>1. order[o].status # "NONE"
    BY <1>3 DEF CancelOrder, CancellableStatuses
  <2>2. CASE reservation[order[o].reservation].status \in {"HELD", "CONSUMED"}
    BY <1>3, <2>1, <2>2, BecomingAges DEF CancelOrder
  <2>3. CASE reservation[order[o].reservation].status \notin {"HELD", "CONSUMED"}
    BY <1>3, <2>1, <2>3, BecomingAges DEF CancelOrder
  <2> QED
    BY <2>2, <2>3
<1>4. ASSUME NEW r \in Reservations, Lapse(r) PROVE ReservationsAge
  <2>1. reservation' = [reservation EXCEPT ![r] = [@ EXCEPT !.lapsed = TRUE]]
    BY <1>4 DEF Lapse
  <2> QED
    BY <2>1 DEF OwnershipInv, TypeOK, ReservationRecords, ReservationsAge, Later
<1>5. UNCHANGED reservation => ReservationsAge
  BY DEF ReservationsAge, Later
<1>6. ASSUME NEW o \in Orders, OrderStep(o) PROVE ReservationsAge
  BY <1>1, <1>2, <1>3, <1>5, <1>6 DEF OrderStep, UpdateOrderStatus, PayRedeliveryFee
<1>7. RoundStep => UNCHANGED reservation
  BY DEF RoundStep, RefreshStatus, UpdateRoundStatus, CompleteRound, ClaimRoundCancellation,
         RecordCancellationFailure, FinalizeRoundCancellation, UpdateRound, PassTime, RoundUnchanged
<1> QED
  BY <1>4, <1>5, <1>6, <1>7 DEF Next, UpdateStock, vars

(* The reservation a checkout makes, or a late payment. *)
LEMMA AcquisitionWrites ==
  ASSUME OwnershipInv, NEW o \in Orders, CreateOrder(o) \/ FinalizeLatePaidOrder(o)
  PROVE  \E r \in {CheckoutReservation(o), LateReservation(o)}, status \in {"HELD", "CONSUMED"} :
           /\ reservation[r].status = "NONE" /\ r \in Reservations
           /\ reservation' = [reservation EXCEPT ![r] = [status |-> status, order |-> o, lapsed |-> FALSE]]
           /\ r = CheckoutReservation(o) <=> CreateOrder(o)
           /\ round.cancellation = "none" /\ limit' = limit
<1>1. EffectiveRound.cancellation = round.cancellation
  BY DEF OwnershipInv, TypeOK, Rounds, EffectiveRound, ResolveAutomaticState, Opened, Closed
<1>2. CheckoutReservation(o) # LateReservation(o)
  BY DEF CheckoutReservation, LateReservation
<1>3. CreateOrder(o) => ~FinalizeLatePaidOrder(o)
  BY DEF CreateOrder, FinalizeLatePaidOrder
<1>4. CASE CreateOrder(o)
  BY <1>1, <1>2, <1>4, ReservationOfOrder
     DEF CreateOrder, MoveReservation, ReservationAvailable, OrderWindowOpen
<1>5. CASE FinalizeLatePaidOrder(o)
  BY <1>1, <1>2, <1>3, <1>5, ReservationOfOrder
     DEF FinalizeLatePaidOrder, MoveReservation, OrderWindowOpen
<1> QED
  BY <1>4, <1>5

(* A reservation nobody made yet names no order. *)
UnusedBelongsToNobody ==
  \A r \in Reservations : reservation[r].status = "NONE" => reservation[r].order = NoOrder

(* No step names an order in a reservation it does not make. *)
LEMMA NextUnused ==
  ASSUME OwnershipInv, UnusedBelongsToNobody, [Next]_vars
  PROVE  UnusedBelongsToNobody'
<1>1. CASE ReservationsAge
  BY <1>1 DEF ReservationsAge, Later, UnusedBelongsToNobody
<1>2. ASSUME NEW o \in Orders, CreateOrder(o) \/ FinalizeLatePaidOrder(o)
      PROVE  UnusedBelongsToNobody'
  <2>1. PICK r \in Reservations, status \in {"HELD", "CONSUMED"} :
          reservation' = [reservation EXCEPT ![r] = [status |-> status, order |-> o, lapsed |-> FALSE]]
    BY <1>2, AcquisitionWrites
  <2> QED
    BY <2>1 DEF OwnershipInv, TypeOK, UnusedBelongsToNobody
<1> QED
  BY <1>1, <1>2, OthersAge

(* What ReservationsMoveForward says of one step. *)
ForwardStep ==
  \A r \in Reservations :
    /\ reservation'[r].status \in ReservationSuccessors(reservation[r].status)
    /\ reservation[r].order \in {NoOrder, reservation'[r].order}
    /\ round.cancellation # "none" /\ reservation[r].status = "NONE" =>
         reservation'[r].status = "NONE"

(* Every step moves reservations forward. *)
LEMMA NextForward ==
  ASSUME OwnershipInv, UnusedBelongsToNobody, [Next]_vars
  PROVE  ForwardStep
<1>1. CASE ReservationsAge
  <2>1. ASSUME NEW r \in Reservations
        PROVE  /\ reservation'[r].status \in ReservationSuccessors(reservation[r].status)
               /\ reservation[r].order = reservation'[r].order
               /\ reservation[r].status = "NONE" => reservation'[r].status = "NONE"
    <3>1. reservation[r].status \in ReservationStatuses
      BY DEF OwnershipInv, TypeOK, ReservationRecords
    <3>2. Later(reservation[r], reservation'[r])
      BY <1>1 DEF ReservationsAge
    <3> QED
      BY <3>1, <3>2 DEF Later, ReservationSuccessors, ReservationStatuses
  <2> QED
    BY <2>1 DEF ForwardStep
<1>2. ASSUME NEW o \in Orders, CreateOrder(o) \/ FinalizeLatePaidOrder(o)
      PROVE  ForwardStep
  <2>1. PICK r \in Reservations, status \in {"HELD", "CONSUMED"} :
          /\ reservation[r].status = "NONE" /\ round.cancellation = "none"
          /\ reservation' = [reservation EXCEPT ![r] = [status |-> status, order |-> o, lapsed |-> FALSE]]
    BY <1>2, AcquisitionWrites
  <2>2. \A s \in Reservations : s # r => reservation'[s] = reservation[s]
    BY <2>1 DEF OwnershipInv, TypeOK
  <2>3. reservation'[r].status = status /\ reservation[r].order = NoOrder
    BY <2>1 DEF OwnershipInv, TypeOK, UnusedBelongsToNobody
  <2>4. \A s \in Reservations : reservation[s].status \in ReservationSuccessors(reservation[s].status)
    BY DEF OwnershipInv, TypeOK, ReservationRecords, ReservationStatuses, ReservationSuccessors
  <2>5. status \in ReservationSuccessors(reservation[r].status)
    BY <2>1 DEF ReservationSuccessors
  <2> QED
    BY <2>1, <2>2, <2>3, <2>4, <2>5 DEF ForwardStep
<1> QED
  BY <1>1, <1>2, OthersAge

(* Capacity that was given back is never revived, a reservation stays with *)
(* the order it was made for, and a round that is being cancelled gets no  *)
(* new one.                                                                *)
THEOREM ReservationsOnlyMoveForward == Spec => ReservationsMoveForward
<1>1. Init => UnusedBelongsToNobody
  BY DEF Init, UnusedBelongsToNobody
<1>2. OwnershipInv /\ UnusedBelongsToNobody /\ [Next]_vars => UnusedBelongsToNobody'
  BY NextUnused
<1>3. OwnershipInv /\ UnusedBelongsToNobody /\ [Next]_vars => [ForwardStep]_vars
  BY NextForward
<1>4. Spec => [][ForwardStep]_vars
  BY <1>1, <1>2, <1>3, OwnershipInvariant, PTL DEF Spec
<1> QED
  BY <1>4 DEF ReservationsMoveForward, ForwardStep

(***************************************************************************)
(* What one customer may take.                                             *)
(***************************************************************************)
(* What a customer has are finitely many reservations of known orders. *)
LEMMA ReservationsOfCustomer ==
  ASSUME NEW u \in Users, NEW i \in Items
  PROVE  /\ IsFiniteSet(ActiveHolds(u)) /\ IsFiniteSet(TimelyReservations(u))
         /\ \A r \in TimelyReservations(u) :
              reservation[r].order \in Orders /\ Demand(reservation[r].order, i) \in Nat
<1>1. ActiveHolds(u) \subseteq Reservations /\ TimelyReservations(u) \subseteq Reservations
  BY DEF ActiveHolds, TimelyReservations, WithStatus
<1>2. \A r \in TimelyReservations(u) : reservation[r].order \in Orders
  BY DEF TimelyReservations, OfUser
<1>3. i \in Resources
  BY DEF Resources, RoundResources
<1> QED
  BY <1>1, <1>2, <1>3, ReservationsFinite, FS_Subset, DemandType

(* The limits of CustomersKeepTheirLimits, for one customer. *)
KeepsLimits(u) ==
  /\ Cardinality(ActiveHolds(u)) <= MaxHolds
  /\ \A i \in Items : Occupied(TimelyReservations(u), i) <= PerCustomerItemLimit(i)

(* A per-customer limit is a number. *)
LEMMA LimitType ==
  ASSUME TypeOK, NEW i \in Items
  PROVE  PerCustomerItemLimit(i) \in Nat
<1>1. limit[i] \in Nat /\ MaxQuantityPerCustomer[i] \in Nat
  BY ConstantsAssumption DEF TypeOK, Resources, RoundResources
<1> QED
  BY <1>1 DEF PerCustomerItemLimit

(* A customer who only loses reservations keeps the limits. *)
LEMMA FewerReservations ==
  ASSUME TypeOK, TypeOK', NEW u \in Users, KeepsLimits(u),
         ActiveHolds(u)' \subseteq ActiveHolds(u),
         TimelyReservations(u)' \subseteq TimelyReservations(u),
         \A r \in TimelyReservations(u)' : reservation'[r].order = reservation[r].order,
         \A i \in Items : limit'[i] = limit[i]
  PROVE  KeepsLimits(u)'
<1>1. Cardinality(ActiveHolds(u)') <= Cardinality(ActiveHolds(u))
  <2>1. IsFiniteSet(ActiveHolds(u))
    BY ReservationsFinite, FS_Subset DEF ActiveHolds, WithStatus
  <2> QED
    BY <2>1, FS_Subset
<1>2. /\ Cardinality(ActiveHolds(u)) \in Nat /\ Cardinality(ActiveHolds(u)') \in Nat
  <2>1. IsFiniteSet(ActiveHolds(u))
    BY ReservationsFinite, FS_Subset DEF ActiveHolds, WithStatus
  <2> QED
    BY <2>1, FS_Subset, FS_CardinalityType
<1>3. ASSUME NEW i \in Items
      PROVE  Occupied(TimelyReservations(u), i)' <= PerCustomerItemLimit(i)'
  <2> DEFINE S == TimelyReservations(u)
             T == TimelyReservations(u)'
             p == [r \in S |-> Demand(reservation[r].order, i)]
             q == [r \in T |-> Demand(reservation'[r].order, i)]
  <2>1. IsFiniteSet(S) /\ \A r \in S : p[r] \in Nat
    BY ReservationsOfCustomer
  <2>2. T \subseteq S /\ \A r \in T : p[r] = q[r]
    OBVIOUS
  <2>3. Occupied(TimelyReservations(u), i) = Quantity(S, p)
    BY DEF Occupied
  <2>4. Occupied(TimelyReservations(u), i)' = Quantity(T, q)
    BY DEF Occupied, Demand
  <2>5. PerCustomerItemLimit(i)' = PerCustomerItemLimit(i) /\ PerCustomerItemLimit(i) \in Nat
    BY LimitType DEF PerCustomerItemLimit
  <2>6. Quantity(S, p) <= PerCustomerItemLimit(i)
    BY <2>3 DEF KeepsLimits
  <2> HIDE DEF S, T, p, q
  <2>7. Quantity(T, q) <= Quantity(S, p) /\ Quantity(T, q) \in Nat /\ Quantity(S, p) \in Nat
    <3>1. Quantity(T, q) <= Quantity(S, p)
      BY <2>1, <2>2, QuantityOfPart
    <3>2. IsFiniteSet(T) /\ \A r \in T : q[r] \in Nat
      BY <2>1, <2>2, FS_Subset
    <3> QED
      BY <2>1, <3>1, <3>2, QuantityType
  <2> QED
    BY <2>4, <2>5, <2>6, <2>7
<1> QED
  BY <1>1, <1>2, <1>3, ConstantsAssumption DEF KeepsLimits

(* Reservations that age only leave what the limits count. *)
LEMMA AgingKeepsLimits ==
  ASSUME TypeOK, TypeOK', NEW u \in Users, KeepsLimits(u), ReservationsAge,
         \A i \in Items : limit'[i] = limit[i]
  PROVE  KeepsLimits(u)'
<1>1. ActiveHolds(u)' \subseteq ActiveHolds(u)
  BY DEF ReservationsAge, Later, ActiveHolds, WithStatus, OfUser
<1>2. /\ TimelyReservations(u)' \subseteq TimelyReservations(u)
      /\ \A r \in TimelyReservations(u)' : reservation'[r].order = reservation[r].order
  BY DEF ReservationsAge, Later, TimelyReservations, WithStatus, OfUser
<1> QED
  BY <1>1, <1>2, FewerReservations

(* A late payment's reservation is not counted. *)
LEMMA LatePaymentKeepsLimits ==
  ASSUME OwnershipInv, TypeOK', NEW u \in Users, KeepsLimits(u), NEW o \in Orders,
         FinalizeLatePaidOrder(o)
  PROVE  KeepsLimits(u)'
<1>1. PICK status \in {"HELD", "CONSUMED"} :
        /\ reservation' = [reservation EXCEPT ![LateReservation(o)] =
                              [status |-> status, order |-> o, lapsed |-> FALSE]]
        /\ limit' = limit
  BY DEF FinalizeLatePaidOrder, MoveReservation
<1>2. LateReservation(o) \notin CheckoutReservations
  BY DEF LateReservation, CheckoutReservations
<1>3. \A r \in CheckoutReservations : r \in Reservations /\ reservation'[r] = reservation[r]
  BY <1>1, <1>2 DEF Reservations, OwnershipInv, TypeOK
<1>4. ActiveHolds(u)' \subseteq ActiveHolds(u)
  BY <1>3 DEF ActiveHolds, WithStatus, OfUser
<1>5. /\ TimelyReservations(u)' \subseteq TimelyReservations(u)
      /\ \A r \in TimelyReservations(u)' : reservation'[r].order = reservation[r].order
  BY <1>3 DEF TimelyReservations, WithStatus, OfUser
<1> QED
  BY <1>1, <1>4, <1>5, FewerReservations DEF OwnershipInv

(* A checkout is admitted within both limits. *)
LEMMA CheckoutKeepsLimits ==
  ASSUME OwnershipInv, TypeOK', NEW u \in Users, KeepsLimits(u), NEW o \in Orders, CreateOrder(o)
  PROVE  KeepsLimits(u)'
<1> DEFINE r == CheckoutReservation(o)
<1>1. /\ r \in CheckoutReservations /\ r \in Reservations
      /\ reservation' = [reservation EXCEPT ![r] = [status |-> "HELD", order |-> o, lapsed |-> FALSE]]
      /\ limit' = limit /\ reservation[r].status = "NONE"
      /\ HoldAvailable(UserOf[o]) /\ WithinCustomerLimits(o)
  BY ConstantsAssumption DEF CreateOrder, MoveReservation, ReservationAvailable,
     CheckoutReservation, CheckoutReservations, Reservations
<1> HIDE DEF r
<1>2. /\ \A s \in Reservations \ {r} : reservation'[s] = reservation[s]
      /\ reservation'[r] = [status |-> "HELD", order |-> o, lapsed |-> FALSE]
  BY <1>1 DEF OwnershipInv, TypeOK
<1>3. CASE u # UserOf[o]
  <2>1. ActiveHolds(u)' \subseteq ActiveHolds(u)
    BY <1>2, <1>3 DEF ActiveHolds, WithStatus, OfUser
  <2>2. /\ TimelyReservations(u)' \subseteq TimelyReservations(u)
        /\ \A s \in TimelyReservations(u)' : reservation'[s].order = reservation[s].order
    BY <1>2, <1>3 DEF TimelyReservations, WithStatus, OfUser
  <2> QED
    BY <1>1, <2>1, <2>2, FewerReservations DEF OwnershipInv
<1>4. CASE u = UserOf[o]
  <2>1. Cardinality(ActiveHolds(u)') <= MaxHolds
    <3>1. ActiveHolds(u)' = ActiveHolds(u) \union {r} /\ r \notin ActiveHolds(u)
      BY <1>1, <1>2, <1>4 DEF ActiveHolds, WithStatus, OfUser
    <3>2. IsFiniteSet(ActiveHolds(u))
      BY ReservationsFinite, FS_Subset DEF ActiveHolds, WithStatus
    <3>3. Cardinality(ActiveHolds(u)') = Cardinality(ActiveHolds(u)) + 1
      BY <3>1, <3>2, FS_AddElement
    <3>4. Cardinality(ActiveHolds(u)) \in Nat
      BY <3>2, FS_CardinalityType
    <3> QED
      BY <1>1, <1>4, <3>3, <3>4, ConstantsAssumption DEF HoldAvailable
  <2>2. ASSUME NEW i \in Items
        PROVE  Occupied(TimelyReservations(u), i)' <= PerCustomerItemLimit(i)'
    <3> DEFINE S == TimelyReservations(u)
               T == TimelyReservations(u)'
               p == [s \in S |-> Demand(reservation[s].order, i)]
               q == [s \in T |-> Demand(reservation'[s].order, i)]
               C == CustomerOwned(u)
               c == [s \in C |-> Demand(reservation[s].order, i)]
    <3>1. T = S \union {r} /\ r \notin S
      BY <1>1, <1>2, <1>4 DEF TimelyReservations, WithStatus, OfUser
    <3>2. IsFiniteSet(S) /\ \A s \in S : p[s] \in Nat
      BY ReservationsOfCustomer
    <3>3. q[r] = Lines[o][i] /\ Lines[o][i] \in Nat
      <4>1. i \notin {"addresses", "itemQuantity"} /\ Lines[o][i] \in Nat
        BY ConstantsAssumption
      <4>2. q[r] = Demand(o, i)
        BY <1>2, <3>1
      <4> QED
        BY <4>1, <4>2 DEF Demand
    <3>4. \A s \in S : q[s] = p[s]
      BY <1>2, <3>1 DEF TimelyReservations, WithStatus
    <3>5. Occupied(TimelyReservations(u), i) = Quantity(S, p)
      BY DEF Occupied
    <3>6. Occupied(TimelyReservations(u), i)' = Quantity(T, q)
      BY DEF Occupied, Demand
    <3>7. PerCustomerItemLimit(i)' = PerCustomerItemLimit(i) /\ PerCustomerItemLimit(i) \in Nat
      BY <1>1, LimitType DEF PerCustomerItemLimit, OwnershipInv
    <3>8. Quantity(S, p) <= PerCustomerItemLimit(i)
      BY <3>5 DEF KeepsLimits
    <3>9. S \subseteq C /\ \A s \in S : c[s] = p[s]
      BY DEF TimelyReservations, CustomerOwned, WithStatus, OfUser
    <3>10. IsFiniteSet(C) /\ \A s \in C : c[s] \in Nat
      <4>1. C \subseteq Reservations /\ \A s \in C : reservation[s].order \in Orders
        BY DEF CustomerOwned, WithStatus, OfUser
      <4>2. i \in Resources
        BY DEF Resources, RoundResources
      <4> QED
        BY <4>1, <4>2, ReservationsFinite, FS_Subset, DemandType
    <3>11. Lines[o][i] > 0 => Quantity(C, c) + Lines[o][i] <= PerCustomerItemLimit(i)
      BY <1>1, <1>4 DEF WithinCustomerLimits, Occupied
    <3> HIDE DEF S, T, p, q, C, c
    <3>12. Quantity(T, q) = Quantity(S, q) + q[r]
      BY <3>1, <3>2, <3>3, <3>4, QuantityWithMember
    <3>13. Quantity(S, q) = Quantity(S, p) /\ Quantity(S, p) \in Nat
      BY <3>2, <3>4, QuantityCongruence, QuantityType
    <3>14. Quantity(S, p) <= Quantity(C, c) /\ Quantity(C, c) \in Nat
      BY <3>9, <3>10, QuantityOfPart, QuantityType
    <3> QED
      BY <3>3, <3>6, <3>7, <3>8, <3>11, <3>12, <3>13, <3>14
  <2> QED
    BY <2>1, <2>2 DEF KeepsLimits
<1> QED
  BY <1>3, <1>4

(* While the round may be edited, nobody has bought or reserved anything. *)
LEMMA EditKeepsLimits ==
  ASSUME OwnershipInv, TypeOK', EditableRoundIsUnused, NEW u \in Users,
         NEW newLimits \in RoundLimits, NEW newWindow \in Windows,
         UpdateRound(newLimits, newWindow)
  PROVE  KeepsLimits(u)'
<1>1. WithStatus("HELD") = {} /\ WithStatus("CONSUMED") = {}
  BY DEF UpdateRound, EditableRoundIsUnused, OwnershipInv, OrdersOwnTheirReservations
<1>2. reservation' = reservation
  BY DEF UpdateRound
<1>3. ActiveHolds(u)' = {} /\ TimelyReservations(u)' = {}
  BY <1>1, <1>2 DEF ActiveHolds, TimelyReservations, WithStatus
<1>4. \A i \in Items : Occupied(TimelyReservations(u), i)' = 0
  <2>1. TAKE i \in Items
  <2>2. Occupied({}, i)' = 0
    BY QuantityOfNothing DEF Occupied, Demand
  <2>3. Occupied(TimelyReservations(u), i)' = Occupied({}, i)'
    BY <1>3
  <2> QED
    BY <2>2, <2>3
<1>5. \A i \in Items : PerCustomerItemLimit(i)' \in Nat
  <2>1. TAKE i \in Items
  <2>2. limit'[i] \in Nat /\ MaxQuantityPerCustomer[i] \in Nat
    BY ConstantsAssumption DEF TypeOK, Resources, RoundResources
  <2> QED
    BY <2>2 DEF PerCustomerItemLimit
<1> QED
  BY <1>3, <1>4, <1>5, FS_EmptySet, ConstantsAssumption DEF KeepsLimits

(* No step breaks the limits of a customer. *)
LEMMA NextKeepsLimits ==
  ASSUME OwnershipInv, TypeOK', EditableRoundIsUnused, [Next]_vars,
         NEW u \in Users, KeepsLimits(u)
  PROVE  KeepsLimits(u)'
<1>1. CASE \E o \in Orders : CreateOrder(o) \/ FinalizeLatePaidOrder(o)
  BY <1>1, CheckoutKeepsLimits, LatePaymentKeepsLimits
<1>2. CASE \E newLimits \in RoundLimits, newWindow \in Windows : UpdateRound(newLimits, newWindow)
  BY <1>2, EditKeepsLimits
<1>3. CASE /\ \A o \in Orders : ~CreateOrder(o) /\ ~FinalizeLatePaidOrder(o)
           /\ \A newLimits \in RoundLimits, newWindow \in Windows :
                ~UpdateRound(newLimits, newWindow)
  <2>1. ReservationsAge
    BY <1>3, OthersAge
  <2>2. \A i \in Items : limit'[i] = limit[i]
    <3>1. CASE \E s \in Stocks, amount \in 0 .. StockBound, adds \in BOOLEAN :
                 UpdateStock(s, amount, adds)
      <4>1. PICK s \in Stocks : \E amount : limit' = [limit EXCEPT ![s] = amount]
        BY <3>1 DEF UpdateStock
      <4>2. \A i \in Items : i \in Resources /\ i # s
        BY ConstantsAssumption DEF Resources, RoundResources
      <4> QED
        BY <4>1, <4>2 DEF OwnershipInv, TypeOK
    <3>2. CASE \E o \in Orders : OrderStep(o)
      BY <1>3, <3>2 DEF OrderStep, FinalizePaidOrder, CancelPendingOrder, CancelOrder,
         UpdateOrderStatus, PayRedeliveryFee
    <3>3. CASE RoundStep
      BY <1>3, <3>3 DEF RoundStep, RefreshStatus, UpdateRoundStatus, CompleteRound,
         ClaimRoundCancellation, RecordCancellationFailure, FinalizeRoundCancellation, PassTime,
         RoundUnchanged
    <3>4. CASE UNCHANGED limit
      BY <3>4
    <3> QED
      BY <3>1, <3>2, <3>3, <3>4 DEF Next, Lapse, vars
  <2> QED
    BY <2>1, <2>2, AgingKeepsLimits DEF OwnershipInv
<1> QED
  BY <1>1, <1>2, <1>3

(* A new round has no reservation of anybody. *)
LEMMA InitKeepsLimits ==
  ASSUME Init, NEW u \in Users
  PROVE  KeepsLimits(u)
<1>1. ActiveHolds(u) = {} /\ TimelyReservations(u) = {}
  BY DEF Init, ActiveHolds, TimelyReservations, WithStatus
<1>2. \A i \in Items : Occupied({}, i) = 0
  BY QuantityOfNothing DEF Occupied
<1>3. \A i \in Items : PerCustomerItemLimit(i) \in Nat
  BY InitOwnership, LimitType DEF OwnershipInv
<1> QED
  BY <1>1, <1>2, <1>3, FS_EmptySet, ConstantsAssumption DEF KeepsLimits

(* No customer has more unexpired holds than allowed, or gets more of an   *)
(* item than the per-customer limit through checkouts paid in time.        *)
THEOREM LimitsPerCustomer == Spec => []CustomersKeepTheirLimits
<1>1. Init => CustomersKeepTheirLimits
  BY InitKeepsLimits DEF CustomersKeepTheirLimits, ActiveHoldsBounded, TimelyPurchasesWithinLimit,
     KeepsLimits
<1>2. OwnershipInv /\ OwnershipInv' /\ EditableRoundIsUnused /\ CustomersKeepTheirLimits /\ [Next]_vars
        => CustomersKeepTheirLimits'
  <2>1. SUFFICES ASSUME OwnershipInv, TypeOK', EditableRoundIsUnused, [Next]_vars,
                        CustomersKeepTheirLimits, NEW u \in Users
                 PROVE  KeepsLimits(u)'
    BY DEF CustomersKeepTheirLimits, ActiveHoldsBounded, TimelyPurchasesWithinLimit, KeepsLimits,
       OwnershipInv
  <2>2. KeepsLimits(u)
    BY <2>1 DEF CustomersKeepTheirLimits, ActiveHoldsBounded, TimelyPurchasesWithinLimit, KeepsLimits
  <2> QED
    BY <2>1, <2>2, NextKeepsLimits
<1>3. RoundStatusFitsItsOrders => EditableRoundIsUnused
  BY DEF RoundStatusFitsItsOrders
<1> QED
  BY <1>1, <1>2, <1>3, OwnershipInvariant, RoundStatusIsRight, PTL DEF Spec

(***************************************************************************)
(* The shop sells like one that adds all shares up again each time.        *)
(***************************************************************************)
(* The orders the abstract shop adds up are those that hold a reservation  *)
(* open or paid for.                                                       *)
LEMMA HoldersOwnReservations ==
  ASSUME OwnershipInv
  PROVE  /\ Sale!Holders = {o \in Orders : order[o].status \notin {"NONE", "CANCELLED"}}
         /\ [r \in WithStatus("HELD") \union WithStatus("CONSUMED") |-> reservation[r].order]
              \in Bijection(WithStatus("HELD") \union WithStatus("CONSUMED"), Sale!Holders)
<1> DEFINE occupied == WithStatus("HELD") \union WithStatus("CONSUMED")
           f == [r \in occupied |-> reservation[r].order]
<1>1. Sale!Holders = {o \in Orders : order[o].status \notin {"NONE", "CANCELLED"}}
  BY DEF Sale!Holders, SharesOfOrders, ShareOf
<1>2. ASSUME NEW r \in occupied
      PROVE  /\ reservation[r].order \in Sale!Holders
             /\ order[reservation[r].order].reservation = r
  <2>1. /\ reservation[r].order \in Orders
        /\ order[reservation[r].order].reservation = r
        /\ order[reservation[r].order].status # "NONE"
        /\ reservation[r].status \in {"HELD", "CONSUMED"}
    BY DEF OwnershipInv, OrdersOwnTheirReservations, WithStatus
  <2>2. reservation[r].status \in ReservationStatusFor(order[reservation[r].order].status)
    BY <2>1, OwnedReservation
  <2>3. order[reservation[r].order].status # "CANCELLED"
    BY <2>1, <2>2 DEF ReservationStatusFor
  <2> QED
    BY <1>1, <2>1, <2>3
<1>3. ASSUME NEW o \in Sale!Holders
      PROVE  order[o].reservation \in occupied /\ reservation[order[o].reservation].order = o
  <2>1. o \in Orders /\ order[o].status \notin {"NONE", "CANCELLED"}
    BY <1>1
  <2> QED
    BY <2>1, OwnedReservation DEF ReservationStatusFor, WithStatus
<1>4. f \in Bijection(occupied, Sale!Holders)
  <2> HIDE DEF occupied
  <2>1. f \in [occupied -> Sale!Holders]
    BY <1>2
  <2>2. \A r, s \in occupied : f[r] = f[s] => r = s
    BY <1>2
  <2>3. \A o \in Sale!Holders : \E r \in occupied : f[r] = o
    BY <1>3
  <2> HIDE DEF f
  <2> QED
    BY <2>1, <2>2, <2>3 DEF Bijection, Injection, Surjection, IsInjective
<1> QED
  BY <1>1, <1>4

(* What the abstract shop would add up anew is what the counters say.      *)
LEMMA TakenIsCounted ==
  ASSUME OwnershipInv, CountersMatchReservations, NEW x \in Resources
  PROVE  Sale!Taken(x) = reserved[x] + ordered[x]
<1> DEFINE H == WithStatus("HELD")
           C == WithStatus("CONSUMED")
           p == [r \in H \union C |-> Demand(reservation[r].order, x)]
           f == [r \in H \union C |-> reservation[r].order]
           q == [o \in Orders |-> OrderTakes[o][x]]
<1>1. f \in Bijection(H \union C, Sale!Holders)
  BY HoldersOwnReservations
<1>2. Sale!Holders \subseteq Orders
  BY HoldersOwnReservations
<1>3. IsFiniteSet(H) /\ IsFiniteSet(C) /\ IsFiniteSet(H \union C)
  BY ReservationsFinite, FS_Subset DEF WithStatus
<1>4. H \intersect C = {}
  BY DEF WithStatus
<1>5. \A r \in H \union C : reservation[r].order \in Orders
  BY DEF OwnershipInv, OrdersOwnTheirReservations
<1>6. \A r \in H \union C : p[r] \in Nat /\ q[f[r]] = p[r]
  BY <1>5, DemandType DEF OrderTakes
<1>7. Occupied(H, x) = Quantity(H, p) /\ Occupied(C, x) = Quantity(C, p)
  BY QuantityCongruence DEF Occupied
<1>8. reserved[x] = Occupied(H, x) /\ ordered[x] = Occupied(C, x)
  BY DEF CountersMatchReservations
<1>9. Sale!Taken(x) = Quantity(Sale!Holders, q)
  BY DEF Sale!Taken, Sale!Quantity, Sale!Units, Sale!Group, Quantity, Units, Group,
         Sale!Cardinality, Cardinality
<1> HIDE DEF H, C, p, f, q
<1>10. Quantity(Sale!Holders, q) = Quantity(H \union C, p)
  BY <1>1, <1>3, <1>6, QuantityOfRenamed
<1>11. Quantity(H \union C, p) = Quantity(H, p) + Quantity(C, p)
  BY <1>3, <1>4, <1>6, QuantityOfUnion
<1> QED
  BY <1>7, <1>8, <1>9, <1>10, <1>11

(* An order that changes changes its own share and no other. *)
LEMMA ShareOfChange ==
  ASSUME TypeOK, NEW o \in Orders, NEW next \in OrderRecords,
         order' = [order EXCEPT ![o] = next]
  PROVE  /\ Sale!ShareBecomes(o, ShareOf(next))
         /\ SharesOfOrders[o] = ShareOf(order[o])
         /\ ShareOf(next) = ShareOf(order[o]) => SharesOfOrders' = SharesOfOrders
BY DEF Sale!ShareBecomes, SharesOfOrders, ShareOf, TypeOK

(* What the counters leave room for fits beside all shares given out. *)
LEMMA AvailableFits ==
  ASSUME OwnershipInv, CountersMatchReservations, NEW o \in Orders, CapacityAvailable(o)
  PROVE  Sale!Fits(o)
<1>1. ASSUME NEW x \in Resources, OrderTakes[o][x] > 0
      PROVE  Sale!Taken(x) + OrderTakes[o][x] <= limit[x]
  <2>1. OrderTakes[o][x] = Demand(o, x)
    BY DEF OrderTakes
  <2>2. reserved[x] + ordered[x] + Demand(o, x) <= limit[x]
    BY <1>1, <2>1 DEF CapacityAvailable
  <2> QED
    BY <2>1, <2>2, TakenIsCounted
<1> QED
  BY <1>1 DEF Sale!Fits

(* A checkout and a late payment give the order its share. *)
LEMMA AcquisitionGives ==
  ASSUME OwnershipInv, CountersMatchReservations, NEW o \in Orders,
         CreateOrder(o) \/ FinalizeLatePaidOrder(o)
  PROVE  Sale!Give(o)
<1>1. Sale!Fits(o) /\ limit' = limit
  BY AvailableFits, AcquisitionIsMove
<1>2. OrderWindowOpen(EffectiveRound, window) /\ round' = EffectiveRound
  BY DEF CreateOrder, FinalizeLatePaidOrder
<1>3. SalePhase # "over"
  <2>1. round.status \in RoundStatuses /\ round.status \notin Finished
    BY <1>2, EffectiveRoundFinished DEF OwnershipInv, TypeOK, Rounds
  <2> QED
    BY <2>1 DEF SalePhase, Finished, RoundStatuses
<1>4. SalePhase' = "running"
  BY <1>2 DEF OrderWindowOpen, SalePhase
<1>5. \/ SharesOfOrders[o] = "none" /\ Sale!ShareBecomes(o, "held")
      \/ SharesOfOrders[o] = "expired" /\ Sale!ShareBecomes(o, "bought")
  <2>1. CASE CreateOrder(o)
    <3> DEFINE next == [status |-> "PENDING", cancelReason |-> "none",
                        reservation |-> CheckoutReservation(o), redelivery |-> "none"]
    <3>1. next \in OrderRecords /\ ShareOf(next) = "held"
      BY ReservationOfOrder DEF OrderRecords, OrderStatuses, ShareOf
    <3>2. order' = [order EXCEPT ![o] = next] /\ ShareOf(order[o]) = "none"
      BY <2>1 DEF CreateOrder, ShareOf
    <3> HIDE DEF next
    <3> QED
      BY <3>1, <3>2, ShareOfChange DEF OwnershipInv
  <2>2. CASE FinalizeLatePaidOrder(o)
    <3> DEFINE next == [order[o] EXCEPT !.status = "ACCEPTED", !.reservation = LateReservation(o)]
    <3>1. next \in OrderRecords /\ ShareOf(next) = "bought"
      <4>1. order[o] \in OrderRecords
        BY DEF OwnershipInv, TypeOK
      <4>2. next \in OrderRecords /\ next.status = "ACCEPTED"
        BY <4>1, ReservationOfOrder DEF OrderRecords, OrderStatuses
      <4> QED
        BY <4>2 DEF ShareOf
    <3>2. order' = [order EXCEPT ![o] = next]
      BY <2>2 DEF FinalizeLatePaidOrder, OwnershipInv, TypeOK, OrderRecords
    <3>3. ShareOf(order[o]) = "expired"
      BY <2>2 DEF FinalizeLatePaidOrder, ShareOf
    <3> HIDE DEF next
    <3> QED
      BY <3>1, <3>2, <3>3, ShareOfChange DEF OwnershipInv
  <2> QED
    BY <2>1, <2>2
<1> QED
  BY <1>1, <1>3, <1>4, <1>5 DEF Sale!Give

(* While an order waits for its payment or is under way, its round is on   *)
(* sale or closed, but neither in preparation nor over.                    *)
LEMMA RunningWithOrders ==
  ASSUME TypeOK, RoundStatusFitsItsOrders, NEW o \in Orders, OrderUnfinished(o)
  PROVE  SalePhase = "running"
<1>1. round.status \in RoundStatuses
  BY DEF TypeOK, Rounds
<1>2. round.status \notin {"DRAFT", "SCHEDULED"}
  BY DEF RoundStatusFitsItsOrders, EditableRoundIsUnused, OrderUnfinished
<1>3. round.status \notin {"COMPLETED", "CANCELLED"}
  BY DEF RoundStatusFitsItsOrders, FinishedRoundIsSettled
<1> QED
  BY <1>1, <1>2, <1>3 DEF SalePhase, RoundStatuses

(* A payment, a time-out and a cancellation settle the order's share. *)
LEMMA SettlementSettles ==
  ASSUME OwnershipInv, RoundStatusFitsItsOrders, NEW o \in Orders,
         \/ FinalizePaidOrder(o)
         \/ \E reason \in {"timeout", "other"} : CancelPendingOrder(o, reason)
         \/ CancelOrder(o)
  PROVE  Sale!Settle(o)
<1>1. order[o] \in OrderRecords
  BY DEF OwnershipInv, TypeOK
<1>2. OrderUnfinished(o)
  BY DEF FinalizePaidOrder, CancelPendingOrder, CancelOrder, CancellableStatuses, OrderUnfinished
<1>3. SalePhase = "running"
  BY <1>2, RunningWithOrders DEF OwnershipInv
<1>4. UNCHANGED <<SalePhase, limit>>
  BY DEF FinalizePaidOrder, CancelPendingOrder, CancelOrder, SalePhase
<1>5. PICK next \in OrderRecords :
        /\ order' = [order EXCEPT ![o] = next]
        /\ \/ ShareOf(order[o]) = "held" /\ ShareOf(next) \in {"bought", "expired", "returned"}
           \/ ShareOf(order[o]) = "bought" /\ ShareOf(next) = "returned"
  <2>1. CASE FinalizePaidOrder(o)
    <3> DEFINE next == [order[o] EXCEPT !.status = "ACCEPTED"]
    <3>1. next \in OrderRecords /\ ShareOf(next) = "bought"
      BY <1>1 DEF OrderRecords, OrderStatuses, ShareOf
    <3>2. order' = [order EXCEPT ![o] = next] /\ ShareOf(order[o]) = "held"
      BY <2>1 DEF FinalizePaidOrder, ShareOf
    <3> HIDE DEF next
    <3> QED
      BY <3>1, <3>2
  <2>2. ASSUME NEW reason \in {"timeout", "other"}, CancelPendingOrder(o, reason)
        PROVE  \E next \in OrderRecords :
                 /\ order' = [order EXCEPT ![o] = next]
                 /\ ShareOf(order[o]) = "held" /\ ShareOf(next) \in {"expired", "returned"}
    <3> DEFINE next == [order[o] EXCEPT !.status = "CANCELLED", !.cancelReason = reason]
    <3>1. next \in OrderRecords /\ ShareOf(next) \in {"expired", "returned"}
      BY <1>1 DEF OrderRecords, OrderStatuses, ShareOf
    <3>2. order' = [order EXCEPT ![o] = next]
      BY <1>1, <2>2 DEF CancelPendingOrder, OrderRecords
    <3>3. ShareOf(order[o]) = "held"
      BY <2>2 DEF CancelPendingOrder, ShareOf
    <3> HIDE DEF next
    <3> QED
      BY <3>1, <3>2, <3>3
  <2>3. CASE CancelOrder(o)
    <3> DEFINE next == [order[o] EXCEPT !.status = "CANCELLED", !.cancelReason = "other",
                                        !.redelivery = "none"]
    <3>1. next \in OrderRecords /\ ShareOf(next) = "returned"
      <4>1. next \in OrderRecords /\ next.status = "CANCELLED" /\ next.cancelReason = "other"
        BY <1>1 DEF OrderRecords, OrderStatuses
      <4> QED
        BY <4>1 DEF ShareOf
    <3>2. order' = [order EXCEPT ![o] = next]
      BY <1>1, <2>3 DEF CancelOrder, OrderRecords
    <3>3. ShareOf(order[o]) \in {"held", "bought"}
      BY <2>3 DEF CancelOrder, CancellableStatuses, ShareOf
    <3> HIDE DEF next
    <3> QED
      BY <3>1, <3>2, <3>3
  <2> QED
    BY <2>1, <2>2, <2>3
<1>6. Sale!ShareBecomes(o, ShareOf(next)) /\ SharesOfOrders[o] = ShareOf(order[o])
  BY <1>5, ShareOfChange DEF OwnershipInv
<1> QED
  BY <1>3, <1>4, <1>5, <1>6 DEF Sale!Settle

(* Delivery, redelivery fees and lapsing holds are none of the sale's. *)
LEMMA DeliveryLeavesSale ==
  ASSUME OwnershipInv,
         \/ \E o \in Orders :
              \/ \E next \in OrderStatuses, fee \in {"none", "unpaid"} :
                   UpdateOrderStatus(o, next, fee)
              \/ PayRedeliveryFee(o)
         \/ \E r \in Reservations : Lapse(r)
  PROVE  UNCHANGED <<SalePhase, limit, SharesOfOrders>>
<1>1. UNCHANGED <<round, limit>>
  BY DEF UpdateOrderStatus, PayRedeliveryFee, Lapse
<1>2. SharesOfOrders' = SharesOfOrders
  <2>1. ASSUME NEW o \in Orders, NEW next \in OrderStatuses, NEW fee \in {"none", "unpaid"},
               UpdateOrderStatus(o, next, fee)
        PROVE  SharesOfOrders' = SharesOfOrders
    <3> DEFINE kept == IF next \in {"DELIVERY_HELD", "DELIVERING"} THEN fee
                       ELSE order[o].redelivery
               moved == [order[o] EXCEPT !.status = next, !.redelivery = kept]
               paid == {"ACCEPTED", "PREPARING", "DELIVERING", "DELIVERY_HELD", "DELIVERED"}
    <3>1. order[o] \in OrderRecords
      BY DEF OwnershipInv, TypeOK
    <3>2. moved \in OrderRecords /\ moved.status = next
      BY <3>1 DEF OrderRecords
    <3>3. order' = [order EXCEPT ![o] = moved]
      BY <2>1, <3>1 DEF UpdateOrderStatus, OrderRecords
    <3>4. order[o].status \in paid /\ next \in paid
      BY <2>1 DEF UpdateOrderStatus, DeliveryTransitions
    <3> HIDE DEF moved, kept
    <3>5. ShareOf(moved) = "bought" /\ ShareOf(order[o]) = "bought"
      BY <3>2, <3>4 DEF ShareOf
    <3> QED
      BY <3>2, <3>3, <3>5, ShareOfChange DEF OwnershipInv
  <2>2. ASSUME NEW o \in Orders, PayRedeliveryFee(o)
        PROVE  SharesOfOrders' = SharesOfOrders
    <3> DEFINE moved == [order[o] EXCEPT !.redelivery = "paid"]
    <3>1. order[o] \in OrderRecords
      BY DEF OwnershipInv, TypeOK
    <3>2. /\ moved \in OrderRecords /\ moved.status = order[o].status
          /\ moved.cancelReason = order[o].cancelReason
      BY <3>1 DEF OrderRecords
    <3>3. order' = [order EXCEPT ![o] = moved]
      BY <2>2 DEF PayRedeliveryFee
    <3> HIDE DEF moved
    <3>4. ShareOf(moved) = ShareOf(order[o])
      BY <3>2 DEF ShareOf
    <3> QED
      BY <3>2, <3>3, <3>4, ShareOfChange DEF OwnershipInv
  <2>3. ASSUME NEW r \in Reservations, Lapse(r)
        PROVE  SharesOfOrders' = SharesOfOrders
    BY <2>3 DEF Lapse, SharesOfOrders
  <2> QED
    BY <2>1, <2>2, <2>3
<1> QED
  BY <1>1, <1>2 DEF SalePhase

(* What the seller puts on offer still covers what has been taken. *)
LEMMA EditsOffer ==
  ASSUME OwnershipInv, OwnershipInv', CountersMatchReservations, NoOversell',
         \/ \E newLimits \in RoundLimits, newWindow \in Windows : UpdateRound(newLimits, newWindow)
         \/ \E s \in Stocks, amount \in 0 .. StockBound, adds \in BOOLEAN :
              UpdateStock(s, amount, adds)
  PROVE  Sale!Offer
<1>1. UNCHANGED <<round, order, reserved, ordered>>
  BY DEF UpdateRound, UpdateStock
<1>2. UNCHANGED <<SalePhase, SharesOfOrders>>
  BY <1>1 DEF SalePhase, SharesOfOrders
<1>3. limit' \in [Resources -> Nat]
  BY DEF OwnershipInv, TypeOK
<1>4. \A x \in Resources : Sale!Taken(x) <= limit'[x]
  BY <1>1, TakenIsCounted DEF NoOversell
<1>5. (\E x \in RoundResources : limit'[x] # limit[x]) => SalePhase = "preparing"
  <2>1. CASE \E newLimits \in RoundLimits, newWindow \in Windows :
               UpdateRound(newLimits, newWindow)
    BY <2>1 DEF UpdateRound, SalePhase
  <2>2. ASSUME NEW s \in Stocks, NEW amount \in 0 .. StockBound, NEW adds \in BOOLEAN,
               UpdateStock(s, amount, adds)
        PROVE  \A x \in RoundResources : limit'[x] = limit[x]
    <3>1. s \notin RoundResources /\ RoundResources \subseteq Resources
      BY ConstantsAssumption DEF Resources
    <3>2. limit \in [Resources -> Nat]
      BY DEF OwnershipInv, TypeOK
    <3> QED
      BY <2>2, <3>1, <3>2 DEF UpdateStock
  <2> QED
    BY <2>1, <2>2
<1> QED
  BY <1>2, <1>3, <1>4, <1>5 DEF Sale!Offer

(* The clock, the counters and the seller begin the sale at most. *)
LEMMA RefreshBegins ==
  ASSUME TypeOK, order' = order, limit' = limit,
         \/ round' = EffectiveRound
         \/ \E next \in {"SCHEDULED", "OPEN", "CLOSED"} :
              /\ next \in NextStatuses(round.status)
              /\ round' = [round EXCEPT !.status = next,
                                        !.closeReason = IF next = "CLOSED" THEN "MANUAL" ELSE "none"]
  PROVE  Sale!Begin \/ UNCHANGED <<SalePhase, limit, SharesOfOrders>>
<1>1. SharesOfOrders' = SharesOfOrders
  BY DEF SharesOfOrders
<1>2. round.status \in RoundStatuses
  BY DEF TypeOK, Rounds
<1>3. \/ round'.status = round.status
      \/ round.status = "DRAFT" /\ round'.status = "SCHEDULED"
      \/ round.status \in {"SCHEDULED", "OPEN", "CLOSED"} /\ round'.status \in {"OPEN", "CLOSED"}
  <2>1. CASE round' = EffectiveRound
    BY <2>1 DEF TypeOK, Rounds, EffectiveRound, ResolveAutomaticState, Opened, Closed
  <2>2. ASSUME NEW next \in {"SCHEDULED", "OPEN", "CLOSED"}, next \in NextStatuses(round.status),
               round'.status = next
        PROVE  \/ round.status = "DRAFT" /\ next = "SCHEDULED"
               \/ round.status \in {"SCHEDULED", "OPEN"} /\ next \in {"OPEN", "CLOSED"}
    BY <1>2, <2>2 DEF NextStatuses, RoundStatuses
  <2>3. ASSUME NEW next, round' = [round EXCEPT !.status = next,
                               !.closeReason = IF next = "CLOSED" THEN "MANUAL" ELSE "none"]
        PROVE  round'.status = next
    BY <2>3 DEF TypeOK, Rounds
  <2> QED
    BY <2>1, <2>2, <2>3
<1>4. \/ SalePhase' = SalePhase
      \/ SalePhase = "preparing" /\ SalePhase' = "running"
  BY <1>3 DEF SalePhase
<1> QED
  BY <1>1, <1>4 DEF Sale!Begin

(* A round is completed or cancelled once no share waits for its payment. *)
LEMMA EndFinishes ==
  ASSUME OwnershipInv, CompleteRound \/ FinalizeRoundCancellation
  PROVE  Sale!Finish \/ UNCHANGED <<SalePhase, limit, SharesOfOrders>>
<1>1. /\ UNCHANGED <<limit, order>>
      /\ \A o \in Orders : ~OrderUnfinished(o)
      /\ round'.status \in {"COMPLETED", "CANCELLED"}
  BY DEF CompleteRound, FinalizeRoundCancellation, RoundUnchanged, OwnershipInv, TypeOK, Rounds
<1>2. SharesOfOrders' = SharesOfOrders /\ SalePhase' = "over"
  BY <1>1 DEF SharesOfOrders, SalePhase
<1>3. \A o \in Orders : SharesOfOrders[o] # "held"
  BY <1>1 DEF OrderUnfinished, SharesOfOrders, ShareOf
<1> QED
  BY <1>1, <1>2, <1>3 DEF Sale!Finish

(* Every step of the round is a step of the abstract shop or none. *)
LEMMA RoundStepSells ==
  ASSUME OwnershipInv, OwnershipInv', CountersMatchReservations, NoOversell', RoundStep
  PROVE  Sale!Next \/ UNCHANGED <<SalePhase, limit, SharesOfOrders>>
<1>1. CASE RefreshStatus \/ \E next \in {"SCHEDULED", "OPEN", "CLOSED"} : UpdateRoundStatus(next)
  <2>1. Sale!Begin \/ UNCHANGED <<SalePhase, limit, SharesOfOrders>>
    BY <1>1, RefreshBegins DEF RefreshStatus, UpdateRoundStatus, RoundUnchanged, OwnershipInv
  <2> QED
    BY <2>1 DEF Sale!Next
<1>2. CASE CompleteRound \/ FinalizeRoundCancellation
  BY <1>2, EndFinishes DEF Sale!Next
<1>3. CASE ClaimRoundCancellation \/ RecordCancellationFailure \/ PassTime
  <2>1. round'.status = round.status /\ UNCHANGED <<limit, order>>
    BY <1>3 DEF ClaimRoundCancellation, RecordCancellationFailure, PassTime, RoundUnchanged,
       OwnershipInv, TypeOK, Rounds
  <2> QED
    BY <2>1 DEF SalePhase, SharesOfOrders
<1>4. CASE \E newLimits \in RoundLimits, newWindow \in Windows : UpdateRound(newLimits, newWindow)
  BY <1>4, EditsOffer DEF Sale!Next
<1> QED
  BY <1>1, <1>2, <1>3, <1>4 DEF RoundStep

(* Every step is a step of the abstract shop or none. *)
LEMMA NextSells ==
  ASSUME OwnershipInv, OwnershipInv', CountersMatchReservations, NoOversell',
         RoundStatusFitsItsOrders, [Next]_vars
  PROVE  Sale!Next \/ UNCHANGED <<SalePhase, limit, SharesOfOrders>>
<1>1. ASSUME NEW o \in Orders, OrderStep(o)
      PROVE  Sale!Next \/ UNCHANGED <<SalePhase, limit, SharesOfOrders>>
  <2>1. CASE CreateOrder(o) \/ FinalizeLatePaidOrder(o)
    BY <2>1, AcquisitionGives DEF Sale!Next
  <2>2. CASE \/ FinalizePaidOrder(o) \/ CancelOrder(o)
             \/ \E reason \in {"timeout", "other"} : CancelPendingOrder(o, reason)
    BY <2>2, SettlementSettles DEF Sale!Next
  <2>3. CASE \/ \E next \in OrderStatuses, fee \in {"none", "unpaid"} :
                  UpdateOrderStatus(o, next, fee)
             \/ PayRedeliveryFee(o)
    BY <2>3, DeliveryLeavesSale
  <2> QED
    BY <1>1, <2>1, <2>2, <2>3 DEF OrderStep
<1>2. CASE \E r \in Reservations : Lapse(r)
  BY <1>2, DeliveryLeavesSale
<1>3. CASE RoundStep
  BY <1>3, RoundStepSells
<1>4. CASE \E s \in Stocks, amount \in 0 .. StockBound, adds \in BOOLEAN :
             UpdateStock(s, amount, adds)
  BY <1>4, EditsOffer DEF Sale!Next
<1>5. CASE UNCHANGED vars
  BY <1>5 DEF vars, SalePhase, SharesOfOrders
<1> QED
  BY <1>1, <1>2, <1>3, <1>4, <1>5 DEF Next

(* A new round is a sale in preparation. *)
LEMMA InitSells ==
  ASSUME Init
  PROVE  Sale!Init
<1>1. SalePhase = "preparing"
  BY DEF Init, SalePhase
<1>2. SharesOfOrders = [o \in Orders |-> "none"]
  BY DEF Init, SharesOfOrders, ShareOf
<1>3. limit \in [Resources -> Nat]
  BY InitOwnership DEF OwnershipInv, TypeOK
<1> QED
  BY <1>1, <1>2, <1>3 DEF Sale!Init

(* The handlers sell like a shop that adds all shares up again before it   *)
(* gives one away.                                                         *)
THEOREM Sells == Spec => SellsWithinLimits
<1>1. Init => Sale!Init
  BY InitSells
<1>2. ASSUME OwnershipInv, OwnershipInv', CountersMatchReservations, NoOversell',
             RoundStatusFitsItsOrders, [Next]_vars
      PROVE  [Sale!Next]_(Sale!saleVars)
  BY <1>2, NextSells DEF Sale!saleVars
<1> QED
  BY <1>1, <1>2, OwnershipInvariant, Ledger, NothingOversold, RoundStatusIsRight, PTL
     DEF Spec, SellsWithinLimits, Sale!Spec
=============================================================================
