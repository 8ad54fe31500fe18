---------------------------- MODULE OrderCapacity ----------------------------
(***************************************************************************)
(* Capacity of one sale round: the counters of the round, of its items and *)
(* of the option stocks, the checkout reservations that occupy them, the   *)
(* orders those reservations belong to, and the round's own status.        *)
(*                                                                         *)
(* Every handler of the API runs as one Firestore transaction, so each is  *)
(* one action here.  A resource x (delivery addresses, item quantity, an   *)
(* item, an option stock) has a pair of counters, reserved[x] for checkouts*)
(* that still wait for their payment and ordered[x] for paid orders, and a *)
(* limit that the seller sets.                                             *)
(***************************************************************************)
EXTENDS SaleRoundState, Quantities

CONSTANTS
  Orders,       \* the checkouts customers may attempt, one order each
  Users,        \* customers
  Keys,         \* checkout request ids, chosen by the clients
  Items,        \* the items of the round
  Stocks,       \* the option stocks its products use
  UserOf,       \* the customer of an order
  KeyOf,        \* the request id an order is placed with
  Lines,        \* Lines[o][x]: what order o takes of item or option stock x
  MaxHolds,     \* MAX_ACTIVE_CHECKOUT_HOLDS_PER_USER_ROUND
  MaxQuantityPerCustomer, \* configured limit of an item, 0 when there is none
  RoundLimits,  \* the limits a seller may give to the round and its items
  InitialStock, \* stockQuantity of every option stock at first
  StockBound    \* model bound on stockQuantity

RoundResources == {"addresses", "itemQuantity"} \union Items
Resources == RoundResources \union Stocks

ASSUME ConstantsAssumption ==
  /\ IsFiniteSet(Orders) /\ IsFiniteSet(Keys) /\ IsFiniteSet(Items)
  /\ UserOf \in [Orders -> Users]
  /\ KeyOf \in [Orders -> Keys]
  /\ Lines \in [Orders -> [Items \union Stocks -> Nat]]
  /\ MaxHolds \in Nat
  /\ MaxQuantityPerCustomer \in [Items -> Nat]
  /\ RoundLimits \subseteq [RoundResources -> Nat]
  /\ InitialStock \in [Stocks -> Nat]
  /\ Items \intersect {"addresses", "itemQuantity"} = {}
  /\ RoundResources \intersect Stocks = {}

(* The order id is a hash of store, customer and request id, so a customer *)
(* who repeats a request id gets the order that exists.                    *)
ASSUME RequestAssumption ==
  \A o, p \in Orders : UserOf[o] = UserOf[p] /\ KeyOf[o] = KeyOf[p] => o = p

(* Definitions named after a fault (...IgnoringHolds, ...OffByOne, ...) are *)
(* not used: each stands beside the definition a programmer could have got *)
(* wrong that way, and shows that a property would notice.                 *)

VARIABLES
  round,          \* saleRounds document: status, closeReason, cancellation
  window,         \* the clock against the round's ordering window
  limit,          \* limits of the round, saleLimitQuantity, stockQuantity
  reserved,       \* the reserved... counters of round, items and stocks
  ordered,        \* the ordered... counters of round, items and stocks
  heldOrderCount, \* counters.heldOrderCount of the round
  reservation,    \* checkoutReservations documents
  order           \* orders documents

vars == <<round, window, limit, reserved, ordered, heldOrderCount, reservation, order>>

NoOrder == "no order"
NoReservation == <<>>

CheckoutReservations == {"checkout"} \X Keys
LateReservations == {"late-payment"} \X Orders
Reservations == CheckoutReservations \union LateReservations

(* A checkout's reservation is identified by the request id alone: two     *)
(* customers with the same request id meet in one document.                *)
CheckoutReservation(o) == <<"checkout", KeyOf[o]>>
LateReservation(o) == <<"late-payment", o>>

ReservationStatuses == {"NONE", "HELD", "CONSUMED", "RELEASED", "EXPIRED"}
OrderStatuses == {"NONE", "PENDING", "ACCEPTED", "PREPARING", "DELIVERING",
                  "DELIVERY_HELD", "DELIVERED", "CANCELLED"}

Demand(o, x) ==
  IF x = "addresses" THEN 1
  ELSE IF x = "itemQuantity" THEN Quantity(Items, Lines[o]) ELSE Lines[o][x]

WithStatus(status) == {r \in Reservations : reservation[r].status = status}

(* What the reservations of S take of resource x. *)
Occupied(S, x) == Quantity(S, [r \in S |-> Demand(reservation[r].order, x)])

OfUser(u, r) == reservation[r].order \in Orders /\ UserOf[reservation[r].order] = u

ActiveHolds(u) ==
  {r \in WithStatus("HELD") : OfUser(u, r) /\ ~reservation[r].lapsed /\ r \in CheckoutReservations}

HoldAvailableOffByOne(u) == Cardinality(ActiveHolds(u)) <= MaxHolds
HoldAvailable(u) == Cardinality(ActiveHolds(u)) < MaxHolds

(* A request id under which a reservation was ever made serves nobody else.*)
ReservationAvailableFromAnyone(r) == reservation[r].status \in {"NONE", "HELD"}
ReservationAvailableAgain(r) == reservation[r].status \in {"NONE", "EXPIRED"}
ReservationAvailable(r) == reservation[r].status = "NONE"

(* The reservations counted against the per-customer limit: unexpired      *)
(* holds and paid orders.                                                  *)
CustomerOwnedHeldOnly(u) ==
  {r \in WithStatus("HELD") : OfUser(u, r) /\ ~reservation[r].lapsed}
CustomerOwned(u) ==
  {r \in WithStatus("HELD") : OfUser(u, r) /\ ~reservation[r].lapsed}
    \union {r \in WithStatus("CONSUMED") : OfUser(u, r)}

PerCustomerItemLimit(i) ==
  LET half == (limit[i] + 1) \div 2
  IN IF MaxQuantityPerCustomer[i] > 0 THEN MaxQuantityPerCustomer[i]
     ELSE IF half > 1 THEN half ELSE 1

WithinCustomerLimits(o) ==
  \A i \in Items : Lines[o][i] > 0 =>
    Occupied(CustomerOwned(UserOf[o]), i) + Lines[o][i] <= PerCustomerItemLimit(i)

CapacityAvailableIgnoringHolds(o) ==
  \A x \in Resources : Demand(o, x) > 0 => ordered[x] + Demand(o, x) <= limit[x]
CapacityAvailable(o) ==
  \A x \in Resources : Demand(o, x) > 0 => reserved[x] + ordered[x] + Demand(o, x) <= limit[x]

IsCapacityFull ==
  \E x \in {"addresses", "itemQuantity"} : reserved[x] + ordered[x] >= limit[x]

EffectiveRound == ResolveAutomaticState(round, window, IsCapacityFull)

(***************************************************************************)
(* Every counter moves with the reservation that occupies it: it leaves    *)
(* the bucket of the old status and enters that of the new one.  A counter *)
(* that would become negative makes the whole transaction fail.            *)
(***************************************************************************)
Share(status, bucket, o, x) == IF status = bucket THEN Demand(o, x) ELSE 0

MovedCounterKeepsPaid(counter, bucket, o, from, to) ==
  [x \in Resources |-> counter[x] + Share(to, bucket, o, x)
                      - (IF from = "CONSUMED" THEN 0 ELSE Share(from, bucket, o, x))]
MovedCounter(counter, bucket, o, from, to) ==
  [x \in Resources |-> counter[x] - Share(from, bucket, o, x) + Share(to, bucket, o, x)]

MoveReservation(r, next) ==
  LET from == reservation[r].status
  IN /\ reservation' = [reservation EXCEPT ![r] = next]
     /\ reserved' = MovedCounter(reserved, "HELD", next.order, from, next.status)
     /\ ordered' = MovedCounter(ordered, "CONSUMED", next.order, from, next.status)
     /\ \A x \in Resources : reserved'[x] >= 0 /\ ordered'[x] >= 0

Become(r, status) == MoveReservation(r, [reservation[r] EXCEPT !.status = status])

AdjustHeldOrderCount(delta) ==
  /\ heldOrderCount + delta >= 0
  /\ heldOrderCount' = heldOrderCount + delta
-----------------------------------------------------------------------------
(* Checkout and payment. *)

(* A customer checks out: the reservation and the PENDING order that owns  *)
(* it are written together, and a round the clock has opened becomes OPEN. *)
CreateOrder(o) ==
  LET r == CheckoutReservation(o)
  IN /\ order[o].status = "NONE"
     /\ ReservationAvailable(r)
     /\ OrderWindowOpen(EffectiveRound, window)
     /\ HoldAvailable(UserOf[o])
     /\ CapacityAvailable(o)
     /\ WithinCustomerLimits(o)
     /\ MoveReservation(r, [status |-> "HELD", order |-> o, lapsed |-> FALSE])
     /\ order' = [order EXCEPT ![o] = [status |-> "PENDING", cancelReason |-> "none",
                                       reservation |-> r, redelivery |-> "none"]]
     /\ round' = EffectiveRound
     /\ UNCHANGED <<window, limit, heldOrderCount>>

(* The provider confirmed the payment of a PENDING order.  A hold that has *)
(* lapsed but was not released is consumed all the same.                   *)
FinalizePaidOrder(o) ==
  LET r == order[o].reservation
  IN /\ order[o].status = "PENDING"
     /\ reservation[r].status = "HELD"
     /\ Become(r, "CONSUMED")
     /\ order' = [order EXCEPT ![o].status = "ACCEPTED"]
     /\ UNCHANGED <<round, window, limit, heldOrderCount>>

(* The payment of an order that timed out arrives late: capacity is        *)
(* acquired again, without the per-customer limit.                         *)
FinalizeLatePaidOrder(o) ==
  LET r == LateReservation(o)
  IN /\ order[o].status = "CANCELLED" /\ order[o].cancelReason = "timeout"
     /\ reservation[r].status = "NONE"
     /\ OrderWindowOpen(EffectiveRound, window)
     /\ CapacityAvailable(o)
     /\ MoveReservation(r, [status |-> "CONSUMED", order |-> o, lapsed |-> FALSE])
     /\ order' = [order EXCEPT ![o].status = "ACCEPTED", ![o].reservation = r]
     /\ round' = EffectiveRound
     /\ UNCHANGED <<window, limit, heldOrderCount>>

(* The clean-up job gives up an unpaid order whose 15 minutes are over; an *)
(* order paid with a wrong amount is given up at once.                     *)
CancelPendingOrder(o, reason) ==
  LET r == order[o].reservation
  IN /\ order[o].status = "PENDING"
     /\ reason = "timeout" => reservation[r].lapsed
     /\ reservation[r].status = "HELD"
     /\ Become(r, IF reason = "timeout" THEN "EXPIRED" ELSE "RELEASED")
     /\ order' = [order EXCEPT ![o].status = "CANCELLED", ![o].cancelReason = reason]
     /\ UNCHANGED <<round, window, limit, heldOrderCount>>

(* expiresAt of an open hold passes. *)
Lapse(r) ==
  /\ reservation[r].status = "HELD" /\ ~reservation[r].lapsed
  /\ reservation' = [reservation EXCEPT ![r].lapsed = TRUE]
  /\ UNCHANGED <<round, window, limit, reserved, ordered, heldOrderCount, order>>
-----------------------------------------------------------------------------
(* Cancellation and delivery of orders. *)

CancellableStatuses == {"PENDING", "ACCEPTED", "PREPARING", "DELIVERY_HELD"}

RedeliveryRequired(o) == order[o].redelivery # "none"

(* The orders that heldOrderCount counts: an order waiting for the         *)
(* redelivery fee stays counted when the seller moves it to PREPARING.     *)
HoldCounted(o) ==
  \/ order[o].status = "DELIVERY_HELD"
  \/ order[o].status = "PREPARING" /\ RedeliveryRequired(o)

(* The customer, the seller or the round's cancellation cancels an order:  *)
(* its reservation is released and its delivery hold closed.               *)
CancelOrder(o) ==
  LET r == order[o].reservation
      status == reservation[r].status
  IN /\ order[o].status \in CancellableStatuses
     /\ Become(r, IF status \in {"HELD", "CONSUMED"} THEN "RELEASED" ELSE status)
     /\ AdjustHeldOrderCount(IF HoldCounted(o) THEN -1 ELSE 0)
     /\ order' = [order EXCEPT ![o].status = "CANCELLED", ![o].cancelReason = "other",
                               ![o].redelivery = "none"]
     /\ UNCHANGED <<round, window, limit>>

(* What seller and driver may do with a round order, which is always       *)
(* delivered directly.                                                     *)
DeliveryTransitions ==
  {<<"ACCEPTED", "PREPARING">>, <<"PREPARING", "DELIVERING">>,
   <<"PREPARING", "DELIVERY_HELD">>, <<"DELIVERING", "DELIVERED">>,
   <<"DELIVERING", "DELIVERY_HELD">>, <<"DELIVERY_HELD", "PREPARING">>,
   <<"DELIVERY_HELD", "DELIVERING">>}

HeldOrderDeltaIgnoringFee(o, next) ==
  IF next = "DELIVERY_HELD" THEN 1 ELSE IF order[o].status = "DELIVERY_HELD" THEN -1 ELSE 0
HeldOrderDelta(o, next) ==
  IF next = "DELIVERY_HELD" THEN 1
  ELSE IF \/ next = "DELIVERING" /\ RedeliveryRequired(o)
          \/ order[o].status = "DELIVERY_HELD" /\ ~RedeliveryRequired(o)
       THEN -1 ELSE 0

UpdateOrderStatus(o, next, fee) ==
  /\ <<order[o].status, next>> \in DeliveryTransitions
  /\ next = "DELIVERING" /\ RedeliveryRequired(o) => order[o].redelivery = "paid"
  /\ ~(next = "DELIVERY_HELD" /\ order[o].status = "PREPARING" /\ RedeliveryRequired(o))
  /\ fee # "none" => next = "DELIVERY_HELD"
  /\ AdjustHeldOrderCount(HeldOrderDelta(o, next))
  /\ order' = [order EXCEPT ![o].status = next,
                            ![o].redelivery = IF next \in {"DELIVERY_HELD", "DELIVERING"}
                                              THEN fee ELSE @]
  /\ UNCHANGED <<round, window, limit, reserved, ordered, reservation>>

(* The customer pays the redelivery fee of the current hold. *)
PayRedeliveryFee(o) ==
  /\ HoldCounted(o) /\ order[o].redelivery = "unpaid"
  /\ order' = [order EXCEPT ![o].redelivery = "paid"]
  /\ UNCHANGED <<round, window, limit, reserved, ordered, heldOrderCount, reservation>>
-----------------------------------------------------------------------------
(* The round. *)

(* isRoundOrderCancellationPending, for orders whose cancellation is       *)
(* either not begun or complete.                                           *)
OrderUnfinishedOncePaid(o) ==
  order[o].status \notin {"NONE", "PENDING", "DELIVERED", "CANCELLED"}
OrderUnfinished(o) == order[o].status \notin {"NONE", "DELIVERED", "CANCELLED"}

RoundUnchanged ==
  UNCHANGED <<window, limit, reserved, ordered, heldOrderCount, reservation, order>>

RefreshStatus ==
  /\ EffectiveRound # round
  /\ round' = EffectiveRound
  /\ RoundUnchanged

UpdateRoundStatus(next) ==
  /\ next \in NextStatuses(round.status)
  /\ next = "OPEN" => ManualOpenEligible(round, window)
  /\ round' = [round EXCEPT !.status = next,
                            !.closeReason = IF next = "CLOSED" THEN "MANUAL" ELSE "none"]
  /\ RoundUnchanged

CompleteRound ==
  /\ "COMPLETED" \in NextStatuses(round.status)
  /\ heldOrderCount = 0
  /\ \A o \in Orders : ~OrderUnfinished(o)
  /\ round' = [round EXCEPT !.status = "COMPLETED"]
  /\ RoundUnchanged

(* The three transactions of a round's cancellation.  A claim whose lease  *)
(* ran out is taken over by another worker, which leaves this state as is. *)
ClaimRoundCancellation ==
  /\ "CANCELLED" \in NextStatuses(round.status)
  /\ round.cancellation # "CANCELLING"
  /\ round' = [round EXCEPT !.cancellation = "CANCELLING"]
  /\ RoundUnchanged

RecordCancellationFailure ==
  /\ round.cancellation = "CANCELLING"
  /\ round' = [round EXCEPT !.cancellation = "LOCAL_FAILED"]
  /\ RoundUnchanged

FinalizeRoundCancellation ==
  /\ round.cancellation = "CANCELLING"
  /\ \A o \in Orders : ~OrderUnfinished(o)
  /\ round' = [status |-> "CANCELLED", closeReason |-> "none", cancellation |-> "COMPLETED"]
  /\ RoundUnchanged

HasRoundUsage == \E x \in RoundResources : reserved[x] > 0 \/ ordered[x] > 0

(* The seller edits a round that is not on sale yet: its schedule at will, *)
(* its limits and items only while nothing uses them.                      *)
UpdateRound(newLimits, newWindow) ==
  LET edited == [x \in Resources |-> IF x \in RoundResources THEN newLimits[x] ELSE limit[x]]
  IN /\ round.status \in {"DRAFT", "SCHEDULED"} /\ round.cancellation = "none"
     /\ edited # limit => ~HasRoundUsage
     /\ limit' = edited
     /\ window' = newWindow
     /\ UNCHANGED <<round, reserved, ordered, heldOrderCount, reservation, order>>

(* The seller restocks an option, by an amount to add or by what is to     *)
(* remain besides what is reserved and ordered.                            *)
StockBaseSubtractsSold(s, adds) == IF adds THEN limit[s] ELSE 0 - reserved[s] - ordered[s]
StockBase(s, adds) == IF adds THEN limit[s] ELSE reserved[s] + ordered[s]

UpdateStock(s, amount, adds) ==
  /\ adds => amount > 0
  /\ StockBase(s, adds) + amount <= StockBound
  /\ limit' = [limit EXCEPT ![s] = StockBase(s, adds) + amount]
  /\ UNCHANGED <<round, window, reserved, ordered, heldOrderCount, reservation, order>>

PassTime ==
  /\ \/ window = "before" /\ window' = "open"
     \/ window = "open" /\ window' = "after"
  /\ UNCHANGED <<round, limit, reserved, ordered, heldOrderCount, reservation, order>>
-----------------------------------------------------------------------------
Init ==
  /\ round = [status |-> "DRAFT", closeReason |-> "none", cancellation |-> "none"]
  /\ window \in Windows
  /\ \E limits \in RoundLimits :
       limit = [x \in Resources |-> IF x \in RoundResources THEN limits[x] ELSE InitialStock[x]]
  /\ reserved = [x \in Resources |-> 0]
  /\ ordered = [x \in Resources |-> 0]
  /\ heldOrderCount = 0
  /\ reservation = [r \in Reservations |->
                      [status |-> "NONE", order |-> NoOrder, lapsed |-> FALSE]]
  /\ order = [o \in Orders |-> [status |-> "NONE", cancelReason |-> "none",
                                reservation |-> NoReservation, redelivery |-> "none"]]

OrderStep(o) ==
  \/ CreateOrder(o)
  \/ FinalizePaidOrder(o)
  \/ FinalizeLatePaidOrder(o)
  \/ \E reason \in {"timeout", "other"} : CancelPendingOrder(o, reason)
  \/ CancelOrder(o)
  \/ \E next \in OrderStatuses, fee \in {"none", "unpaid"} : UpdateOrderStatus(o, next, fee)
  \/ PayRedeliveryFee(o)

RoundStep ==
  \/ RefreshStatus
  \/ \E next \in {"SCHEDULED", "OPEN", "CLOSED"} : UpdateRoundStatus(next)
  \/ CompleteRound
  \/ ClaimRoundCancellation
  \/ RecordCancellationFailure
  \/ FinalizeRoundCancellation
  \/ \E newLimits \in RoundLimits, newWindow \in Windows : UpdateRound(newLimits, newWindow)
  \/ PassTime

Next ==
  \/ \E o \in Orders : OrderStep(o)
  \/ \E r \in Reservations : Lapse(r)
  \/ RoundStep
  \/ \E s \in Stocks, amount \in 0 .. StockBound, adds \in BOOLEAN : UpdateStock(s, amount, adds)

Spec == Init /\ [][Next]_vars
-----------------------------------------------------------------------------
(* Every variable keeps to the values its documents may hold. *)
ReservationRecords ==
  [status : ReservationStatuses, order : Orders \union {NoOrder}, lapsed : BOOLEAN]

OrderRecords ==
  [status : OrderStatuses, cancelReason : {"none", "timeout", "other"},
   reservation : Reservations \union {NoReservation}, redelivery : {"none", "unpaid", "paid"}]

TypeOK ==
  /\ round \in Rounds
  /\ window \in Windows
  /\ limit \in [Resources -> Nat]
  /\ reserved \in [Resources -> Nat]
  /\ ordered \in [Resources -> Nat]
  /\ heldOrderCount \in Nat
  /\ reservation \in [Reservations -> ReservationRecords]
  /\ order \in [Orders -> OrderRecords]

(* The counters of the round, of its items and of the option stocks, which *)
(* ten handlers update by increments, are at all times what the            *)
(* reservations add up to: held ones in reserved, paid ones in ordered.    *)
CountersMatchReservations ==
  \A x \in Resources : /\ reserved[x] = Occupied(WithStatus("HELD"), x)
                       /\ ordered[x] = Occupied(WithStatus("CONSUMED"), x)

(* Nothing is sold twice: what is reserved or ordered never exceeds the    *)
(* round's limits, an item's saleLimitQuantity or an option's stock, not   *)
(* even when a lapsed hold is consumed, when a late payment takes capacity *)
(* again or when the seller edits a limit.                                 *)
NoOversell == \A x \in Resources : reserved[x] + ordered[x] <= limit[x]

(* heldOrderCount, which blocks the completion of a round, counts exactly  *)
(* the orders on hold, through repeated holds, resumptions with or without *)
(* a redelivery fee and cancellations.                                     *)
HeldOrdersCounted == heldOrderCount = Cardinality({o \in Orders : HoldCounted(o)})

(* An order and its reservation agree.  A waiting order holds capacity, an *)
(* order in progress has paid for it, a cancelled one occupies nothing;    *)
(* and capacity is occupied only by the order the reservation was made for.*)
ReservationStatusFor(status) ==
  CASE status = "PENDING" -> {"HELD"}
    [] status = "CANCELLED" -> {"RELEASED", "EXPIRED"}
    [] OTHER -> {"CONSUMED"}

OrdersOwnTheirReservations ==
  /\ \A o \in Orders : order[o].status # "NONE" =>
       /\ order[o].reservation \in Reservations
       /\ reservation[order[o].reservation].order = o
       /\ reservation[order[o].reservation].status \in ReservationStatusFor(order[o].status)
  /\ \A r \in WithStatus("HELD") \union WithStatus("CONSUMED") :
       /\ reservation[r].order \in Orders
       /\ order[reservation[r].order].reservation = r
       /\ order[reservation[r].order].status # "NONE"

(* The unexpired holds one customer has in the round. *)
ActiveHoldsBounded == \A u \in Users : Cardinality(ActiveHolds(u)) <= MaxHolds

(* What a customer gets through checkouts paid before their hold lapsed. *)
TimelyReservations(u) ==
  {r \in WithStatus("HELD") \union WithStatus("CONSUMED") :
     r \in CheckoutReservations /\ OfUser(u, r) /\ ~reservation[r].lapsed}

TimelyPurchasesWithinLimit ==
  \A u \in Users, i \in Items : Occupied(TimelyReservations(u), i) <= PerCustomerItemLimit(i)

(* No customer has more unexpired holds in the round than allowed, or gets *)
(* more of an item than the per-customer limit through checkouts paid in   *)
(* time, however holds lapse, are paid, expire and are taken again, and    *)
(* whatever the seller edits.                                              *)
CustomersKeepTheirLimits == ActiveHoldsBounded /\ TimelyPurchasesWithinLimit

(* What the seller may still edit, nobody has ordered from. *)
EditableRoundIsUnused ==
  round.status \in {"DRAFT", "SCHEDULED"} =>
    \A o \in Orders : order[o].status = "NONE"

(* What is completed or cancelled has left nothing open. *)
FinishedRoundIsSettled ==
  round.status \in {"COMPLETED", "CANCELLED"} =>
    /\ \A o \in Orders : ~OrderUnfinished(o)
    /\ WithStatus("HELD") = {}
    /\ heldOrderCount = 0

(* The round's status, which clock, counters, seller and cancellation move,*)
(* fits its orders: schedule, limits and items are editable only before    *)
(* the first order, and a round completed or cancelled has no order under  *)
(* way, no hold waiting for a payment and no order counted as held.        *)
RoundStatusFitsItsOrders == EditableRoundIsUnused /\ FinishedRoundIsSettled

(* A reservation only moves forward, and stays with the order it was made  *)
(* for: capacity that was given back is never revived.  In a round that is *)
(* being cancelled no checkout and no late payment makes a new one.        *)
ReservationSuccessors(status) ==
  CASE status = "NONE" -> {"NONE", "HELD", "CONSUMED"}
    [] status = "HELD" -> {"HELD", "CONSUMED", "RELEASED", "EXPIRED"}
    [] status = "CONSUMED" -> {"CONSUMED", "RELEASED"}
    [] OTHER -> {status}

ReservationsMoveForward ==
  [][\A r \in Reservations :
       /\ reservation'[r].status \in ReservationSuccessors(reservation[r].status)
       /\ reservation[r].order \in {NoOrder, reservation'[r].order}
       /\ round.cancellation # "none" /\ reservation[r].status = "NONE" =>
            reservation'[r].status = "NONE"]_vars

(* The handlers, which look only at counters, one reservation and one order*)
(* at a time, sell like a shop that adds all shares up again before it     *)
(* gives one away: no history of lapsed holds, late payments, shared       *)
(* request ids, edits, closings and cancellations gives a share twice, or  *)
(* one that does not fit, or any after the round is over.                  *)
OrderTakes == [o \in Orders |-> [x \in Resources |-> Demand(o, x)]]

SalePhase ==
  CASE round.status \in {"DRAFT", "SCHEDULED"} -> "preparing"
    [] round.status \in {"OPEN", "CLOSED"} -> "running"
    [] OTHER -> "over"

ShareOf(record) ==
  CASE record.status = "NONE" -> "none"
    [] record.status = "PENDING" -> "held"
    [] record.status = "CANCELLED" ->
         IF record.cancelReason = "timeout" THEN "expired" ELSE "returned"
    [] OTHER -> "bought"

SharesOfOrders == [o \in Orders |-> ShareOf(order[o])]

Sale == INSTANCE LimitedSale WITH
  Buyers <- Orders, Goods <- Resources, FixedGoods <- RoundResources, Takes <- OrderTakes,
  phase <- SalePhase, offered <- limit, share <- SharesOfOrders
SellsWithinLimits == Sale!Spec

(* What the comment on resolvePerCustomerItemLimit says: unexpired holds   *)
(* and payments of one customer, taken together, never exceed the limit    *)
(* (late payments, which it excepts, left aside).                          *)
CustomerLimitHolds ==
  \A u \in Users, i \in Items :
    Occupied(CustomerOwned(u) \intersect CheckoutReservations, i) <= PerCustomerItemLimit(i)

(* What the transition table of a round says: COMPLETED has no successor.  *)
CompletedRoundIsFinal ==
  [][round.status = "COMPLETED" => round'.status = "COMPLETED"]_vars
=============================================================================
