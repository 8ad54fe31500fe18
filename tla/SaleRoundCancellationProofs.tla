---------------------- MODULE SaleRoundCancellationProofs ----------------------
(***************************************************************************)
(* What holds of a round's cancellation for any number of requests and     *)
(* orders.  The claim on the round protects no refund; the mark that a     *)
(* cancellation leaves on its order does.  The inductive invariant says so:*)
(* a request that is past its claim on an order finds the order marked,    *)
(* and an order on its way is not marked.                                  *)
(***************************************************************************)
EXTENDS SaleRoundCancellation, TLAPS

Marked(o) == CancellationRunning(o) \/ order[o].status = "CANCELLED"

MarkedNext(o) == order'[o].cancellation \in InProgress \/ order'[o].status = "CANCELLED"

AfterClaim == OrderSteps \ {"claimOrder"}
WorkIsMarked == \A w \in Workers : work[w].step \in AfterClaim => Marked(work[w].order)

(* Orders under way are marked or paid, those delivered are paid, those    *)
(* not accepted or given up do not count as paid in time.                  *)
MoneyFollows(o) ==
  /\ order[o].status \in {"DELIVERING", "DELIVERED"} =>
       order[o].payment = "PAID" /\ ~CancellationRunning(o)
  /\ order[o].status = "ACCEPTED" /\ ~CancellationRunning(o) => order[o].payment = "PAID"
  /\ order[o].status \in {"PENDING", "CANCELLED"} => order[o].payment # "PAID"
  /\ order[o].status = "NONE" => order[o].payment = "NONE" /\ ~CancellationRunning(o)

Ended(o) == order[o].status \in {"NONE", "DELIVERED", "CANCELLED"}
CancelledRoundEnded == round.status = "CANCELLED" => \A o \in Orders : Ended(o)

CancellationInv ==
  /\ TypeOK
  /\ WorkIsMarked
  /\ \A o \in Orders : MoneyFollows(o)
  /\ CancelledRoundEnded

(***************************************************************************)
(* All that ever happens to the documents of an order.                     *)
(***************************************************************************)
MarkedBy(o, r) ==
  /\ Cancellable(o) \/ Marked(o)
  /\ r.status = order[o].status /\ r.payment = order[o].payment
  /\ r.cancellation \in InProgress

RefundedBy(o, r) ==
  /\ Marked(o) \/ order[o].payment = "LATE"
  /\ r.status = order[o].status /\ r.cancellation = order[o].cancellation
  /\ r.payment = "CANCELLED"

CancelledBy(o, r) ==
  /\ Cancellable(o) \/ order[o].status = "CANCELLED"
  /\ order[o].payment # "PAID"
  /\ r.status = "CANCELLED" /\ r.payment = order[o].payment

AcceptedBy(o, r) ==
  /\ order[o].status = "PENDING"
  /\ r.status = "ACCEPTED" /\ r.payment = "PAID" /\ r.cancellation = order[o].cancellation

CreatedBy(o, r) ==
  /\ order[o].status = "NONE" /\ round.status = "OPEN"
  /\ r.status = "PENDING" /\ r.payment = order[o].payment
  /\ r.cancellation = order[o].cancellation

BookedLateBy(o, r) ==
  /\ Marked(o) \/ order[o].status = "CANCELLED"
  /\ order[o].status \in {"PENDING", "CANCELLED"}
  /\ r.status = order[o].status /\ r.cancellation = order[o].cancellation
  /\ r.payment = "LATE"

MovedBy(o, r) ==
  /\ \/ order[o].status = "ACCEPTED" /\ r.status = "DELIVERING"
     \/ order[o].status = "DELIVERING" /\ r.status \in {"DELIVERED", "ACCEPTED"}
  /\ ~CancellationRunning(o)
  /\ r.payment = order[o].payment /\ r.cancellation = order[o].cancellation

Legal(o, r) ==
  \/ MarkedBy(o, r) \/ RefundedBy(o, r) \/ CancelledBy(o, r) \/ AcceptedBy(o, r)
  \/ CreatedBy(o, r) \/ BookedLateBy(o, r) \/ MovedBy(o, r)

OrderMoves ==
  \/ UNCHANGED order
  \/ \E o \in Orders, r \in OrderRecords : Legal(o, r) /\ order' = [order EXCEPT ![o] = r]

(* A mark stays until the order is cancelled. *)
LEMMA MarksStay ==
  ASSUME TypeOK, OrderMoves, NEW p \in Orders, Marked(p)
  PROVE  MarkedNext(p)
<1>1. CASE UNCHANGED order
  BY <1>1 DEF Marked, MarkedNext, CancellationRunning
<1>2. ASSUME NEW o \in Orders, NEW r \in OrderRecords, Legal(o, r),
             order' = [order EXCEPT ![o] = r]
      PROVE  MarkedNext(p)
  <2>1. order \in [Orders -> OrderRecords]
    BY DEF TypeOK
  <2>2. CASE p # o
    BY <1>2, <2>1, <2>2 DEF Marked, MarkedNext, CancellationRunning
  <2>3. CASE p = o
    <3>1. order'[o] = r
      BY <1>2, <2>1
    <3>2. r.status = "CANCELLED" \/ r.cancellation \in InProgress
      BY <1>2, <2>3 DEF Legal, MarkedBy, RefundedBy, CancelledBy, AcceptedBy, CreatedBy,
        BookedLateBy, MovedBy, Marked, CancellationRunning
    <3> QED
      BY <2>3, <3>1, <3>2 DEF Marked, MarkedNext, CancellationRunning
  <2> QED
    BY <2>2, <2>3
<1> QED
  BY <1>1, <1>2 DEF OrderMoves

LEMMA MoneyStays ==
  ASSUME TypeOK, OrderMoves, NEW p \in Orders, MoneyFollows(p)
  PROVE  MoneyFollows(p)'
<1>1. CASE UNCHANGED order
  BY <1>1 DEF MoneyFollows, CancellationRunning
<1>2. ASSUME NEW o \in Orders, NEW r \in OrderRecords, Legal(o, r),
             order' = [order EXCEPT ![o] = r]
      PROVE  MoneyFollows(p)'
  <2>1. order \in [Orders -> OrderRecords]
    BY DEF TypeOK
  <2>2. CASE p # o
    BY <1>2, <2>1, <2>2 DEF MoneyFollows, CancellationRunning
  <2>3. CASE p = o
    <3>1. order'[o] = r
      BY <1>2, <2>1
    <3>2. order[o] \in OrderRecords
      BY <2>1
    <3> USE <2>3, <3>1, <3>2 DEF MoneyFollows, CancellationRunning, Marked, Cancellable
    <3>3. CASE MarkedBy(o, r)
      BY <3>3 DEF MarkedBy
    <3>4. CASE RefundedBy(o, r)
      BY <3>4 DEF RefundedBy
    <3>5. CASE CancelledBy(o, r)
      BY <3>5 DEF CancelledBy
    <3>6. CASE AcceptedBy(o, r)
      BY <3>6 DEF AcceptedBy
    <3>7. CASE CreatedBy(o, r)
      BY <3>7 DEF CreatedBy
    <3>8. CASE BookedLateBy(o, r)
      BY <3>8 DEF BookedLateBy
    <3>9. CASE MovedBy(o, r)
      BY <3>9 DEF MovedBy
    <3> QED
      BY <1>2, <3>3, <3>4, <3>5, <3>6, <3>7, <3>8, <3>9 DEF Legal
  <2> QED
    BY <2>2, <2>3
<1> QED
  BY <1>1, <1>2 DEF OrderMoves

(* An order that has ended stays so in a round that is not open.           *)
LEMMA EndedStays ==
  ASSUME TypeOK, OrderMoves, NEW p \in Orders, MoneyFollows(p), Ended(p), round.status # "OPEN"
  PROVE  Ended(p)'
<1>1. CASE UNCHANGED order
  BY <1>1 DEF Ended
<1>2. ASSUME NEW o \in Orders, NEW r \in OrderRecords, Legal(o, r),
             order' = [order EXCEPT ![o] = r]
      PROVE  Ended(p)'
  <2>1. order \in [Orders -> OrderRecords]
    BY DEF TypeOK
  <2>2. CASE p # o
    BY <1>2, <2>1, <2>2 DEF Ended
  <2>3. CASE p = o
    <3>1. order'[o] = r
      BY <1>2, <2>1
    <3>2. r.status \in {"NONE", "DELIVERED", "CANCELLED"}
      BY <1>2, <2>3 DEF Ended, Legal, MarkedBy, RefundedBy, CancelledBy, AcceptedBy, CreatedBy,
        BookedLateBy, MovedBy
    <3> QED
      BY <2>3, <3>1, <3>2 DEF Ended
  <2> QED
    BY <2>2, <2>3
<1> QED
  BY <1>1, <1>2 DEF OrderMoves

(***************************************************************************)
(* The requests.                                                           *)
(***************************************************************************)
RoundAction(w) ==
  \/ AssertNoOrdersInDelivery(w) \/ ClaimRound(w) \/ ListOrders(w) \/ NextOrder(w)
  \/ AssertLease(w) \/ FinalizeCancellation(w) \/ RecordCancellationFailure(w)

(* What a request that leaves an order as it is may do to its own work:    *)
(* never does it pass the claim on an order unless the order is marked.    *)
WorkMoves(w) ==
  \E x \in [step : Steps, order : Orders \union {Nobody}, todo : SUBSET Orders] :
    /\ work' = [work EXCEPT ![w] = x]
    /\ x.step \in OrderSteps => x.order \in Orders
    /\ x.step \in AfterClaim => MarkedNext(x.order)

LEMMA WorkTypes ==
  ASSUME TypeOK, NEW w \in Workers
  PROVE  /\ work[w] \in [step : Steps, order : Orders \union {Nobody}, todo : SUBSET Orders]
         /\ work[w].step \in OrderSteps => work[w].order \in Orders
BY DEF TypeOK

LEMMA IdleMoves ==
  ASSUME NEW w \in Workers, work' = [work EXCEPT ![w] = Idle]
  PROVE  WorkMoves(w)
<1>1. /\ Idle \in [step : Steps, order : Orders \union {Nobody}, todo : SUBSET Orders]
      /\ Idle.step = "idle"
  BY DEF Idle, Steps
<1> QED
  BY <1>1 DEF WorkMoves, OrderSteps, AfterClaim

(* Failing and ending keep to the steps outside an order. *)
LEMMA FailMoves ==
  ASSUME TypeOK, NEW w \in Workers, Fail(w)
  PROVE  WorkMoves(w)
<1>1. work[w] \in [step : Steps, order : Orders \union {Nobody}, todo : SUBSET Orders]
  BY WorkTypes
<1>2. CASE w \in Administrators
  <2> DEFINE x == [work[w] EXCEPT !.step = "failed"]
  <2>1. /\ work' = [work EXCEPT ![w] = x]
        /\ x \in [step : Steps, order : Orders \union {Nobody}, todo : SUBSET Orders]
        /\ x.step = "failed"
    BY <1>1, <1>2 DEF Fail, Goto, Steps, RefundSteps
  <2> QED
    BY <2>1 DEF WorkMoves, OrderSteps, AfterClaim
<1>3. CASE w \notin Administrators
  <2>1. work' = [work EXCEPT ![w] = Idle]
    BY <1>3 DEF Fail
  <2> QED
    BY <2>1, IdleMoves
<1> QED
  BY <1>2, <1>3

LEMMA DoneMoves ==
  ASSUME TypeOK, NEW w \in Workers, Done(w)
  PROVE  WorkMoves(w)
<1>1. work[w] \in [step : Steps, order : Orders \union {Nobody}, todo : SUBSET Orders]
  BY WorkTypes
<1>2. CASE w \in Administrators
  <2> DEFINE x == [work[w] EXCEPT !.step = "assertLease"]
  <2>1. /\ work' = [work EXCEPT ![w] = x]
        /\ x \in [step : Steps, order : Orders \union {Nobody}, todo : SUBSET Orders]
        /\ x.step = "assertLease"
    BY <1>1, <1>2 DEF Done, Goto, Steps, RefundSteps
  <2> QED
    BY <2>1 DEF WorkMoves, OrderSteps, AfterClaim
<1>3. CASE w \notin Administrators
  <2>1. work' = [work EXCEPT ![w] = Idle]
    BY <1>3 DEF Done
  <2> QED
    BY <2>1, IdleMoves
<1> QED
  BY <1>2, <1>3

(* Going on with the same order needs the mark on it. *)
LEMMA GotoMoves ==
  ASSUME TypeOK, NEW w \in Workers, NEW step \in Steps, Goto(w, step),
         step \in OrderSteps => work[w].order \in Orders,
         step \in AfterClaim => MarkedNext(work[w].order)
  PROVE  WorkMoves(w)
<1>1. work[w] \in [step : Steps, order : Orders \union {Nobody}, todo : SUBSET Orders]
  BY WorkTypes
<1> DEFINE x == [work[w] EXCEPT !.step = step]
<1>2. /\ work' = [work EXCEPT ![w] = x]
      /\ x \in [step : Steps, order : Orders \union {Nobody}, todo : SUBSET Orders]
      /\ x.step = step /\ x.order = work[w].order
  BY <1>1 DEF Goto
<1> QED
  BY <1>2 DEF WorkMoves

(***************************************************************************)
(* Every step moves orders and work within these bounds.                   *)
(***************************************************************************)
LEMMA SetCancellationMoves ==
  ASSUME TypeOK, NEW o \in Orders, NEW status \in InProgress,
         Cancellable(o) \/ Marked(o), SetCancellation(o, status)
  PROVE  OrderMoves /\ MarkedNext(o)
<1> DEFINE r == [order[o] EXCEPT !.cancellation = status]
<1>1. order \in [Orders -> OrderRecords]
  BY DEF TypeOK
<1>2. /\ order' = [order EXCEPT ![o] = r] /\ r \in OrderRecords
      /\ r.status = order[o].status /\ r.payment = order[o].payment
      /\ r.cancellation = status
  BY <1>1 DEF SetCancellation, OrderRecords
<1>3. Legal(o, r)
  BY <1>2 DEF Legal, MarkedBy
<1>4. order'[o] = r
  BY <1>1, <1>2
<1> QED
  BY <1>2, <1>3, <1>4 DEF OrderMoves, MarkedNext

LEMMA RefundMoves ==
  ASSUME TypeOK, NEW o \in Orders, Marked(o) \/ order[o].payment = "LATE",
         order' = [order EXCEPT ![o].payment = "CANCELLED"]
  PROVE  OrderMoves
<1> DEFINE r == [order[o] EXCEPT !.payment = "CANCELLED"]
<1>1. order \in [Orders -> OrderRecords]
  BY DEF TypeOK
<1>2. /\ order' = [order EXCEPT ![o] = r] /\ r \in OrderRecords
      /\ r.status = order[o].status /\ r.cancellation = order[o].cancellation
      /\ r.payment = "CANCELLED"
  BY <1>1 DEF OrderRecords
<1>3. Legal(o, r)
  BY <1>2 DEF Legal, RefundedBy
<1> QED
  BY <1>2, <1>3 DEF OrderMoves

LEMMA ClaimCancellationMoves ==
  ASSUME CancellationInv, NEW w \in Workers, ClaimCancellation(w)
  PROVE  OrderMoves /\ WorkMoves(w)
<1>1. TypeOK
  BY DEF CancellationInv
<1> DEFINE o == work[w].order
<1>2. o \in Orders
  BY <1>1, WorkTypes DEF ClaimCancellation, OrderSteps, Steps
<1>3. ASSUME Fail(w), UNCHANGED order
      PROVE  OrderMoves /\ WorkMoves(w)
  BY <1>1, <1>3, FailMoves DEF OrderMoves
<1>4. CASE AlreadyCancelled(w, o)
  BY <1>1, <1>4, DoneMoves DEF AlreadyCancelled, OrderMoves
<1>5. ASSUME NEW needed \in BOOLEAN, RefundIf(w, needed), MarkedNext(o), OrderMoves
      PROVE  OrderMoves /\ WorkMoves(w)
  <2>1. CASE needed
    <3>1. Goto(w, "refund")
      BY <1>5, <2>1 DEF RefundIf
    <3> QED
      BY <1>1, <1>2, <1>5, <3>1, GotoMoves DEF Steps, RefundSteps
  <2>2. CASE ~needed
    <3>1. Goto(w, "applyLocal")
      BY <1>5, <2>2 DEF RefundIf
    <3> QED
      BY <1>1, <1>2, <1>5, <3>1, GotoMoves DEF Steps, RefundSteps
  <2> QED
    BY <2>1, <2>2
<1>6. CASE ContinueClaimed(w, o)
  <2>1. RefundIf(w, Paid(o)) /\ UNCHANGED order
    BY <1>6 DEF ContinueClaimed
  <2>2. MarkedNext(o)
    BY <1>6 DEF ContinueClaimed, MarkedNext, InProgress
  <2>3. Paid(o) \in BOOLEAN
    BY DEF Paid
  <2> QED
    BY <2>1, <2>2, <2>3, <1>5 DEF OrderMoves
<1>7. CASE ContinueLocal(w, o)
  <2>1. Goto(w, "applyLocal") /\ UNCHANGED order
    BY <1>7 DEF ContinueLocal
  <2>2. MarkedNext(o)
    BY <1>7 DEF ContinueLocal, MarkedNext, InProgress
  <2> QED
    BY <1>1, <1>2, <2>1, <2>2, GotoMoves DEF OrderMoves, Steps
<1>8. CASE ClaimFresh(w, o)
  <2> DEFINE needed == order[o].status # "PENDING" \/ Paid(o)
  <2>1. /\ Cancellable(o)
        /\ SetCancellation(o, IF needed THEN "REFUNDING" ELSE "LOCAL_PENDING")
        /\ RefundIf(w, needed)
    BY <1>8 DEF ClaimFresh
  <2>2. (IF needed THEN "REFUNDING" ELSE "LOCAL_PENDING") \in InProgress
    BY DEF InProgress
  <2>3. OrderMoves /\ MarkedNext(o)
    BY <1>1, <1>2, <2>1, <2>2, SetCancellationMoves
  <2>4. needed \in BOOLEAN
    BY DEF Paid
  <2> QED
    BY <2>1, <2>3, <2>4, <1>5
<1>9. CASE RefuseCancellation(w, o)
  BY <1>3, <1>9 DEF RefuseCancellation
<1> QED
  BY <1>3, <1>4, <1>6, <1>7, <1>8, <1>9 DEF ClaimCancellation

(* The order a request is at, once it is past the claim on it. *)
LEMMA AfterClaimFacts ==
  ASSUME CancellationInv, NEW w \in Workers, work[w].step \in AfterClaim
  PROVE  TypeOK /\ work[w].order \in Orders /\ Marked(work[w].order)
BY WorkTypes DEF CancellationInv, WorkIsMarked, AfterClaim

LEMMA AfterRefundMoves ==
  ASSUME CancellationInv, NEW w \in Workers, work[w].step \in RefundSteps,
         OrderMoves, NEW step \in Steps, Goto(w, step)
  PROVE  WorkMoves(w)
<1>1. work[w].step \in AfterClaim
  BY DEF AfterClaim, OrderSteps, Steps, RefundSteps
<1>2. TypeOK /\ work[w].order \in Orders /\ MarkedNext(work[w].order)
  BY <1>1, AfterClaimFacts, MarksStay
<1> QED
  BY <1>2, GotoMoves

LEMMA RefundStepsMove ==
  ASSUME CancellationInv, NEW w \in Workers,
         Refunded(w) \/ RefundLeftToAnother(w) \/ RefundFails(w)
  PROVE  OrderMoves /\ WorkMoves(w)
<1>1. work[w].step \in RefundSteps
  BY DEF Refunded, RefundLeftToAnother, RefundFails
<1>2. work[w].step \in AfterClaim
  BY <1>1 DEF AfterClaim, OrderSteps, Steps, RefundSteps
<1>3. TypeOK /\ work[w].order \in Orders /\ Marked(work[w].order)
  BY <1>2, AfterClaimFacts
<1>4. \/ UNCHANGED order
      \/ order' = [order EXCEPT ![work[w].order].payment = "CANCELLED"]
  BY DEF Refunded, RefundLeftToAnother, RefundFails
<1>5. OrderMoves
  BY <1>3, <1>4, RefundMoves DEF OrderMoves
<1>6. \E step \in Steps : Goto(w, step)
  BY DEF Refunded, RefundLeftToAnother, RefundFails, AfterRefund, Steps
<1> QED
  BY <1>1, <1>5, <1>6, AfterRefundMoves

LEMMA RecordRefundDoneMoves ==
  ASSUME CancellationInv, NEW w \in Workers, RecordRefundDone(w)
  PROVE  OrderMoves /\ WorkMoves(w)
<1> DEFINE o == work[w].order
<1>1. work[w].step \in AfterClaim
  BY DEF RecordRefundDone, AfterClaim, OrderSteps, Steps
<1>2. TypeOK /\ o \in Orders /\ Marked(o)
  BY <1>1, AfterClaimFacts
<1>3. CASE Fenced(w)
  <2>1. SetCancellation(o, "LOCAL_PENDING") /\ \E step \in {"applyLocal", "applyLocalAgain"} : Goto(w, step)
    BY <1>3 DEF RecordRefundDone
  <2>2. OrderMoves /\ MarkedNext(o)
    BY <1>2, <2>1, SetCancellationMoves DEF InProgress
  <2> QED
    BY <1>2, <2>1, <2>2, GotoMoves DEF Steps
<1>4. CASE ~Fenced(w)
  BY <1>2, <1>4, FailMoves DEF RecordRefundDone, OrderMoves
<1> QED
  BY <1>3, <1>4

LEMMA RecordFailureMoves ==
  ASSUME CancellationInv, NEW w \in Workers, RecordFailure(w)
  PROVE  OrderMoves /\ WorkMoves(w)
<1> DEFINE o == work[w].order
<1>1. work[w].step \in AfterClaim
  BY DEF RecordFailure, AfterClaim, OrderSteps, Steps
<1>2. TypeOK /\ o \in Orders /\ Marked(o)
  BY <1>1, AfterClaimFacts
<1>3. UNCHANGED order \/ \E status \in InProgress : SetCancellation(o, status)
  BY DEF RecordFailure, InProgress
<1>4. OrderMoves
  BY <1>2, <1>3, SetCancellationMoves DEF OrderMoves
<1> QED
  BY <1>2, <1>4, FailMoves DEF RecordFailure

LEMMA ApplyLocalMoves ==
  ASSUME CancellationInv, NEW w \in Workers, ApplyLocalCancellation(w)
  PROVE  OrderMoves /\ WorkMoves(w)
<1> DEFINE o == work[w].order
<1>1. work[w].step \in AfterClaim
  BY DEF ApplyLocalCancellation, AfterClaim, OrderSteps, Steps
<1>2. TypeOK /\ o \in Orders /\ Marked(o)
  BY <1>1, AfterClaimFacts
<1>3. CASE Goto(w, "localFailed") /\ UNCHANGED order
  <2>1. OrderMoves /\ MarkedNext(o)
    BY <1>2, <1>3 DEF OrderMoves, Marked, MarkedNext, CancellationRunning
  <2> QED
    BY <1>2, <1>3, <2>1, GotoMoves DEF Steps
<1>4. CASE RefundOnceMore(w, o)
  <2>1. SetCancellation(o, "REFUNDING") /\ (Goto(w, "refundAgain") \/ Fail(w))
    BY <1>4 DEF RefundOnceMore
  <2>2. OrderMoves /\ MarkedNext(o)
    BY <1>2, <2>1, SetCancellationMoves DEF InProgress
  <2> QED
    BY <1>2, <2>1, <2>2, GotoMoves, FailMoves DEF Steps, RefundSteps
<1>5. CASE ~StillPaid(w, o) /\ CancelOrder(w, o)
  <2> DEFINE r == [order[o] EXCEPT !.status = "CANCELLED", !.cancellation = "COMPLETED"]
  <2>1. order \in [Orders -> OrderRecords]
    BY <1>2 DEF TypeOK
  <2>2. /\ order' = [order EXCEPT ![o] = r] /\ r \in OrderRecords
        /\ r.status = "CANCELLED" /\ r.payment = order[o].payment
    <3>1. order[o] \in OrderRecords
      BY <1>2, <2>1
    <3>2. r \in OrderRecords /\ r.status = "CANCELLED" /\ r.payment = order[o].payment
      BY <3>1 DEF OrderRecords, Statuses
    <3>3. order' = [order EXCEPT ![o] = r]
      BY <1>2, <1>5, <2>1, <3>1 DEF CancelOrder, OrderRecords
    <3> QED
      BY <3>2, <3>3
  <2>3. Legal(o, r)
    BY <1>5, <2>2 DEF Legal, CancelledBy, CancelOrder, StillPaid, Paid
  <2>4. OrderMoves /\ MarkedNext(o)
    <3>1. order'[o] = r
      BY <1>2, <2>1, <2>2
    <3> QED
      BY <1>2, <2>2, <2>3, <3>1 DEF OrderMoves, MarkedNext
  <2>5. Goto(w, "settle")
    BY <1>5 DEF CancelOrder
  <2> QED
    BY <1>2, <2>4, <2>5, GotoMoves DEF Steps
<1> QED
  BY <1>3, <1>4, <1>5 DEF ApplyLocalCancellation

LEMMA CancelSettlementMoves ==
  ASSUME CancellationInv, NEW w \in Workers, CancelSettlement(w)
  PROVE  OrderMoves /\ WorkMoves(w)
<1>1. work[w].step \in AfterClaim
  BY DEF CancelSettlement, AfterClaim, OrderSteps, Steps
<1>2. TypeOK /\ work[w].order \in Orders /\ Marked(work[w].order)
  BY <1>1, AfterClaimFacts
<1>3. OrderMoves /\ MarkedNext(work[w].order)
  BY <1>2 DEF CancelSettlement, OrderMoves, Marked, MarkedNext, CancellationRunning
<1>4. CASE Goto(w, "localFailed")
  BY <1>2, <1>3, <1>4, GotoMoves DEF Steps
<1>5. CASE Done(w)
  BY <1>2, <1>3, <1>5, DoneMoves
<1> QED
  BY <1>4, <1>5 DEF CancelSettlement

LEMMA CancelMoves ==
  ASSUME CancellationInv, NEW w \in Workers, Cancel(w)
  PROVE  OrderMoves /\ WorkMoves(w) /\ UNCHANGED <<round, claim>>
<1>1. OrderMoves /\ WorkMoves(w)
  BY ClaimCancellationMoves, RefundStepsMove, RecordRefundDoneMoves, RecordFailureMoves,
     ApplyLocalMoves, CancelSettlementMoves DEF Cancel
<1>2. UNCHANGED <<round, claim>>
  BY DEF Cancel, ClaimCancellation, Refunded, RefundLeftToAnother, RefundFails,
     RecordRefundDone, RecordFailure, ApplyLocalCancellation, CancelSettlement
<1> QED
  BY <1>1, <1>2

LEMMA RoundActionMoves ==
  ASSUME CancellationInv, NEW w \in Workers, RoundAction(w)
  PROVE  UNCHANGED order /\ WorkMoves(w)
<1>1. TypeOK
  BY DEF CancellationInv
<1>2. work \in [Workers -> [step : Steps, order : Orders \union {Nobody}, todo : SUBSET Orders]]
  BY <1>1 DEF TypeOK
<1>3. ASSUME NEW step \in Steps \ OrderSteps, Goto(w, step)
      PROVE  WorkMoves(w)
  BY <1>1, <1>3, GotoMoves DEF AfterClaim
<1>4. ASSUME Fail(w)
      PROVE  WorkMoves(w)
  BY <1>1, <1>4, FailMoves
<1>5. CASE AssertNoOrdersInDelivery(w)
  BY <1>3, <1>5 DEF AssertNoOrdersInDelivery, Steps, OrderSteps
<1>6. CASE ClaimRound(w)
  <2>1. Goto(w, "listOrders") \/ work' = [work EXCEPT ![w] = Idle]
    BY <1>6 DEF ClaimRound
  <2>2. "listOrders" \in Steps \ OrderSteps
    BY DEF Steps, OrderSteps
  <2> QED
    BY <1>3, <1>6, <2>1, <2>2, IdleMoves DEF ClaimRound
<1>7. CASE ListOrders(w)
  <2> DEFINE x == [work[w] EXCEPT !.step = "nextOrder",
                                  !.todo = {o \in Orders : CancellationPending(o)}]
  <2>1. work[w] \in [step : Steps, order : Orders \union {Nobody}, todo : SUBSET Orders]
    BY <1>2
  <2>2. /\ x \in [step : Steps, order : Orders \union {Nobody}, todo : SUBSET Orders]
        /\ x.step = "nextOrder"
    BY <2>1 DEF Steps
  <2>3. work' = [work EXCEPT ![w] = x]
    BY <1>2, <1>7, <2>1 DEF ListOrders
  <2> QED
    BY <1>7, <2>2, <2>3 DEF ListOrders, WorkMoves, OrderSteps, AfterClaim
<1>8. CASE NextOrder(w)
  <2>1. CASE Fail(w)
    BY <1>4, <1>8, <2>1 DEF NextOrder
  <2>2. CASE Goto(w, "finalize")
    BY <1>3, <1>8, <2>2 DEF NextOrder, Steps, OrderSteps
  <2>3. ASSUME NEW o \in work[w].todo,
               work' = [work EXCEPT ![w] = [step |-> "claimOrder", order |-> o, todo |-> @.todo \ {o}]]
        PROVE  WorkMoves(w)
    <3> DEFINE x == [step |-> "claimOrder", order |-> o, todo |-> work[w].todo \ {o}]
    <3>1. work[w].todo \in SUBSET Orders
      BY <1>2
    <3>2. /\ x \in [step : Steps, order : Orders \union {Nobody}, todo : SUBSET Orders]
          /\ x.step = "claimOrder" /\ x.order \in Orders
      BY <3>1 DEF Steps
    <3>3. work' = [work EXCEPT ![w] = x]
      BY <2>3
    <3> QED
      BY <3>2, <3>3 DEF WorkMoves, AfterClaim
  <2> QED
    BY <1>8, <2>1, <2>2, <2>3 DEF NextOrder
<1>9. CASE AssertLease(w)
  <2>1. "nextOrder" \in Steps \ OrderSteps
    BY DEF Steps, OrderSteps
  <2> QED
    BY <1>3, <1>4, <1>9, <2>1 DEF AssertLease
<1>10. CASE FinalizeCancellation(w)
  BY <1>4, <1>10, IdleMoves DEF FinalizeCancellation
<1>11. CASE RecordCancellationFailure(w)
  BY <1>11, IdleMoves DEF RecordCancellationFailure
<1> QED
  BY <1>5, <1>6, <1>7, <1>8, <1>9, <1>10, <1>11 DEF RoundAction

LEMMA StartCancelMoves ==
  ASSUME CancellationInv, NEW w \in Workers, NEW o \in Orders, StartCancel(w, o)
  PROVE  WorkMoves(w)
<1> DEFINE x == [step |-> "claimOrder", order |-> o, todo |-> {}]
<1>1. /\ x \in [step : Steps, order : Orders \union {Nobody}, todo : SUBSET Orders]
      /\ x.step = "claimOrder" /\ x.order \in Orders
  BY DEF Steps
<1>2. work' = [work EXCEPT ![w] = x]
  BY DEF StartCancel
<1> QED
  BY <1>1, <1>2 DEF WorkMoves, AfterClaim

(* The orders' own steps. *)
LEMMA OrderStepMoves ==
  ASSUME CancellationInv, NEW o \in Orders, OrderStep(o)
  PROVE  OrderMoves /\ UNCHANGED <<round, claim, work>>
<1>1. TypeOK /\ MoneyFollows(o)
  BY DEF CancellationInv
<1>2. order \in [Orders -> OrderRecords] /\ order[o] \in OrderRecords
  BY <1>1 DEF TypeOK
<1>3. ASSUME NEW r \in OrderRecords, order' = [order EXCEPT ![o] = r], Legal(o, r)
      PROVE  OrderMoves
  BY <1>3 DEF OrderMoves
<1>4. UNCHANGED <<round, claim, work>>
  BY DEF OrderStep, CreateOrder, FinalizePaidOrder, CancelPendingOrder, BookLatePayment,
     RefundLatePayment, LateRefundFails, DispatchOrder, DeliverOrder, HoldDelivery
<1>5. CASE CreateOrder(o)
  <2> DEFINE r == [order[o] EXCEPT !.status = "PENDING"]
  <2>1. r \in OrderRecords /\ order' = [order EXCEPT ![o] = r]
    BY <1>2, <1>5 DEF CreateOrder, OrderRecords, Statuses
  <2>2. Legal(o, r)
    BY <1>2, <1>5 DEF CreateOrder, OrderRecords, OrderWindowOpen, Legal, CreatedBy
  <2> QED
    BY <1>3, <1>4, <2>1, <2>2
<1>6. CASE FinalizePaidOrder(o)
  <2> DEFINE r == [order[o] EXCEPT !.status = "ACCEPTED", !.payment = "PAID"]
  <2>1. r \in OrderRecords /\ order' = [order EXCEPT ![o] = r]
    BY <1>2, <1>6 DEF FinalizePaidOrder, OrderRecords, Statuses
  <2>2. Legal(o, r)
    BY <1>2, <1>6 DEF FinalizePaidOrder, OrderRecords, Legal, AcceptedBy
  <2> QED
    BY <1>3, <1>4, <2>1, <2>2
<1>7. CASE CancelPendingOrder(o)
  <2> DEFINE r == [order[o] EXCEPT !.status = "CANCELLED"]
  <2>1. r \in OrderRecords /\ order' = [order EXCEPT ![o] = r]
    BY <1>2, <1>7 DEF CancelPendingOrder, OrderRecords, Statuses
  <2>2. Legal(o, r)
    BY <1>1, <1>2, <1>7 DEF CancelPendingOrder, OrderRecords, Legal, CancelledBy, Cancellable,
      MoneyFollows
  <2> QED
    BY <1>3, <1>4, <2>1, <2>2
<1>8. CASE BookLatePayment(o)
  <2> DEFINE r == [order[o] EXCEPT !.payment = "LATE"]
  <2>1. r \in OrderRecords /\ order' = [order EXCEPT ![o] = r]
    BY <1>2, <1>8 DEF BookLatePayment, OrderRecords
  <2>2. Legal(o, r)
    BY <1>2, <1>8 DEF BookLatePayment, OrderUnclaimed, OrderRecords, Legal, BookedLateBy, Marked,
      CancellationRunning, InProgress
  <2> QED
    BY <1>3, <1>4, <2>1, <2>2
<1>9. CASE RefundLatePayment(o)
  BY <1>1, <1>4, <1>9, RefundMoves DEF RefundLatePayment
<1>10. CASE LateRefundFails(o)
  <2>1. Cancellable(o) \/ Marked(o)
    BY <1>1, <1>2, <1>10 DEF LateRefundFails, MoneyFollows, Cancellable, Marked, OrderRecords, Statuses
  <2> QED
    BY <1>1, <1>4, <1>10, <2>1, SetCancellationMoves DEF LateRefundFails, InProgress
<1>11. CASE DispatchOrder(o)
  <2> DEFINE r == [order[o] EXCEPT !.status = "DELIVERING"]
  <2>1. r \in OrderRecords /\ order' = [order EXCEPT ![o] = r]
    BY <1>2, <1>11 DEF DispatchOrder, OrderRecords, Statuses
  <2>2. Legal(o, r)
    BY <1>2, <1>11 DEF DispatchOrder, MayDispatch, OrderRecords, Legal, MovedBy
  <2> QED
    BY <1>3, <1>4, <2>1, <2>2
<1>12. CASE DeliverOrder(o)
  <2> DEFINE r == [order[o] EXCEPT !.status = "DELIVERED"]
  <2>1. r \in OrderRecords /\ order' = [order EXCEPT ![o] = r]
    BY <1>2, <1>12 DEF DeliverOrder, OrderRecords, Statuses
  <2>2. Legal(o, r)
    BY <1>2, <1>12 DEF DeliverOrder, MayDispatch, OrderRecords, Legal, MovedBy
  <2> QED
    BY <1>3, <1>4, <2>1, <2>2
<1>13. CASE HoldDelivery(o)
  <2> DEFINE r == [order[o] EXCEPT !.status = "ACCEPTED"]
  <2>1. r \in OrderRecords /\ order' = [order EXCEPT ![o] = r]
    BY <1>2, <1>13 DEF HoldDelivery, OrderRecords, Statuses
  <2>2. Legal(o, r)
    BY <1>2, <1>13 DEF HoldDelivery, MayDispatch, OrderRecords, Legal, MovedBy
  <2> QED
    BY <1>3, <1>4, <2>1, <2>2
<1> QED
  BY <1>4, <1>5, <1>6, <1>7, <1>8, <1>9, <1>10, <1>11, <1>12, <1>13 DEF OrderStep

(***************************************************************************)
(* The round: it is cancelled once, when its orders have ended.            *)
(***************************************************************************)
RoundMoves ==
  /\ round' \in Rounds
  /\ claim' \in [owner : Workers \union {Nobody}, lease : {"live", "lapsed"}]
  /\ claim'.lease = "live" => claim'.owner \in Administrators /\ round'.cancellation = "CANCELLING"
  /\ round.status = "CANCELLED" => round'.status = "CANCELLED"
  /\ round'.status = "CANCELLED" /\ round.status # "CANCELLED" =>
       UNCHANGED order /\ \A o \in Orders : Ended(o)

LEMMA RoundFacts ==
  ASSUME TypeOK
  PROVE  /\ round \in Rounds
         /\ claim \in [owner : Workers \union {Nobody}, lease : {"live", "lapsed"}]
         /\ claim.lease = "live" => claim.owner \in Administrators /\ round.cancellation = "CANCELLING"
BY DEF TypeOK

LEMMA RoundKept ==
  ASSUME TypeOK, UNCHANGED <<round, claim>>
  PROVE  RoundMoves
BY RoundFacts DEF RoundMoves

LEMMA RoundActionKeepsRound ==
  ASSUME TypeOK, NEW w \in Administrators, RoundAction(w)
  PROVE  RoundMoves
<1>1. CASE AssertNoOrdersInDelivery(w) \/ ListOrders(w) \/ NextOrder(w) \/ AssertLease(w)
  BY <1>1, RoundKept DEF AssertNoOrdersInDelivery, ListOrders, NextOrder, AssertLease
<1>2. CASE ClaimRound(w)
  <2>1. CASE UNCHANGED <<round, claim>>
    BY <2>1, RoundKept
  <2>2. CASE /\ "CANCELLED" \in NextStatuses(round.status)
             /\ round' = [round EXCEPT !.cancellation = "CANCELLING"]
             /\ claim' = [owner |-> w, lease |-> "live"]
    BY <2>2, RoundFacts DEF RoundMoves, Rounds, CancellationStatuses, Workers, NextStatuses
  <2> QED
    BY <1>2, <2>1, <2>2 DEF ClaimRound
<1>3. CASE FinalizeCancellation(w)
  <2>1. CASE UNCHANGED <<round, claim>>
    BY <2>1, RoundKept
  <2>2. CASE /\ round' = [status |-> "CANCELLED", closeReason |-> "none", cancellation |-> "COMPLETED"]
             /\ claim' = ClaimGivenUp
             /\ round.status = "CANCELLED" \/ \A o \in Orders : ~CancellationPending(o)
    <3>1. round' \in Rounds /\ round'.status = "CANCELLED"
      BY <2>2 DEF Rounds, RoundStatuses, CloseReasons, CancellationStatuses
    <3>2. claim' \in [owner : Workers \union {Nobody}, lease : {"live", "lapsed"}]
          /\ claim'.lease = "lapsed"
      BY <2>2 DEF ClaimGivenUp, NoClaim
    <3>3. round.status # "CANCELLED" => \A o \in Orders : Ended(o)
      BY <2>2 DEF CancellationPending, Ended
    <3> QED
      BY <1>3, <3>1, <3>2, <3>3 DEF RoundMoves, FinalizeCancellation
  <2> QED
    BY <1>3, <2>1, <2>2 DEF FinalizeCancellation
<1>4. CASE RecordCancellationFailure(w)
  <2>1. CASE UNCHANGED <<round, claim>>
    BY <2>1, RoundKept
  <2>2. CASE /\ round' = [round EXCEPT !.cancellation = "LOCAL_FAILED"]
             /\ claim' = ClaimGivenUp
    BY <2>2, RoundFacts DEF RoundMoves, Rounds, CancellationStatuses, ClaimGivenUp, NoClaim
  <2> QED
    BY <1>4, <2>1, <2>2 DEF RecordCancellationFailure
<1> QED
  BY <1>1, <1>2, <1>3, <1>4 DEF RoundAction

(* Every step, in these terms. *)
LEMMA NextMoves ==
  ASSUME CancellationInv, Next
  PROVE  OrderMoves /\ RoundMoves /\ (UNCHANGED work \/ \E w \in Workers : WorkMoves(w))
<1>1. TypeOK
  BY DEF CancellationInv
<1>2. CASE \E w \in Administrators : CancelRound(w)
  <2>1. PICK w \in Administrators : RoundAction(w)
    BY <1>2 DEF CancelRound, RoundAction
  <2>2. w \in Workers
    BY DEF Workers
  <2> QED
    BY <1>1, <2>1, <2>2, RoundActionMoves, RoundActionKeepsRound DEF OrderMoves
<1>3. CASE \E w \in Cancellers, o \in Orders : StartCancel(w, o)
  <2>1. PICK w \in Cancellers, o \in Orders : StartCancel(w, o)
    BY <1>3
  <2>2. w \in Workers
    BY DEF Workers
  <2> QED
    BY <1>1, <2>1, <2>2, StartCancelMoves, RoundKept DEF StartCancel, OrderMoves
<1>4. ASSUME NEW w \in Workers, Cancel(w) \/ Crash(w)
      PROVE  OrderMoves /\ RoundMoves /\ WorkMoves(w)
  <2>1. CASE Cancel(w)
    BY <1>1, <2>1, CancelMoves, RoundKept
  <2>2. CASE Crash(w)
    BY <1>1, <2>2, IdleMoves, RoundKept DEF Crash, OrderMoves
  <2> QED
    BY <1>4, <2>1, <2>2
<1>5. ASSUME NEW o \in Orders, OrderStep(o)
      PROVE  OrderMoves /\ RoundMoves /\ UNCHANGED work
  BY <1>1, <1>5, OrderStepMoves, RoundKept
<1>6. CASE CloseRound \/ CompleteRound
  <2>1. RoundMoves
    BY <1>1, <1>6, RoundFacts DEF CloseRound, CompleteRound, RoundMoves, Rounds, RoundStatuses,
      CloseReasons, NextStatuses
  <2> QED
    BY <1>6, <2>1 DEF CloseRound, CompleteRound, OrderMoves
<1>7. CASE LeaseLapses
  <2>1. RoundMoves
    BY <1>1, <1>7, RoundFacts DEF LeaseLapses, RoundMoves
  <2> QED
    BY <1>7, <2>1 DEF LeaseLapses, OrderMoves
<1> QED
  BY <1>2, <1>3, <1>4, <1>5, <1>6, <1>7 DEF Next

LEMMA MovesKeepInv ==
  ASSUME CancellationInv, OrderMoves, RoundMoves,
         UNCHANGED work \/ \E w \in Workers : WorkMoves(w)
  PROVE  CancellationInv'
<1>1. TypeOK /\ WorkIsMarked /\ (\A o \in Orders : MoneyFollows(o)) /\ CancelledRoundEnded
  BY DEF CancellationInv
<1> DEFINE Work == [step : Steps, order : Orders \union {Nobody}, todo : SUBSET Orders]
<1>2. /\ work' \in [Workers -> Work]
      /\ \A v \in Workers : work'[v].step \in OrderSteps => work'[v].order \in Orders
      /\ \A v \in Workers : work'[v].step \in AfterClaim => MarkedNext(work'[v].order)
  <2>1. \A v \in Workers : /\ work[v] \in Work
                           /\ work[v].step \in OrderSteps => work[v].order \in Orders
                           /\ work[v].step \in AfterClaim => MarkedNext(work[v].order)
    BY <1>1, MarksStay, WorkTypes DEF WorkIsMarked, AfterClaim
  <2>2. work \in [Workers -> Work]
    BY <1>1 DEF TypeOK
  <2>3. CASE UNCHANGED work
    BY <2>1, <2>2, <2>3
  <2>4. ASSUME NEW w \in Workers, WorkMoves(w)
        PROVE  <1>2!:
    <3>1. PICK x \in Work :
            /\ work' = [work EXCEPT ![w] = x]
            /\ x.step \in OrderSteps => x.order \in Orders
            /\ x.step \in AfterClaim => MarkedNext(x.order)
      BY <2>4 DEF WorkMoves
    <3>2. \A v \in Workers : work'[v] = IF v = w THEN x ELSE work[v]
      BY <2>2, <3>1
    <3>3. work' \in [Workers -> Work]
      BY <2>2, <3>1
    <3> QED
      BY <2>1, <3>1, <3>2, <3>3
  <2> QED
    BY <2>3, <2>4
<1>3. order' \in [Orders -> OrderRecords]
  BY <1>1 DEF OrderMoves, TypeOK
<1>4. TypeOK'
  BY <1>2, <1>3 DEF TypeOK, RoundMoves
<1>5. WorkIsMarked'
  BY <1>2 DEF WorkIsMarked, MarkedNext, Marked, CancellationRunning
<1>6. ASSUME NEW o \in Orders
      PROVE  MoneyFollows(o)'
  BY <1>1, MoneyStays
<1>7. CancelledRoundEnded'
  <2>1. SUFFICES ASSUME round'.status = "CANCELLED", NEW o \in Orders
                 PROVE  Ended(o)'
    BY DEF CancelledRoundEnded
  <2>2. CASE round.status = "CANCELLED"
    <3>1. Ended(o) /\ MoneyFollows(o) /\ round.status # "OPEN"
      BY <1>1, <2>2 DEF CancelledRoundEnded
    <3> QED
      BY <1>1, <3>1, EndedStays
  <2>3. CASE round.status # "CANCELLED"
    BY <2>1, <2>3 DEF RoundMoves, Ended
  <2> QED
    BY <2>2, <2>3
<1> QED
  BY <1>4, <1>5, <1>6, <1>7 DEF CancellationInv

(***************************************************************************)
(* The invariant, and what follows from it.                                *)
(***************************************************************************)
LEMMA InitEstablishesInv ==
  ASSUME Init
  PROVE  CancellationInv
<1>1. TypeOK
  BY DEF Init, TypeOK, NoClaim, Idle, Rounds, RoundStatuses, CloseReasons, CancellationStatuses,
    OrderRecords, Statuses, OrderSteps, Steps
<1>2. WorkIsMarked
  BY DEF Init, WorkIsMarked, AfterClaim, OrderSteps, Idle
<1>3. \A o \in Orders : MoneyFollows(o)
  BY DEF Init, MoneyFollows, CancellationRunning, InProgress
<1>4. CancelledRoundEnded
  BY DEF Init, CancelledRoundEnded
<1> QED
  BY <1>1, <1>2, <1>3, <1>4 DEF CancellationInv

LEMMA StutterKeepsInv ==
  ASSUME CancellationInv, UNCHANGED vars
  PROVE  CancellationInv'
BY DEF vars, CancellationInv, TypeOK, WorkIsMarked, Marked, MoneyFollows, CancelledRoundEnded,
  Ended, CancellationRunning

(* The inductive invariant holds of every run. *)
THEOREM CancellationInvariant == Spec => []CancellationInv
<1>1. Init => CancellationInv
  BY InitEstablishesInv
<1>2. CancellationInv /\ [Next]_vars => CancellationInv'
  BY NextMoves, MovesKeepInv, StutterKeepsInv
<1> QED
  BY <1>1, <1>2, PTL DEF Spec

(* Round, claim, orders and requests keep their types.                     *)
THEOREM TypeCorrectness == Spec => []TypeOK
<1>1. CancellationInv => TypeOK
  BY DEF CancellationInv
<1> QED
  BY <1>1, CancellationInvariant, PTL

(* No cancellation refunds an order that is delivered, whichever requests  *)
(* lost their claims on the round while refunding.                         *)
THEOREM DeliveredAreNotRefunded == Spec => []DeliveredOrdersKeepTheirMoney
<1>1. CancellationInv => DeliveredOrdersKeepTheirMoney
  BY DEF CancellationInv, MoneyFollows, DeliveredOrdersKeepTheirMoney
<1> QED
  BY <1>1, CancellationInvariant, PTL

(* A cancelled round has no order left, and has refunded what was paid.    *)
THEOREM CancelledRoundsAreSettled == Spec => []CancelledRoundIsSettled
<1>1. CancellationInv => CancelledRoundIsSettled
  BY DEF CancellationInv, MoneyFollows, CancelledRoundEnded, Ended, CancelledRoundIsSettled
<1> QED
  BY <1>1, CancellationInvariant, PTL

(***************************************************************************)
(* A cancelled round is closed to the requests of administrators: without  *)
(* a claim they mark no order, and nobody gets a claim any more.           *)
(***************************************************************************)
LeftOpen(o) == order[o].status = "CANCELLED" /\ order[o].cancellation = "REFUND_FAILED"

RoundClosed ==
  round.status = "CANCELLED" =>
    round.cancellation = "COMPLETED" /\ \A o \in Orders : CancellationPending(o) => LeftOpen(o)

(* What leaves every order's status and mark as they are keeps it closed.  *)
LEMMA ClosedStays ==
  ASSUME RoundClosed, UNCHANGED round,
         round.status = "CANCELLED" =>
           \A o \in Orders : /\ order'[o].status = order[o].status
                             /\ order'[o].cancellation = order[o].cancellation
  PROVE  RoundClosed'
BY DEF RoundClosed, CancellationPending, LeftOpen

(* Without a claim, a request changes only what is paid. *)
LEMMA RequestsLeaveClosed ==
  ASSUME CancellationInv, RoundClosed, NEW w \in Administrators, Cancel(w)
  PROVE  RoundClosed'
<1>1. UNCHANGED round
  BY DEF Cancel, ClaimCancellation, Refunded, RefundLeftToAnother, RefundFails, RecordRefundDone,
     RecordFailure, ApplyLocalCancellation, CancelSettlement
<1>2. SUFFICES ASSUME round.status = "CANCELLED", NEW o \in Orders
               PROVE  /\ order'[o].status = order[o].status
                      /\ order'[o].cancellation = order[o].cancellation
  BY <1>1, ClosedStays
<1>3. ~Fenced(w)
  BY <1>2 DEF RoundClosed, Fenced, Owns
<1>4. order[o] \in OrderRecords /\ order \in [Orders -> OrderRecords]
  BY DEF CancellationInv, TypeOK
<1>5. CASE Refunded(w) \/ RefundFails(w)
  <2>1. UNCHANGED order \/ order' = [order EXCEPT ![work[w].order].payment = "CANCELLED"]
    BY <1>5 DEF Refunded, RefundFails
  <2> QED
    BY <1>4, <2>1 DEF OrderRecords
<1>6. CASE ~(Refunded(w) \/ RefundFails(w))
  BY <1>3, <1>6 DEF Cancel, ClaimCancellation, RefundLeftToAnother, RecordRefundDone, RecordFailure,
     ApplyLocalCancellation, CancelSettlement
<1> QED
  BY <1>5, <1>6

(* Nobody claims a cancelled round, and it is cancelled when all is settled. *)
LEMMA RoundStepsLeaveClosed ==
  ASSUME CancellationInv, RoundClosed, NEW w \in Administrators, CancelRound(w)
  PROVE  RoundClosed'
<1>1. UNCHANGED order
  BY DEF CancelRound, AssertNoOrdersInDelivery, ClaimRound, ListOrders, NextOrder, AssertLease,
     FinalizeCancellation, RecordCancellationFailure
<1>2. CASE UNCHANGED round
  BY <1>1, <1>2, ClosedStays
<1>3. CASE /\ "CANCELLED" \in NextStatuses(round.status)
           /\ round' = [round EXCEPT !.cancellation = "CANCELLING"]
  <2>1. round.status # "CANCELLED" /\ round \in Rounds
    BY <1>3 DEF NextStatuses, CancellationInv, TypeOK
  <2> QED
    BY <1>3, <2>1 DEF RoundClosed, Rounds
<1>4. CASE FinalizeCancellation(w)
  BY <1>1, <1>2, <1>4 DEF FinalizeCancellation, RoundClosed, CancellationPending, LeftOpen
<1>5. CASE Owns(w) /\ round' = [round EXCEPT !.cancellation = "LOCAL_FAILED"]
  <2>1. round.status # "CANCELLED" /\ round \in Rounds
    BY <1>5 DEF Owns, RoundClosed, CancellationInv, TypeOK
  <2> QED
    BY <1>5, <2>1 DEF RoundClosed, Rounds
<1> QED
  BY <1>2, <1>3, <1>4, <1>5 DEF CancelRound, AssertNoOrdersInDelivery, ClaimRound, ListOrders,
     NextOrder, AssertLease, RecordCancellationFailure

(* In a cancelled round only a late payment still marks an order. *)
LEMMA OrdersLeaveClosed ==
  ASSUME CancellationInv, RoundClosed, NEW o \in Orders, OrderStep(o)
  PROVE  RoundClosed'
<1>1. UNCHANGED round
  BY DEF OrderStep, CreateOrder, FinalizePaidOrder, CancelPendingOrder, BookLatePayment,
     RefundLatePayment, LateRefundFails, DispatchOrder, DeliverOrder, HoldDelivery
<1>2. SUFFICES ASSUME round.status = "CANCELLED"
               PROVE  RoundClosed'
  BY <1>1, ClosedStays
<1>3. Ended(o) /\ MoneyFollows(o) /\ order \in [Orders -> OrderRecords] /\ order[o] \in OrderRecords
  BY <1>2 DEF CancellationInv, TypeOK, CancelledRoundEnded
<1>4. CASE LateRefundFails(o)
  <2>1. order[o].status = "CANCELLED"
    BY <1>3, <1>4 DEF LateRefundFails, Ended, MoneyFollows
  <2>2. \A p \in Orders \ {o} : order'[p] = order[p]
    BY <1>3, <1>4 DEF LateRefundFails, SetCancellation
  <2>3. order'[o].status = "CANCELLED" /\ order'[o].cancellation = "REFUND_FAILED"
    BY <1>3, <1>4, <2>1 DEF LateRefundFails, SetCancellation, OrderRecords
  <2> QED
    BY <1>1, <2>2, <2>3 DEF RoundClosed, CancellationPending, LeftOpen
<1>5. CASE BookLatePayment(o) \/ RefundLatePayment(o)
  <2>1. PICK payment : order' = [order EXCEPT ![o].payment = payment]
    BY <1>5 DEF BookLatePayment, RefundLatePayment
  <2>2. \A p \in Orders : /\ order'[p].status = order[p].status
                          /\ order'[p].cancellation = order[p].cancellation
    BY <1>3, <2>1 DEF TypeOK, CancellationInv, OrderRecords
  <2> QED
    BY <1>1, <2>2, ClosedStays
<1>6. ~(\/ CreateOrder(o) \/ FinalizePaidOrder(o) \/ CancelPendingOrder(o) \/ DispatchOrder(o)
        \/ DeliverOrder(o) \/ HoldDelivery(o))
  BY <1>2, <1>3 DEF CreateOrder, OrderWindowOpen, FinalizePaidOrder, CancelPendingOrder,
     DispatchOrder, DeliverOrder, HoldDelivery, Ended
<1> QED
  BY <1>4, <1>5, <1>6 DEF OrderStep

(* No step opens a cancelled round. *)
LEMMA NextLeavesClosed ==
  ASSUME CancellationInv, RoundClosed, Cancellers = {}, [Next]_vars
  PROVE  RoundClosed'
<1>1. Workers = Administrators
  BY DEF Workers
<1>2. CASE CloseRound \/ CompleteRound
  <2>1. round \in Rounds
    BY DEF CancellationInv, TypeOK
  <2>2. round'.status # "CANCELLED"
    BY <1>2, <2>1 DEF CloseRound, CompleteRound, Rounds
  <2> QED
    BY <2>2 DEF RoundClosed
<1>3. CASE UNCHANGED <<round, order>>
  BY <1>3, ClosedStays
<1> QED
  BY <1>1, <1>2, <1>3, RequestsLeaveClosed, RoundStepsLeaveClosed, OrdersLeaveClosed
     DEF Next, Crash, LeaseLapses, vars

(* With administrators' requests alone, those that lost the claim write    *)
(* nothing into a cancelled round: none of its orders is left with a       *)
(* cancellation that waits for a retry, but for late payments whose refund *)
(* failed.                                                                 *)
THEOREM CancelledRoundsAreClosed ==
  ASSUME Cancellers = {}
  PROVE  Spec => []CancelledRoundIsClosed
<1>1. Init => RoundClosed
  BY DEF Init, RoundClosed
<1>2. CancellationInv /\ RoundClosed /\ [Next]_vars => RoundClosed'
  BY NextLeavesClosed
<1>3. RoundClosed => CancelledRoundIsClosed
  BY DEF RoundClosed, CancelledRoundIsClosed, LeftOpen
<1> QED
  BY <1>1, <1>2, <1>3, CancellationInvariant, PTL DEF Spec
===============================================================================
