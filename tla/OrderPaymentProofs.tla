--------------------------- MODULE OrderPaymentProofs ---------------------------
(***************************************************************************)
(* Theorems about OrderPayment, for any number of finalisers, cancellers   *)
(* and crashes.  The argument has two parts.  A payment that was made      *)
(* leaves evidence that is never lost (Evidence): as long as there is      *)
(* none, the provider still repeats its notification.  And whoever returns *)
(* money has first marked the order, with a reason or a cancellation, and  *)
(* the mark stays (Unmarked).                                              *)
(***************************************************************************)
EXTENDS MCOrderAndFees, TLAPS

Taken == {"ACCEPTED", "DELIVERING"}
Asking == {"readback", "recheck", "post"}
Recording == {"complete", "completeAfterReadback"}
RefundCalls == {"settleRefund", "cancelRefund", "cancelRefundAgain"}
FinalSteps == {"readFinal", "recheckFinal", "postFinal", "recordLate", "markFinal", "uncertainFinal"}
HarmlessSteps == {"free", "lookedUp", "settle", "timeOut"}

(* A payment was taken notice of: its order was taken, or its refund was   *)
(* begun or recorded.                                                      *)
Evidence ==
  \/ order.status \in Taken
  \/ claim.status # "NONE" \/ finalRefund.status # "NONE"
  \/ payment = "CANCELLED"

Unmarked == order.reason = "none" /\ order.cancellation = "none"
-------------------------------------------------------------------------------
(* The documents. *)

ClaimRecords == [status : {"NONE", "CLAIMED", "UNKNOWN"}, token : Workers \union {Nobody},
                 key : Workers \union {Nobody}, lease : {"live", "lapsed"}]
ProviderRecords == [status : {"READY", "PAID", "CANCELLED"},
                    by : Workers \union {Nobody, "finalization"}]
OrderRecords == [status : {"PENDING", "ACCEPTED", "DELIVERING", "CANCELLED"},
                 reason : {"none", "timeout", "payment_failed", "amount_mismatch", "customer"},
                 cancellation : InProgress \union {"none", "COMPLETED"},
                 lateRefund : {"none", "recorded"}]
FinalRecords == [status : {"NONE", "CLAIMED", "UNKNOWN", "REFUNDED"},
                 token : Workers \union {Nobody}, lease : {"live", "lapsed"}]
RefundRecords == [pc : Steps, key : Workers \union {Nobody}]
JobRecords == [step : {"free"} \union FinalizerSteps \union CancellerSteps,
               for : {"nobody", "webhook", "us"}]

PaymentTypes ==
  /\ payment \in {"NONE", "PAID", "CANCELLED"} /\ claim \in ClaimRecords
  /\ claim.status # "NONE" => payment = "PAID" /\ claim.key \in Workers
  /\ provider \in ProviderRecords /\ stray \subseteq Workers \union {"finalization"}
OrderTypes ==
  /\ order \in OrderRecords /\ (order.status = "CANCELLED" => order.reason # "none")
  /\ finalRefund \in FinalRecords /\ amount \in {"matches", "differs"}
  /\ webhook \in {"none", "due", "acknowledged"}

NoticedPayments ==
  /\ provider.status # "READY" => webhook = "due" \/ Evidence
  /\ provider.status = "CANCELLED" \/ stray # {} => Evidence
  /\ order.lateRefund = "recorded" => finalRefund.status # "NONE"

OrdersFollowMoney ==
  /\ order.status \in Taken => payment # "NONE" /\ amount = "matches"
  /\ order.status \in Taken /\ Unmarked => payment = "PAID"
  /\ order.cancellation = "COMPLETED" => order.reason # "none"
  /\ order.status = "DELIVERING" /\ order.reason = "none" => order.cancellation = "none"

UnmarkedIsQuiet ==
  Unmarked /\ amount = "matches" =>
    /\ stray = {} /\ claim.status = "NONE" /\ finalRefund.status = "NONE"
    /\ provider.status # "CANCELLED"

DocumentInv ==
  /\ PaymentTypes /\ OrderTypes /\ BooksMatchProvider
  /\ NoticedPayments /\ OrdersFollowMoney /\ UnmarkedIsQuiet
-------------------------------------------------------------------------------
(* A worker at step s of its job, with the refund r, for whom it works. *)
StepFits(s) ==
  /\ s \in {"lookedUp", "settle"} => provider.status # "READY"
  /\ s \in {"recordLate", "markFinal"} => provider.status = "CANCELLED"
  /\ s \in FinalSteps => finalRefund.status # "NONE"
  /\ s = "cancelMismatch" => Evidence
  /\ s \in RefundCalls => payment # "NONE"
  /\ s \notin HarmlessSteps /\ amount = "matches" => ~Unmarked
  /\ s = "settle" => amount = "matches"
RefundFits(s, r) ==
  /\ r.pc # "idle" => s \in RefundCalls /\ Evidence
  /\ r.pc \in Asking => r.key \in Workers
  /\ r.pc \in Recording => provider.status = "CANCELLED"
ServesFits(j) == j.for = "webhook" => j.step \in FinalizerSteps \ {"timeOut"}

WorkersFit ==
  /\ job \in [Workers -> JobRecords] /\ refund \in [Workers -> RefundRecords]
  /\ \A w \in Workers :
       StepFits(job[w].step) /\ RefundFits(job[w].step, refund[w]) /\ ServesFits(job[w])

OrderInv == DocumentInv /\ WorkersFit
-------------------------------------------------------------------------------
(* What no step takes back. *)
Stable ==
  /\ amount' = amount /\ (Evidence => Evidence') /\ (~Unmarked => ~Unmarked')
  /\ provider.status # "READY" => provider'.status # "READY"
  /\ provider.status = "CANCELLED" => provider'.status = "CANCELLED"
  /\ finalRefund.status # "NONE" => finalRefund'.status # "NONE"
  /\ payment # "NONE" => payment' # "NONE"

(* Worker w is not in refundByOrderId after this step. *)
Rests(w) ==
  /\ refund' \in [Workers -> RefundRecords] /\ refund'[w].pc = "idle"
  /\ \A v \in Workers \ {w} : refund'[v] = refund[v]

(* The provider's notification is answered only once the payment was       *)
(* taken notice of.                                                        *)
Answered == webhook' \in {"none", "due", "acknowledged"} /\ (webhook' = webhook \/ Evidence')

LEMMA WorkersStay ==
  ASSUME WorkersFit, Stable, UNCHANGED <<job, refund>>
  PROVE  WorkersFit'
BY DEF WorkersFit, StepFits, RefundFits, ServesFits, Stable

LEMMA JobMoves ==
  ASSUME WorkersFit, Stable, NEW w \in Workers, NEW j \in JobRecords,
         job' = [job EXCEPT ![w] = j], Rests(w), StepFits(j.step)', ServesFits(j)
  PROVE  WorkersFit'
<1>1. job' \in [Workers -> JobRecords] /\ job'[w] = j
        /\ \A v \in Workers \ {w} : job'[v] = job[v]
  BY DEF WorkersFit
<1>2. refund' \in [Workers -> RefundRecords] /\ refund'[w].pc = "idle"
        /\ \A v \in Workers \ {w} : refund'[v] = refund[v]
  BY DEF Rests
<1>3. StepFits(job[w].step)' /\ RefundFits(job[w].step, refund[w])' /\ ServesFits(job[w])'
  BY <1>1, <1>2 DEF StepFits, RefundFits, ServesFits, Asking, Recording
<1>4. ASSUME NEW v \in Workers \ {w}
      PROVE  StepFits(job[v].step)' /\ RefundFits(job[v].step, refund[v])' /\ ServesFits(job[v])'
  BY <1>1, <1>2, <1>4 DEF WorkersFit, StepFits, RefundFits, ServesFits, Stable
<1> QED
  BY <1>1, <1>2, <1>3, <1>4 DEF WorkersFit

LEMMA RefundMoves ==
  ASSUME WorkersFit, Stable, NEW w \in Workers, NEW r \in RefundRecords,
         refund' = [refund EXCEPT ![w] = r], job' = job,
         r.pc # "idle" => job[w].step \in RefundCalls /\ Evidence',
         r.pc \in Asking => r.key \in Workers,
         r.pc \in Recording => provider'.status = "CANCELLED"
  PROVE  WorkersFit'
<1>1. refund' \in [Workers -> RefundRecords] /\ refund'[w] = r
        /\ \A v \in Workers \ {w} : refund'[v] = refund[v]
  BY DEF WorkersFit
<1>2. StepFits(job[w].step)' /\ RefundFits(job[w].step, refund[w])' /\ ServesFits(job[w])'
  BY <1>1 DEF WorkersFit, StepFits, RefundFits, ServesFits, Stable
<1>3. ASSUME NEW v \in Workers \ {w}
      PROVE  StepFits(job[v].step)' /\ RefundFits(job[v].step, refund[v])' /\ ServesFits(job[v])'
  BY <1>1, <1>3 DEF WorkersFit, StepFits, RefundFits, ServesFits, Stable
<1> QED
  BY <1>1, <1>2, <1>3 DEF WorkersFit

LEMMA WorkerFacts ==
  ASSUME WorkersFit, NEW w \in Workers
  PROVE  /\ job[w] \in JobRecords /\ refund[w] \in RefundRecords
         /\ StepFits(job[w].step) /\ RefundFits(job[w].step, refund[w]) /\ ServesFits(job[w])
         /\ job[w].step \in {"free"} \union FinalizerSteps \union CancellerSteps
         /\ job[w].for \in {"nobody", "webhook", "us"}
         /\ \A j \in JobRecords : j = [step |-> j.step, for |-> j.for]
<1>1. job[w] \in JobRecords /\ refund[w] \in RefundRecords
  BY DEF WorkersFit
<1>2. \A j \in JobRecords : j = [step |-> j.step, for |-> j.for]
  BY DEF JobRecords
<1> QED
  BY <1>1, <1>2 DEF WorkersFit, JobRecords

LEMMA AtRest ==
  ASSUME WorkersFit, NEW w \in Workers,
         \/ job[w].step \notin RefundCalls /\ refund' = refund
         \/ refund' = [refund EXCEPT ![w] = Idle]
  PROVE  Rests(w)
<1>1. Idle \in RefundRecords /\ Idle.pc = "idle"
  BY DEF Idle, RefundRecords, Steps
<1>2. CASE refund' = [refund EXCEPT ![w] = Idle]
  BY <1>1, <1>2 DEF WorkersFit, Rests
<1>3. CASE job[w].step \notin RefundCalls /\ refund' = refund
  BY <1>3, WorkerFacts DEF WorkersFit, Rests, RefundFits
<1> QED
  BY <1>2, <1>3

LEMMA Goes ==
  ASSUME WorkersFit, Stable, NEW w \in Workers, NEW s \in FinalizerSteps \union CancellerSteps,
         Go(w, s), Rests(w), StepFits(s)',
         job[w].for = "webhook" => s \in FinalizerSteps \ {"timeOut"}
  PROVE  WorkersFit'
<1> DEFINE j == [job[w] EXCEPT !.step = s]
<1>1. j = [step |-> s, for |-> job[w].for]
  BY WorkerFacts
<1>2. j \in JobRecords /\ j.step = s /\ j.for = job[w].for
  BY <1>1, WorkerFacts DEF JobRecords
<1>3. job' = [job EXCEPT ![w] = j]
  BY DEF Go
<1>4. ServesFits(j)
  BY <1>2 DEF ServesFits
<1>5. StepFits(j.step)'
  BY <1>2 DEF StepFits
<1> HIDE DEF j
<1> QED
  BY <1>2, <1>3, <1>4, <1>5, JobMoves

LEMMA Frees ==
  ASSUME WorkersFit, Stable, NEW w \in Workers, job' = [job EXCEPT ![w] = Free], Rests(w)
  PROVE  WorkersFit'
<1>1. Free \in JobRecords /\ ServesFits(Free)
  BY DEF Free, JobRecords, ServesFits
<1>2. StepFits(Free.step)'
  BY DEF Free, StepFits, FinalSteps, RefundCalls, HarmlessSteps
<1> QED
  BY <1>1, <1>2, JobMoves

LEMMA Ends ==
  ASSUME WorkersFit, Stable, NEW w \in Workers, End(w), Rests(w),
         webhook \in {"none", "due", "acknowledged"}, job[w].for = "webhook" => Evidence'
  PROVE  WorkersFit' /\ Answered
BY Frees DEF End, Answered

(* A new record for a worker that starts. *)
LEMMA Starts ==
  ASSUME WorkersFit, Stable, NEW w \in Workers, job[w] = Free, NEW s \in {"lookedUp", "timeOut"},
         NEW f \in {"webhook", "us"}, job' = [job EXCEPT ![w] = [step |-> s, for |-> f]],
         refund' = refund, s = "lookedUp" => provider'.status # "READY", s = "timeOut" => f = "us"
  PROVE  WorkersFit'
<1> DEFINE j == [step |-> s, for |-> f]
<1>1. j \in JobRecords /\ ServesFits(j) /\ j.step = s
  BY DEF JobRecords, ServesFits, FinalizerSteps
<1>2. StepFits(j.step)'
  BY <1>1 DEF StepFits, FinalSteps, RefundCalls, HarmlessSteps
<1>3. job[w].step \notin RefundCalls
  BY DEF Free, RefundCalls
<1>4. Rests(w)
  BY <1>3, AtRest
<1>5. job' = [job EXCEPT ![w] = j]
  OBVIOUS
<1> HIDE DEF j
<1> QED
  BY <1>1, <1>2, <1>4, <1>5, JobMoves
-------------------------------------------------------------------------------
(* Steps that leave the documents alone. *)
Documents == <<payment, claim, provider, stray, order, finalRefund, amount>>

LEMMA DocumentsStay ==
  ASSUME UNCHANGED Documents
  PROVE  Stable /\ (Evidence <=> Evidence')
BY DEF Documents, Stable, Evidence, Unmarked

LEMMA DocumentsKept ==
  ASSUME DocumentInv, UNCHANGED Documents, Answered
  PROVE  DocumentInv'
<1>1. PaymentTypes' /\ OrderTypes' /\ BooksMatchProvider' /\ OrdersFollowMoney' /\ UnmarkedIsQuiet'
  BY DEF Documents, Answered, DocumentInv, PaymentTypes, OrderTypes, BooksMatchProvider,
         OrdersFollowMoney, UnmarkedIsQuiet, Unmarked
<1>2. NoticedPayments'
  BY DEF Documents, Answered, DocumentInv, NoticedPayments, Evidence
<1> QED
  BY <1>1, <1>2 DEF DocumentInv

LEMMA QuietGo ==
  ASSUME OrderInv, UNCHANGED Documents, NEW w \in Workers,
         NEW s \in FinalizerSteps \union CancellerSteps, Go(w, s), Rests(w), StepFits(s),
         job[w].for = "webhook" => s \in FinalizerSteps \ {"timeOut"}
  PROVE  OrderInv'
<1>1. Stable
  BY DocumentsStay
<1>2. StepFits(s)'
  BY <1>1 DEF StepFits, Stable
<1>3. Answered
  BY DEF Go, Answered, OrderInv, DocumentInv, OrderTypes
<1> QED
  BY <1>1, <1>2, <1>3, Goes, DocumentsKept DEF OrderInv

LEMMA QuietEnd ==
  ASSUME OrderInv, UNCHANGED Documents, NEW w \in Workers, End(w), Rests(w),
         job[w].for = "webhook" => Evidence
  PROVE  OrderInv'
<1>1. Stable /\ (Evidence => Evidence')
  BY DocumentsStay
<1>2. WorkersFit' /\ Answered
  BY <1>1, Ends DEF OrderInv, DocumentInv, OrderTypes
<1> QED
  BY <1>2, DocumentsKept DEF OrderInv

(* Steps that mark the order as being cancelled. *)
LEMMA OrderParts ==
  ASSUME DocumentInv
  PROVE  /\ order = [status |-> order.status, reason |-> order.reason,
                     cancellation |-> order.cancellation, lateRefund |-> order.lateRefund]
         /\ order.status \in {"PENDING", "ACCEPTED", "DELIVERING", "CANCELLED"}
         /\ order.reason \in {"none", "timeout", "payment_failed", "amount_mismatch", "customer"}
         /\ order.cancellation \in InProgress \union {"none", "COMPLETED"}
         /\ order.lateRefund \in {"none", "recorded"}
         /\ order.status = "CANCELLED" => order.reason # "none"
BY DEF DocumentInv, OrderTypes, OrderRecords

LEMMA MarkStays ==
  ASSUME DocumentInv, NEW s \in InProgress \union {"COMPLETED"}, SetCancellation(s),
         UNCHANGED <<payment, claim, provider, stray, finalRefund, amount>>
  PROVE  Stable
BY OrderParts DEF SetCancellation, Stable, Evidence, Unmarked, InProgress

LEMMA MarkKeepsDocuments ==
  ASSUME DocumentInv, NEW s \in InProgress \union {"COMPLETED"}, SetCancellation(s),
         UNCHANGED <<payment, claim, provider, stray, finalRefund, amount>>, Answered,
         order.status = "DELIVERING" => order.reason # "none",
         s = "COMPLETED" => order.reason # "none"
  PROVE  DocumentInv'
<1>1. order' = [status |-> order.status, reason |-> order.reason, cancellation |-> s,
                lateRefund |-> order.lateRefund]
  BY OrderParts DEF SetCancellation
<1>2. Stable
  BY MarkStays
<1>3. PaymentTypes' /\ BooksMatchProvider'
  BY DEF DocumentInv, PaymentTypes, BooksMatchProvider
<1>4. OrderTypes'
  BY <1>1, OrderParts DEF DocumentInv, OrderTypes, OrderRecords, Answered
<1>5. NoticedPayments'
  BY <1>1, <1>2 DEF DocumentInv, NoticedPayments, Answered, Stable
<1>6. OrdersFollowMoney' /\ UnmarkedIsQuiet'
  BY <1>1 DEF DocumentInv, OrdersFollowMoney, UnmarkedIsQuiet, Unmarked, InProgress
<1> QED
  BY <1>3, <1>4, <1>5, <1>6 DEF DocumentInv

(* Whoever is past the first look at the order is not surprised by it.     *)
LEMMA BusyIsMarked ==
  ASSUME OrderInv, NEW w \in Workers, job[w].step \notin HarmlessSteps
  PROVE  /\ order.status = "DELIVERING" => order.reason # "none"
         /\ amount = "matches" => ~Unmarked
<1>1. StepFits(job[w].step)
  BY WorkerFacts DEF OrderInv
<1> QED
  BY <1>1, OrderParts
     DEF StepFits, OrderInv, DocumentInv, OrdersFollowMoney, OrderTypes, Taken, Unmarked

LEMMA LookUps ==
  ASSUME OrderInv, NEW w \in Workers, LookUpPayment(w) \/ LookUpUnpaid(w) \/ WebhookTooLate(w)
  PROVE  OrderInv'
<1>1. UNCHANGED Documents /\ UNCHANGED refund /\ job[w] = Free
  BY DEF LookUpPayment, LookUpUnpaid, WebhookTooLate, refundVars, Documents
<1>2. Stable /\ (Evidence <=> Evidence')
  BY <1>1, DocumentsStay
<1>3. Answered
  <2>1. provider.status = "CANCELLED" => webhook = "due" \/ Evidence
    BY DEF OrderInv, DocumentInv, NoticedPayments
  <2>2. provider.status = "CANCELLED" => Evidence
    BY DEF OrderInv, DocumentInv, NoticedPayments
  <2> QED
    BY <1>2, <2>2 DEF LookUpPayment, LookUpUnpaid, WebhookTooLate, Answered, OrderInv, DocumentInv,
                      OrderTypes
<1>4. DocumentInv'
  BY <1>1, <1>3, DocumentsKept DEF OrderInv
<1>5. WorkersFit'
  <2>1. CASE LookUpPayment(w)
    <3>1. provider'.status # "READY"
      BY <2>1 DEF LookUpPayment, refundVars
    <3> QED
      BY <1>1, <1>2, <2>1, <3>1, Starts DEF LookUpPayment, OrderInv
  <2>2. CASE LookUpUnpaid(w)
    BY <1>1, <1>2, <2>2, Starts DEF LookUpUnpaid, OrderInv
  <2>3. CASE WebhookTooLate(w)
    BY <1>1, <1>2, <2>3, WorkersStay DEF WebhookTooLate, OrderInv
  <2> QED
    BY <2>1, <2>2, <2>3
<1> QED
  BY <1>4, <1>5 DEF OrderInv

(* An order that is not to be finalised and not to be settled was taken,   *)
(* or its late payment was refunded.                                       *)
LEMMA NothingToDo ==
  ASSUME DocumentInv, ~CanFinalize, ~SettlementCandidate
  PROVE  Evidence
BY OrderParts
   DEF CanFinalize, TimedOut, SettlementCandidate, DocumentInv, NoticedPayments, Evidence, Taken

LEMMA ReadOrderKeeps ==
  ASSUME OrderInv, NEW w \in Workers, ReadOrder(w)
  PROVE  OrderInv'
<1>1. UNCHANGED Documents /\ job[w].step = "lookedUp" /\ refund' = refund
  BY DEF ReadOrder, refundVars, Documents
<1>2. Rests(w)
  BY <1>1, AtRest DEF OrderInv, RefundCalls
<1>3. CASE End(w) /\ ~CanFinalize /\ ~SettlementCandidate
  BY <1>1, <1>2, <1>3, QuietEnd, NothingToDo DEF OrderInv
<1>4. CASE Go(w, IF amount = "differs" THEN "claimFinal" ELSE "settle")
  <2>1. StepFits("lookedUp") /\ amount \in {"matches", "differs"}
    BY <1>1, WorkerFacts DEF OrderInv, DocumentInv, OrderTypes
  <2>2. CASE amount = "differs"
    BY <1>1, <1>2, <1>4, <2>1, <2>2, QuietGo DEF FinalizerSteps, StepFits, FinalSteps, RefundCalls
  <2>3. CASE amount # "differs"
    BY <1>1, <1>2, <1>4, <2>1, <2>3, QuietGo
       DEF FinalizerSteps, StepFits, FinalSteps, RefundCalls, HarmlessSteps
  <2> QED
    BY <2>2, <2>3
<1> QED
  BY <1>3, <1>4 DEF ReadOrder

LEMMA SettlementRefundedKeeps ==
  ASSUME OrderInv, NEW w \in Workers, SettlementRefunded(w)
  PROVE  OrderInv'
<1>1. UNCHANGED Documents /\ job[w].step = "settleRefund" /\ refund' = [refund EXCEPT ![w] = Idle]
        /\ refund[w].pc # "idle"
  BY DEF SettlementRefunded, Documents, Finished
<1>2. Rests(w)
  BY <1>1, AtRest DEF OrderInv
<1>3. Evidence /\ StepFits(job[w].step)
  BY <1>1, WorkerFacts DEF OrderInv, RefundFits
<1>4. CASE End(w)
  BY <1>1, <1>2, <1>3, <1>4, QuietEnd
<1>5. CASE Go(w, "markRefundFailed")
  BY <1>1, <1>2, <1>3, <1>5, QuietGo
     DEF FinalizerSteps, StepFits, FinalSteps, RefundCalls, HarmlessSteps
<1> QED
  BY <1>4, <1>5 DEF SettlementRefunded

(* The direct refund: what follows it, and its quiet steps. *)
LEMMA ReadFinals ==
  ASSUME OrderInv, NEW w \in Workers, ReadFinal(w) \/ ReadFinalFails(w) \/ RecheckFinal(w)
  PROVE  OrderInv'
<1>1. UNCHANGED Documents /\ job[w].step \in {"readFinal", "recheckFinal"} /\ refund' = refund
  BY DEF ReadFinal, ReadFinalFails, RecheckFinal, refundVars, Documents
<1>2. Rests(w)
  BY <1>1, AtRest DEF OrderInv, RefundCalls
<1>3. finalRefund.status # "NONE" /\ Evidence /\ (amount = "matches" => ~Unmarked)
  BY <1>1, WorkerFacts, BusyIsMarked DEF OrderInv, StepFits, FinalSteps, Evidence, HarmlessSteps
<1>4. CASE End(w)
  BY <1>1, <1>2, <1>3, <1>4, QuietEnd
<1>5. ASSUME NEW s \in FinalSteps \union {"cancelMismatch"}, Go(w, s),
             s \in {"recordLate", "markFinal"} => provider.status = "CANCELLED"
      PROVE  OrderInv'
  <2>1. StepFits(s) /\ s \in FinalizerSteps \ {"timeOut"}
    BY <1>3, <1>5 DEF FinalSteps, FinalizerSteps, StepFits, RefundCalls
  <2> QED
    BY <1>1, <1>2, <1>5, <2>1, QuietGo
<1>6. CASE ReadFinal(w)
  BY <1>5, <1>6 DEF ReadFinal, RecordStep, FinalSteps
<1>7. CASE ReadFinalFails(w)
  BY <1>5, <1>7 DEF ReadFinalFails, FinalSteps
<1>8. CASE RecheckFinal(w)
  BY <1>4, <1>5, <1>8 DEF RecheckFinal, AfterFinalRefund, FinalSteps
<1> QED
  BY <1>6, <1>7, <1>8

(* Orders that end before they were taken. *)
LEMMA PendingEnds ==
  ASSUME DocumentInv, NEW reason \in {"timeout", "payment_failed", "amount_mismatch"},
         CancelPendingOrder(reason), UNCHANGED <<payment, claim, provider, stray, finalRefund, amount>>
  PROVE  Stable /\ (Answered => DocumentInv')
<1>1. CASE order.status # "PENDING"
  <2>1. UNCHANGED Documents
    BY <1>1 DEF CancelPendingOrder, Documents
  <2> QED
    BY <2>1, DocumentsStay, DocumentsKept
<1>2. CASE order.status = "PENDING"
  <2>1. order' = [status |-> "CANCELLED", reason |-> reason, cancellation |-> order.cancellation,
                  lateRefund |-> order.lateRefund]
    BY <1>2, OrderParts DEF CancelPendingOrder
  <2>2. Stable
    BY <1>2, <2>1 DEF Stable, Evidence, Unmarked, Taken
  <2>3. PaymentTypes' /\ BooksMatchProvider'
    BY DEF DocumentInv, PaymentTypes, BooksMatchProvider
  <2>4. ASSUME Answered
        PROVE  OrderTypes' /\ NoticedPayments'
    BY <2>1, <2>2, <2>4, OrderParts
       DEF DocumentInv, OrderTypes, OrderRecords, NoticedPayments, Answered, Stable
  <2>5. OrdersFollowMoney' /\ UnmarkedIsQuiet'
    BY <2>1 DEF OrdersFollowMoney, UnmarkedIsQuiet, Unmarked, Taken
  <2> QED
    BY <2>2, <2>3, <2>4, <2>5 DEF DocumentInv
<1> QED
  BY <1>1, <1>2

LEMMA CancelPendings ==
  ASSUME OrderInv, NEW w \in Workers, TimeOutOrder(w) \/ CancelMismatch(w)
  PROVE  OrderInv'
<1>1. /\ UNCHANGED <<payment, claim, provider, stray, finalRefund, amount>> /\ refund' = refund
      /\ End(w) /\ job[w].step \in {"timeOut", "cancelMismatch"}
      /\ CancelPendingOrder("timeout") \/ CancelPendingOrder("amount_mismatch")
  BY DEF TimeOutOrder, CancelMismatch, refundVars
<1>2. Rests(w)
  BY <1>1, AtRest DEF OrderInv, RefundCalls
<1>3. Stable /\ (Answered => DocumentInv')
  BY <1>1, PendingEnds DEF OrderInv
<1>4. job[w].for = "webhook" => Evidence
  BY <1>1, WorkerFacts DEF OrderInv, ServesFits, StepFits
<1>5. WorkersFit' /\ Answered
  BY <1>1, <1>2, <1>3, <1>4, Ends DEF OrderInv, DocumentInv, OrderTypes, Stable
<1> QED
  BY <1>3, <1>5 DEF OrderInv

LEMMA PaymentFailedKeeps ==
  ASSUME OrderInv, PaymentFailed
  PROVE  OrderInv'
<1>1. Stable /\ (Answered => DocumentInv')
  BY PendingEnds DEF OrderInv, PaymentFailed, refundVars
<1>2. Answered
  BY DEF PaymentFailed, Answered, OrderInv, DocumentInv, OrderTypes
<1>3. WorkersFit'
  BY <1>1, WorkersStay DEF OrderInv, PaymentFailed, refundVars
<1> QED
  BY <1>1, <1>2, <1>3 DEF OrderInv

LEMMA MarkRefundFailedKeeps ==
  ASSUME OrderInv, NEW w \in Workers, MarkRefundFailed(w)
  PROVE  OrderInv'
<1>1. /\ SetCancellation("REFUND_FAILED") /\ job[w].step = "markRefundFailed" /\ refund' = refund
      /\ UNCHANGED <<payment, claim, provider, stray, finalRefund, amount, webhook>>
      /\ job' = [job EXCEPT ![w] = Free]
  BY DEF MarkRefundFailed, SetCancellation, Throw, refundVars
<1>2. Stable
  BY <1>1, MarkStays DEF OrderInv, InProgress
<1>3. order.status = "DELIVERING" => order.reason # "none"
  BY <1>1, BusyIsMarked DEF HarmlessSteps
<1>4. Answered
  BY <1>1 DEF Answered, OrderInv, DocumentInv, OrderTypes
<1>5. DocumentInv'
  BY <1>1, <1>3, <1>4, MarkKeepsDocuments DEF OrderInv, InProgress
<1>6. WorkersFit'
  BY <1>1, <1>2, Frees, AtRest DEF OrderInv, RefundCalls
<1> QED
  BY <1>5, <1>6 DEF OrderInv

(* The settlement of a payment. *)
LEMMA SettleCancelledOrderKeeps ==
  ASSUME OrderInv, NEW w \in Workers, SettlePayment(w), SettleCancelledOrder(w)
  PROVE  OrderInv'
<1>1. /\ UNCHANGED <<provider, stray, order, finalRefund, amount>> /\ refund' = refund
      /\ job[w].step = "settle" /\ SettlementCandidate
  BY DEF SettlePayment, SettleCancelledOrder
<1>2. Rests(w)
  BY <1>1, AtRest DEF OrderInv, RefundCalls
<1>3. provider.status # "READY" /\ amount = "matches" /\ ~Unmarked
  <2>1. StepFits("settle")
    BY <1>1, WorkerFacts DEF OrderInv
  <2>2. ~Unmarked
    BY <1>1, OrderParts DEF SettlementCandidate, OrderInv, Unmarked
  <2> QED
    BY <2>1, <2>2 DEF StepFits
<1>4. CASE payment = "CANCELLED"
  <2>1. UNCHANGED Documents /\ End(w) /\ Evidence
    BY <1>1, <1>4 DEF SettleCancelledOrder, RefundNeeded, Documents, Evidence
  <2> QED
    BY <1>2, <2>1, QuietEnd
<1>5. CASE payment = "PAID"
  <2>1. UNCHANGED Documents /\ Go(w, "settleRefund")
    BY <1>1, <1>5 DEF SettleCancelledOrder, RefundNeeded, Documents
  <2>2. StepFits("settleRefund")
    BY <1>3, <1>5 DEF StepFits, FinalSteps
  <2> QED
    BY <1>2, <2>1, <2>2, QuietGo DEF FinalizerSteps
<1>6. CASE payment = "NONE"
  <2>1. /\ Go(w, "settleRefund") /\ payment' = "PAID" /\ claim' = NoClaim
        /\ claim.status = "NONE" /\ webhook' = webhook
    BY <1>1, <1>6
       DEF SettleCancelledOrder, RefundNeeded, WritePaidPayment, Go, OrderInv, DocumentInv, PaymentTypes
  <2>2. Stable /\ (Evidence <=> Evidence')
    BY <1>1, <1>6, <2>1 DEF Stable, Evidence, Unmarked, NoClaim
  <2>3. PaymentTypes'
    BY <1>1, <2>1 DEF OrderInv, DocumentInv, PaymentTypes, NoClaim, ClaimRecords
  <2>4. OrderTypes' /\ BooksMatchProvider'
    BY <1>1, <1>3, <1>6, <2>1 DEF OrderInv, DocumentInv, OrderTypes, BooksMatchProvider
  <2>5. NoticedPayments'
    BY <1>1, <2>1, <2>2 DEF OrderInv, DocumentInv, NoticedPayments
  <2>6. OrdersFollowMoney' /\ UnmarkedIsQuiet'
    BY <1>1, <1>3, <2>1, <2>2 DEF OrderInv, DocumentInv, OrdersFollowMoney, UnmarkedIsQuiet, Unmarked
  <2>7. StepFits("settleRefund")'
    BY <1>1, <1>3, <2>1, <2>2 DEF StepFits, FinalSteps, Stable
  <2>8. WorkersFit'
    BY <1>2, <2>1, <2>2, <2>7, Goes DEF OrderInv, FinalizerSteps
  <2> QED
    BY <2>3, <2>4, <2>5, <2>6, <2>8 DEF OrderInv, DocumentInv
<1> QED
  BY <1>4, <1>5, <1>6 DEF OrderInv, DocumentInv, PaymentTypes

LEMMA AcceptOrderKeeps ==
  ASSUME OrderInv, NEW w \in Workers, SettlePayment(w), AcceptOrder(w)
  PROVE  OrderInv'
<1>1. /\ UNCHANGED <<provider, stray, finalRefund, amount>> /\ refund' = refund
      /\ job[w].step = "settle" /\ ~SettlementCandidate /\ CanFinalize /\ End(w)
      /\ payment' = "PAID" /\ claim' = NoClaim
  BY DEF SettlePayment, AcceptOrder, WritePaidPayment
<1>2. Rests(w)
  BY <1>1, AtRest DEF OrderInv, RefundCalls
<1>3. provider.status # "READY" /\ amount = "matches"
  BY <1>1, WorkerFacts DEF OrderInv, StepFits
<1>4. order' = [status |-> "ACCEPTED", reason |-> order.reason, cancellation |-> order.cancellation,
                lateRefund |-> order.lateRefund]
  BY OrderParts DEF AcceptOrder, OrderInv
<1>5. Stable /\ Evidence'
  BY <1>1, <1>4 DEF Stable, Evidence, Unmarked, Taken
<1>6. WorkersFit' /\ Answered
  BY <1>1, <1>2, <1>5, Ends DEF OrderInv, DocumentInv, OrderTypes
<1>7. PaymentTypes'
  BY <1>1 DEF OrderInv, DocumentInv, PaymentTypes, NoClaim, ClaimRecords
<1>8. OrderTypes' /\ NoticedPayments'
  BY <1>1, <1>4, <1>5, <1>6, OrderParts
     DEF OrderInv, DocumentInv, OrderTypes, OrderRecords, NoticedPayments, Answered
<1>9. BooksMatchProvider'
  BY <1>1, <1>3 DEF OrderInv, DocumentInv, BooksMatchProvider
<1>10. OrdersFollowMoney' /\ UnmarkedIsQuiet'
  BY <1>1, <1>3, <1>4
     DEF OrderInv, DocumentInv, OrdersFollowMoney, UnmarkedIsQuiet, Unmarked, NoClaim, Taken
<1> QED
  BY <1>6, <1>7, <1>8, <1>9, <1>10 DEF OrderInv, DocumentInv

LEMMA SettlePaymentKeeps ==
  ASSUME OrderInv, NEW w \in Workers, SettlePayment(w)
  PROVE  OrderInv'
<1>1. job[w].step = "settle" /\ refund' = refund
  BY DEF SettlePayment
<1>2. Rests(w)
  BY <1>1, AtRest DEF OrderInv, RefundCalls
<1>3. CASE RejectLateOrder(w)
  <2>1. UNCHANGED Documents /\ Go(w, "claimFinal") /\ ~Unmarked
    BY <1>3 DEF SettlePayment, RejectLateOrder, Documents, TimedOut, Unmarked
  <2>2. StepFits("claimFinal")
    BY <2>1 DEF StepFits, FinalSteps, RefundCalls
  <2> QED
    BY <1>2, <2>1, <2>2, QuietGo DEF FinalizerSteps
<1>4. CASE LeaveOrder(w)
  <2>1. UNCHANGED Documents /\ End(w) /\ Evidence
    BY <1>4, NothingToDo DEF SettlePayment, LeaveOrder, Documents, OrderInv
  <2> QED
    BY <1>2, <2>1, QuietEnd
<1> QED
  BY <1>3, <1>4, SettleCancelledOrderKeeps, AcceptOrderKeeps DEF SettlePayment

(* The direct refund's marker. *)
LEMMA MarkerMoves ==
  ASSUME DocumentInv, finalRefund' \in FinalRecords, finalRefund'.status # "NONE",
         finalRefund'.status = "REFUNDED" => provider.status = "CANCELLED",
         UNCHANGED <<payment, claim, provider, stray, order, amount>>,
         amount = "matches" => ~Unmarked
  PROVE  Stable /\ Evidence' /\ (Answered => DocumentInv')
<1>1. Stable /\ Evidence'
  BY DEF Stable, Evidence, Unmarked
<1>2. PaymentTypes' /\ BooksMatchProvider'
  BY DEF DocumentInv, PaymentTypes, BooksMatchProvider
<1>3. Answered => OrderTypes' /\ NoticedPayments'
  BY <1>1 DEF DocumentInv, OrderTypes, NoticedPayments, Answered
<1>4. OrdersFollowMoney' /\ UnmarkedIsQuiet'
  BY DEF DocumentInv, OrdersFollowMoney, UnmarkedIsQuiet, Unmarked
<1> QED
  BY <1>1, <1>2, <1>3, <1>4 DEF DocumentInv

LEMMA MarkerRecords ==
  ASSUME DocumentInv, NEW w \in Workers, NEW s \in {"CLAIMED", "UNKNOWN", "REFUNDED"}
  PROVE  /\ SetFinalRefund(w, s) => finalRefund' \in FinalRecords /\ finalRefund'.status = s
         /\ finalRefund' = [finalRefund EXCEPT !.status = s] =>
              finalRefund' \in FinalRecords /\ finalRefund'.status = s
BY DEF SetFinalRefund, FinalRecords, DocumentInv, OrderTypes

LEMMA ClaimFinalizationRefundKeeps ==
  ASSUME OrderInv, NEW w \in Workers, ClaimFinalizationRefund(w)
  PROVE  OrderInv'
<1>1. /\ UNCHANGED <<payment, claim, provider, stray, order, amount>> /\ refund' = refund
      /\ job[w].step = "claimFinal" /\ FinalRefundHandled \in BOOLEAN
  BY DEF ClaimFinalizationRefund, refundVars, FinalRefundHandled
<1>2. Rests(w)
  BY <1>1, AtRest DEF OrderInv, RefundCalls
<1>3. amount = "matches" => ~Unmarked
  BY <1>1, BusyIsMarked DEF HarmlessSteps
<1>4. CASE FinalRefundHandled /\ AfterFinalRefund(w) /\ UNCHANGED finalRefund
  <2>1. UNCHANGED Documents
    BY <1>1, <1>4 DEF Documents
  <2>2. Evidence
    BY <1>4 DEF FinalRefundHandled, Evidence, OrderInv, DocumentInv, NoticedPayments
  <2>3. StepFits("cancelMismatch")
    BY <1>3, <2>2 DEF StepFits, FinalSteps, RefundCalls
  <2> QED
    BY <1>2, <1>4, <2>1, <2>2, <2>3, QuietGo, QuietEnd DEF AfterFinalRefund, FinalizerSteps
<1>5. CASE SetFinalRefund(w, IF finalRefund.status = "NONE" THEN "CLAIMED" ELSE "UNKNOWN")
             /\ Go(w, FirstFinalStep)
  <2>1. finalRefund' \in FinalRecords /\ finalRefund'.status \in {"CLAIMED", "UNKNOWN"}
    BY <1>5, MarkerRecords DEF OrderInv
  <2>2. Stable /\ Evidence' /\ (Answered => DocumentInv')
    BY <1>1, <1>3, <2>1, MarkerMoves DEF OrderInv
  <2>3. Answered
    BY <1>5 DEF Go, Answered, OrderInv, DocumentInv, OrderTypes
  <2>4. ASSUME NEW s \in {"postFinal", "readFinal"}, Go(w, s)
        PROVE  WorkersFit'
    <3>1. StepFits(s)'
      BY <1>3, <2>1, <2>2 DEF StepFits, RefundCalls, Stable
    <3> QED
      BY <1>2, <2>2, <2>4, <3>1, Goes DEF OrderInv, FinalizerSteps
  <2>5. WorkersFit'
    BY <1>5, <2>4 DEF FirstFinalStep
  <2> QED
    BY <2>2, <2>3, <2>5 DEF OrderInv
<1> QED
  BY <1>4, <1>5 DEF ClaimFinalizationRefund

LEMMA MarkFinals ==
  ASSUME OrderInv, NEW w \in Workers, MarkFinalRefunded(w) \/ PersistUncertainFinal(w)
  PROVE  OrderInv'
<1>1. /\ UNCHANGED <<payment, claim, provider, stray, order, amount>> /\ refund' = refund
      /\ job[w].step \in {"markFinal", "uncertainFinal"}
  BY DEF MarkFinalRefunded, PersistUncertainFinal, refundVars
<1>2. Rests(w)
  BY <1>1, AtRest DEF OrderInv, RefundCalls
<1>3. (amount = "matches" => ~Unmarked) /\ finalRefund.status # "NONE"
  BY <1>1, BusyIsMarked, WorkerFacts DEF HarmlessSteps, OrderInv, StepFits, FinalSteps
<1>4. MarkFinalRefunded(w) => provider.status = "CANCELLED"
  BY WorkerFacts DEF OrderInv, StepFits, MarkFinalRefunded
<1>5. /\ finalRefund' \in FinalRecords /\ finalRefund'.status # "NONE"
      /\ finalRefund'.status = "REFUNDED" => provider.status = "CANCELLED"
  <2>1. finalRefund \in FinalRecords /\ (finalRefund.status = "REFUNDED" => provider.status = "CANCELLED")
    BY DEF OrderInv, DocumentInv, OrderTypes, BooksMatchProvider
  <2> QED
    BY <1>3, <1>4, <2>1, MarkerRecords DEF MarkFinalRefunded, PersistUncertainFinal, OrderInv
<1>6. Stable /\ Evidence' /\ (Answered => DocumentInv')
  BY <1>1, <1>3, <1>5, MarkerMoves DEF OrderInv
<1>7. WorkersFit' /\ Answered
  <2>1. CASE End(w)
    BY <1>2, <1>6, <2>1, Ends DEF OrderInv, DocumentInv, OrderTypes
  <2>2. CASE Throw(w)
    BY <1>2, <1>6, <2>2, Frees DEF Throw, Answered, OrderInv, DocumentInv, OrderTypes
  <2>3. CASE Go(w, "cancelMismatch")
    <3>1. StepFits("cancelMismatch")'
      BY <1>3, <1>6 DEF StepFits, FinalSteps, RefundCalls, Stable
    <3> QED
      BY <1>2, <1>6, <2>3, <3>1, Goes
         DEF Go, Answered, OrderInv, DocumentInv, OrderTypes, FinalizerSteps
  <2> QED
    BY <2>1, <2>2, <2>3 DEF MarkFinalRefunded, PersistUncertainFinal, AfterFinalRefund
<1> QED
  BY <1>6, <1>7 DEF OrderInv

(* The provider's payment. *)
LEMMA ProviderMoves ==
  ASSUME DocumentInv, NEW key \in Workers \union {"finalization"}, provider' = Cancelled(key),
         stray' \subseteq stray, UNCHANGED <<payment, claim, order, finalRefund, amount, webhook>>,
         Evidence, amount = "matches" => ~Unmarked
  PROVE  Stable /\ DocumentInv' /\ Answered
<1>1. /\ provider' \in ProviderRecords /\ (provider'.status = "READY" <=> provider.status = "READY")
      /\ provider.status # "READY" => provider'.status = "CANCELLED"
  BY DEF Cancelled, ProviderRecords, DocumentInv, PaymentTypes
<1>2. Stable /\ Evidence' /\ Answered
  BY <1>1 DEF Stable, Evidence, Unmarked, Answered, DocumentInv, OrderTypes
<1>3. PaymentTypes' /\ OrderTypes' /\ BooksMatchProvider' /\ OrdersFollowMoney'
  BY <1>1
     DEF DocumentInv, PaymentTypes, OrderTypes, BooksMatchProvider, OrdersFollowMoney, Unmarked
<1>4. NoticedPayments' /\ UnmarkedIsQuiet'
  BY <1>2 DEF DocumentInv, NoticedPayments, UnmarkedIsQuiet, Unmarked
<1> QED
  BY <1>2, <1>3, <1>4 DEF DocumentInv

LEMMA PostFinals ==
  ASSUME OrderInv, NEW w \in Workers, PostFinal(w) \/ PostFinalFails(w)
  PROVE  OrderInv'
<1>1. /\ UNCHANGED <<payment, claim, order, finalRefund, amount, webhook>> /\ refund' = refund
      /\ job[w].step = "postFinal"
  BY DEF PostFinal, PostFinalFails, Go
<1>2. Rests(w)
  BY <1>1, AtRest DEF OrderInv, RefundCalls
<1>3. (amount = "matches" => ~Unmarked) /\ finalRefund.status # "NONE" /\ Evidence
  BY <1>1, BusyIsMarked, WorkerFacts DEF HarmlessSteps, OrderInv, StepFits, FinalSteps, Evidence
<1>4. CASE PostFinal(w)
  <2>1. Stable /\ DocumentInv' /\ provider'.status = "CANCELLED"
    <3>1. provider' = Cancelled("finalization") /\ stray' \subseteq stray
            /\ provider'.status = "CANCELLED"
      BY <1>4 DEF PostFinal, Cancelled
    <3> QED
      BY <1>1, <1>3, <3>1, ProviderMoves DEF OrderInv
  <2>2. ASSUME NEW s \in {"markFinal", "recordLate"}, Go(w, s)
        PROVE  WorkersFit'
    <3>1. StepFits(s)'
      BY <1>3, <2>1 DEF StepFits, RefundCalls, Stable
    <3> QED
      BY <1>2, <2>1, <2>2, <3>1, Goes DEF OrderInv, FinalizerSteps
  <2>3. WorkersFit'
    BY <1>4, <2>2 DEF PostFinal, RecordStep
  <2> QED
    BY <2>1, <2>3 DEF OrderInv
<1>5. CASE PostFinalFails(w)
  <2>1. provider' = provider /\ stray' = stray \union {"finalization"} /\ Go(w, "uncertainFinal")
    BY <1>5 DEF PostFinalFails, AfterFailedFinalPost
  <2>2. Stable /\ Evidence'
    BY <1>1, <1>3, <2>1 DEF Stable, Evidence, Unmarked
  <2>3. PaymentTypes' /\ OrderTypes' /\ BooksMatchProvider' /\ OrdersFollowMoney'
    BY <1>1, <2>1
       DEF OrderInv, DocumentInv, PaymentTypes, OrderTypes, BooksMatchProvider, OrdersFollowMoney,
           Unmarked
  <2>4. NoticedPayments' /\ UnmarkedIsQuiet'
    BY <1>1, <1>3, <2>1, <2>2 DEF OrderInv, DocumentInv, NoticedPayments, UnmarkedIsQuiet, Unmarked
  <2>5. StepFits("uncertainFinal")'
    BY <1>3, <2>2 DEF StepFits, RefundCalls, Stable
  <2>6. WorkersFit'
    BY <1>2, <2>1, <2>2, <2>5, Goes DEF OrderInv, FinalizerSteps
  <2> QED
    BY <2>3, <2>4, <2>6 DEF OrderInv, DocumentInv
<1> QED
  BY <1>4, <1>5

LEMMA RecordLateRefundKeeps ==
  ASSUME OrderInv, NEW w \in Workers, RecordLateRefund(w)
  PROVE  OrderInv'
<1>1. /\ UNCHANGED <<provider, stray, finalRefund, amount>> /\ refund' = refund
      /\ job[w].step = "recordLate" /\ Go(w, "markFinal") /\ webhook' = webhook
  BY DEF RecordLateRefund, Go
<1>2. Rests(w)
  BY <1>1, AtRest DEF OrderInv, RefundCalls
<1>3. /\ provider.status = "CANCELLED" /\ finalRefund.status # "NONE"
      /\ amount = "matches" => ~Unmarked
  BY <1>1, BusyIsMarked, WorkerFacts DEF HarmlessSteps, OrderInv, StepFits, FinalSteps
<1>4. /\ order'.status = order.status /\ order'.reason = order.reason
      /\ order'.cancellation = order.cancellation /\ order' \in OrderRecords
      /\ payment' \in {payment, "CANCELLED"} /\ claim' \in ClaimRecords
      /\ \/ claim' = claim /\ payment' = payment
         \/ claim'.status = "NONE" /\ payment' = "CANCELLED"
  <2>1. order \in OrderRecords /\ claim \in ClaimRecords
    BY DEF OrderInv, DocumentInv, OrderTypes, PaymentTypes
  <2>2. CASE OwnsFinalRefund(w) /\ order.lateRefund = "none"
    <3>1. order' = [status |-> order.status, reason |-> order.reason,
                    cancellation |-> order.cancellation, lateRefund |-> "recorded"]
      BY <2>2, OrderParts DEF RecordLateRefund, OrderInv
    <3>2. order' \in OrderRecords
      BY <3>1, OrderParts DEF OrderRecords, OrderInv
    <3>3. payment' = "CANCELLED" /\ claim' = NoClaim
      BY <2>2 DEF RecordLateRefund
    <3>4. claim' \in ClaimRecords /\ claim'.status = "NONE"
      BY <3>3 DEF NoClaim, ClaimRecords
    <3> QED
      BY <3>1, <3>2, <3>3, <3>4
  <2>3. CASE ~(OwnsFinalRefund(w) /\ order.lateRefund = "none")
    BY <2>1, <2>3 DEF RecordLateRefund
  <2> QED
    BY <2>2, <2>3
<1>5. Stable /\ Evidence'
  BY <1>1, <1>3, <1>4 DEF Stable, Evidence, Unmarked
<1>6. PaymentTypes' /\ BooksMatchProvider'
  BY <1>1, <1>3, <1>4 DEF OrderInv, DocumentInv, PaymentTypes, BooksMatchProvider
<1>7. OrderTypes' /\ NoticedPayments'
  BY <1>1, <1>3, <1>4, <1>5 DEF OrderInv, DocumentInv, OrderTypes, NoticedPayments
<1>8. OrdersFollowMoney' /\ UnmarkedIsQuiet'
  BY <1>1, <1>3, <1>4, OrderParts DEF OrderInv, DocumentInv, OrdersFollowMoney, UnmarkedIsQuiet, Unmarked
<1>9. StepFits("markFinal")'
  BY <1>1, <1>3, <1>5 DEF StepFits, RefundCalls, Stable
<1>10. WorkersFit'
  BY <1>1, <1>2, <1>5, <1>9, Goes DEF OrderInv, FinalizerSteps
<1> QED
  BY <1>6, <1>7, <1>8, <1>10 DEF OrderInv, DocumentInv

(* Cancellers.  None of them serves a notification. *)
LEMMA CancellersServeNobody ==
  ASSUME WorkersFit, NEW w \in Workers, job[w] = Free \/ job[w].step \in CancellerSteps
  PROVE  job[w].for # "webhook"
BY WorkerFacts DEF Free, ServesFits, FinalizerSteps, CancellerSteps

LEMMA MarkGo ==
  ASSUME OrderInv, NEW w \in Workers, NEW c \in InProgress \union {"COMPLETED"}, SetCancellation(c),
         NEW s \in CancellerSteps, Go(w, s), Rests(w), job[w].for # "webhook",
         UNCHANGED <<payment, claim, provider, stray, finalRefund, amount>>,
         order.status = "DELIVERING" => order.reason # "none",
         c = "COMPLETED" => order.reason # "none", s \in RefundCalls => payment # "NONE"
  PROVE  OrderInv'
<1>1. Stable
  BY MarkStays DEF OrderInv
<1>2. Answered
  BY DEF Go, Answered, OrderInv, DocumentInv, OrderTypes
<1>3. DocumentInv'
  BY <1>2, MarkKeepsDocuments DEF OrderInv
<1>4. ~Unmarked'
  BY OrderParts DEF SetCancellation, Unmarked, InProgress, OrderInv
<1>5. StepFits(s)'
  BY <1>1, <1>4 DEF StepFits, Stable, CancellerSteps, FinalSteps
<1>6. WorkersFit'
  BY <1>1, <1>5, Goes DEF OrderInv
<1> QED
  BY <1>3, <1>6 DEF OrderInv

LEMMA MarkThrow ==
  ASSUME OrderInv, NEW w \in Workers, NEW c \in InProgress, SetCancellation(c), Throw(w), Rests(w),
         UNCHANGED <<payment, claim, provider, stray, finalRefund, amount>>,
         order.status = "DELIVERING" => order.reason # "none"
  PROVE  OrderInv'
<1>1. Stable
  BY MarkStays DEF OrderInv
<1>2. Answered
  BY DEF Throw, Answered, OrderInv, DocumentInv, OrderTypes
<1>3. DocumentInv'
  BY <1>2, MarkKeepsDocuments DEF OrderInv, InProgress
<1>4. WorkersFit'
  BY <1>1, Frees DEF OrderInv, Throw
<1> QED
  BY <1>3, <1>4 DEF OrderInv

LEMMA ClaimCancellationKeeps ==
  ASSUME OrderInv, NEW w \in Workers, ClaimCancellation(w)
  PROVE  OrderInv'
<1>1. /\ job[w] = Free /\ refund' = refund /\ job[w].for # "webhook"
      /\ UNCHANGED <<payment, claim, provider, stray, finalRefund, amount>>
  BY CancellersServeNobody DEF ClaimCancellation, refundVars, OrderInv
<1>2. Rests(w)
  BY <1>1, AtRest DEF OrderInv, RefundCalls, Free
<1>3. ASSUME NEW s \in {"cancelRefund", "applyLocal"}, Go(w, s), order' = order, ~Unmarked,
             s = "cancelRefund" => payment # "NONE"
      PROVE  OrderInv'
  <2>1. UNCHANGED Documents /\ StepFits(s) /\ s \in CancellerSteps
    BY <1>1, <1>3 DEF Documents, StepFits, CancellerSteps, FinalSteps, RefundCalls
  <2> QED
    BY <1>1, <1>2, <1>3, <2>1, QuietGo
<1>4. CASE order.status = "CANCELLED"
  <2>1. ~Unmarked
    BY <1>4, OrderParts DEF Unmarked, OrderInv
  <2>2. ClaimRefundOf(w, payment = "PAID") /\ order' = order
    BY <1>4 DEF ClaimCancellation
  <2> QED
    BY <1>3, <2>1, <2>2 DEF ClaimRefundOf
<1>5. CASE order.status # "CANCELLED" /\ order.cancellation = "REFUNDING"
  <2>1. ClaimRefundOf(w, payment = "PAID") /\ order' = order
    BY <1>5 DEF ClaimCancellation
  <2> QED
    BY <1>3, <1>5, <2>1 DEF ClaimRefundOf, Unmarked
<1>6. CASE order.status # "CANCELLED" /\ order.cancellation \in {"LOCAL_PENDING", "LOCAL_FAILED"}
  <2>1. Go(w, "applyLocal") /\ order' = order
    BY <1>6 DEF ClaimCancellation
  <2> QED
    BY <1>3, <1>6, <2>1 DEF Unmarked
<1>7. CASE ~(order.status = "CANCELLED")
             /\ ~(order.cancellation \in {"REFUNDING", "LOCAL_PENDING", "LOCAL_FAILED"})
  <2> DEFINE needsRefund == order.status # "PENDING" \/ payment = "PAID"
  <2>1. /\ order.status \in {"PENDING", "ACCEPTED"}
        /\ SetCancellation(IF needsRefund THEN "REFUNDING" ELSE "LOCAL_PENDING")
        /\ ClaimRefundOf(w, needsRefund)
    BY <1>7 DEF ClaimCancellation
  <2>2. needsRefund => payment # "NONE"
    BY <2>1 DEF OrderInv, DocumentInv, OrdersFollowMoney, Taken
  <2>3. order.status # "DELIVERING"
    BY <2>1
  <2> HIDE DEF needsRefund
  <2>4. CASE needsRefund
    BY <1>1, <1>2, <2>1, <2>2, <2>3, <2>4, MarkGo
       DEF ClaimRefundOf, CancellerSteps, InProgress
  <2>5. CASE ~needsRefund
    BY <1>1, <1>2, <2>1, <2>3, <2>5, MarkGo
       DEF ClaimRefundOf, CancellerSteps, InProgress, RefundCalls
  <2> QED
    BY <2>4, <2>5
<1> QED
  BY <1>4, <1>5, <1>6, <1>7

LEMMA CancellationRefundedKeeps ==
  ASSUME OrderInv, NEW w \in Workers, CancellationRefunded(w)
  PROVE  OrderInv'
<1>1. /\ UNCHANGED Documents /\ refund' = [refund EXCEPT ![w] = Idle]
      /\ job[w].step \in {"cancelRefund", "cancelRefundAgain"}
  BY DEF CancellationRefunded, Go, Documents
<1>2. Rests(w)
  BY <1>1, AtRest DEF OrderInv
<1>3. (amount = "matches" => ~Unmarked) /\ job[w].for # "webhook"
  BY <1>1, BusyIsMarked, CancellersServeNobody DEF HarmlessSteps, CancellerSteps, OrderInv
<1>4. ASSUME NEW s \in {"refundDone", "refundDoneAgain", "refundFailed"}, Go(w, s)
      PROVE  OrderInv'
  <2>1. StepFits(s) /\ s \in CancellerSteps
    BY <1>3, <1>4 DEF StepFits, FinalSteps, RefundCalls, CancellerSteps
  <2> QED
    BY <1>1, <1>2, <1>3, <1>4, <2>1, QuietGo
<1> QED
  BY <1>4 DEF CancellationRefunded

LEMMA Records ==
  ASSUME OrderInv, NEW w \in Workers, RecordRefundDone(w) \/ RecordFailure(w)
  PROVE  OrderInv'
<1>1. /\ UNCHANGED <<payment, claim, provider, stray, finalRefund, amount>> /\ refund' = refund
      /\ job[w].step \in {"refundDone", "refundDoneAgain", "refundFailed", "localFailed"}
  BY DEF RecordRefundDone, RecordFailure, refundVars
<1>2. Rests(w)
  BY <1>1, AtRest DEF OrderInv, RefundCalls
<1>3. (order.status = "DELIVERING" => order.reason # "none") /\ job[w].for # "webhook"
  BY <1>1, BusyIsMarked, CancellersServeNobody DEF HarmlessSteps, CancellerSteps, OrderInv
<1>4. CASE RecordRefundDone(w)
  <2>1. SetCancellation("LOCAL_PENDING") /\ (Go(w, "applyLocal") \/ Go(w, "applyLocalAgain"))
    BY <1>4 DEF RecordRefundDone
  <2> QED
    BY <1>1, <1>2, <1>3, <2>1, MarkGo DEF InProgress, CancellerSteps, RefundCalls
<1>5. CASE RecordFailure(w)
  <2>1. (SetCancellation("REFUND_FAILED") \/ SetCancellation("LOCAL_FAILED")) /\ Throw(w)
    BY <1>5 DEF RecordFailure
  <2> QED
    BY <1>1, <1>2, <1>3, <2>1, MarkThrow DEF InProgress
<1> QED
  BY <1>4, <1>5

LEMMA ApplyLocals ==
  ASSUME OrderInv, NEW w \in Workers, ApplyLocalCancellation(w) \/ ApplyLocalFails(w)
  PROVE  OrderInv'
<1>1. /\ UNCHANGED <<payment, claim, provider, stray, finalRefund, amount>> /\ refund' = refund
      /\ job[w].step \in {"applyLocal", "applyLocalAgain"}
  BY DEF ApplyLocalCancellation, ApplyLocalFails, refundVars
<1>2. Rests(w)
  BY <1>1, AtRest DEF OrderInv, RefundCalls
<1>3. /\ order.status = "DELIVERING" => order.reason # "none"
      /\ amount = "matches" => ~Unmarked
      /\ job[w].for # "webhook"
  BY <1>1, BusyIsMarked, CancellersServeNobody DEF HarmlessSteps, CancellerSteps, OrderInv
<1>4. CASE Go(w, "localFailed") /\ order' = order
  <2>1. UNCHANGED Documents /\ StepFits("localFailed")
    BY <1>1, <1>3, <1>4 DEF Documents, StepFits, FinalSteps, RefundCalls
  <2> QED
    BY <1>2, <1>3, <1>4, <2>1, QuietGo DEF CancellerSteps
<1>5. CASE /\ StillPaid /\ SetCancellation("REFUNDING")
           /\ IF job[w].step = "applyLocal" THEN Go(w, "cancelRefundAgain") ELSE Throw(w)
  BY <1>1, <1>2, <1>3, <1>5, MarkGo, MarkThrow DEF InProgress, CancellerSteps, StillPaid
<1>6. CASE order.status = "CANCELLED" /\ SetCancellation("COMPLETED") /\ Go(w, "cancelSettlement")
  <2>1. order.reason # "none"
    BY <1>6, OrderParts DEF OrderInv
  <2> QED
    BY <1>1, <1>2, <1>3, <1>6, <2>1, MarkGo DEF CancellerSteps, RefundCalls
<1>7. CASE /\ order.status \in {"PENDING", "ACCEPTED"} /\ ~StillPaid /\ Go(w, "cancelSettlement")
           /\ order' = [order EXCEPT !.status = "CANCELLED", !.reason = "customer",
                                    !.cancellation = "COMPLETED"]
  <2>1. order' = [status |-> "CANCELLED", reason |-> "customer", cancellation |-> "COMPLETED",
                  lateRefund |-> order.lateRefund]
    BY <1>7, OrderParts DEF OrderInv
  <2>2. Evidence => payment = "CANCELLED" \/ claim.status # "NONE" \/ finalRefund.status # "NONE"
    BY <1>7 DEF Evidence, StillPaid, Taken, OrderInv, DocumentInv, OrdersFollowMoney, PaymentTypes
  <2>3. Stable /\ (Evidence => Evidence')
    BY <1>1, <2>1, <2>2 DEF Stable, Evidence, Unmarked
  <2>4. Answered
    BY <1>7 DEF Go, Answered, OrderInv, DocumentInv, OrderTypes
  <2>5. PaymentTypes' /\ BooksMatchProvider'
    BY <1>1 DEF OrderInv, DocumentInv, PaymentTypes, BooksMatchProvider
  <2>6. OrderTypes' /\ NoticedPayments'
    BY <1>1, <2>1, <2>3, <2>4, OrderParts
       DEF OrderInv, DocumentInv, OrderTypes, OrderRecords, NoticedPayments, Answered
  <2>7. OrdersFollowMoney' /\ UnmarkedIsQuiet'
    BY <2>1 DEF OrdersFollowMoney, UnmarkedIsQuiet, Unmarked, Taken
  <2>8. StepFits("cancelSettlement")'
    BY <2>1 DEF StepFits, FinalSteps, RefundCalls, Unmarked
  <2>9. WorkersFit'
    BY <1>2, <1>3, <1>7, <2>3, <2>8, Goes DEF OrderInv, CancellerSteps
  <2> QED
    BY <2>5, <2>6, <2>7, <2>9 DEF OrderInv, DocumentInv
<1>8. CASE ApplyLocalCancellation(w)
  <2>1. CASE order.status # "CANCELLED" /\ order.cancellation \notin {"LOCAL_PENDING", "LOCAL_FAILED"}
    BY <1>4, <1>8, <2>1 DEF ApplyLocalCancellation
  <2>2. CASE (order.status = "CANCELLED" \/ order.cancellation \in {"LOCAL_PENDING", "LOCAL_FAILED"})
               /\ StillPaid
    BY <1>5, <1>8, <2>2 DEF ApplyLocalCancellation
  <2>3. CASE order.status = "CANCELLED" /\ ~StillPaid
    BY <1>6, <1>8, <2>3 DEF ApplyLocalCancellation
  <2>4. CASE order.status \notin {"PENDING", "ACCEPTED", "CANCELLED"} /\ ~StillPaid
               /\ order.cancellation \in {"LOCAL_PENDING", "LOCAL_FAILED"}
    BY <1>4, <1>8, <2>4 DEF ApplyLocalCancellation
  <2>5. CASE order.status \in {"PENDING", "ACCEPTED"} /\ ~StillPaid
               /\ order.cancellation \in {"LOCAL_PENDING", "LOCAL_FAILED"}
    BY <1>7, <1>8, <2>5 DEF ApplyLocalCancellation
  <2> QED
    BY <2>1, <2>2, <2>3, <2>4, <2>5
<1>9. CASE ApplyLocalFails(w)
  BY <1>4, <1>9 DEF ApplyLocalFails
<1> QED
  BY <1>8, <1>9

LEMMA CancelSettlementKeeps ==
  ASSUME OrderInv, NEW w \in Workers, CancelSettlement(w)
  PROVE  OrderInv'
<1>1. UNCHANGED Documents /\ refund' = refund /\ job[w].step = "cancelSettlement"
  BY DEF CancelSettlement, refundVars, Documents
<1>2. Rests(w)
  BY <1>1, AtRest DEF OrderInv, RefundCalls
<1>3. (amount = "matches" => ~Unmarked) /\ job[w].for # "webhook"
  BY <1>1, BusyIsMarked, CancellersServeNobody DEF HarmlessSteps, CancellerSteps, OrderInv
<1>4. StepFits("localFailed")
  BY <1>3 DEF StepFits, FinalSteps, RefundCalls
<1> QED
  BY <1>1, <1>2, <1>3, <1>4, QuietGo, QuietEnd DEF CancelSettlement, CancellerSteps

LEMMA CrashJobKeeps ==
  ASSUME OrderInv, NEW w \in Workers, CrashJob(w)
  PROVE  OrderInv'
<1>1. UNCHANGED Documents /\ webhook' = webhook /\ refund' = [refund EXCEPT ![w] = Idle]
        /\ job' = [job EXCEPT ![w] = Free]
  BY DEF CrashJob, Documents
<1>2. Stable /\ Answered /\ Rests(w)
  BY <1>1, AtRest, DocumentsStay DEF OrderInv, Answered, DocumentInv, OrderTypes
<1> QED
  BY <1>1, <1>2, Frees, DocumentsKept DEF OrderInv

-------------------------------------------------------------------------------
(* refundByOrderId, called by a finaliser or a canceller. *)
LEMMA GotoMoves ==
  ASSUME WorkersFit, Stable, NEW w \in Workers, NEW s \in Steps, Goto(w, s), job' = job,
         job[w].step \in RefundCalls, Evidence', s \in Asking => refund[w].key \in Workers,
         s \in Recording => provider'.status = "CANCELLED"
  PROVE  WorkersFit'
<1> DEFINE r == [refund[w] EXCEPT !.pc = s]
<1>1. refund[w] \in RefundRecords
  BY WorkerFacts
<1>2. r \in RefundRecords /\ r.pc = s /\ r.key = refund[w].key
  BY <1>1 DEF RefundRecords
<1>3. refund' = [refund EXCEPT ![w] = r]
  BY DEF Goto
<1> HIDE DEF r
<1> QED
  BY <1>2, <1>3, RefundMoves

LEMMA QuietGoto ==
  ASSUME OrderInv, NEW w \in Workers, NEW s \in Steps, Goto(w, s),
         UNCHANGED <<payment, claim, provider, stray>>, UNCHANGED orderVars,
         job[w].step \in RefundCalls, Evidence, s \in Asking => refund[w].key \in Workers,
         s \in Recording => provider.status = "CANCELLED"
  PROVE  OrderInv'
<1>1. UNCHANGED Documents /\ job' = job /\ webhook' = webhook
  BY DEF Documents, orderVars
<1>2. Stable /\ (Evidence => Evidence') /\ provider' = provider
  BY <1>1, DocumentsStay DEF Documents
<1>3. Answered
  BY <1>1 DEF Answered, OrderInv, DocumentInv, OrderTypes
<1> QED
  BY <1>1, <1>2, <1>3, GotoMoves, DocumentsKept DEF OrderInv

(* A claim of the payment: begun, taken over or left in doubt. *)
LEMMA ClaimMoves ==
  ASSUME DocumentInv, payment = "PAID", claim' \in ClaimRecords, claim'.status # "NONE",
         claim'.key \in Workers, UNCHANGED <<payment, provider, stray, order, finalRefund, amount, webhook>>,
         amount = "matches" => ~Unmarked
  PROVE  Stable /\ Evidence' /\ DocumentInv'
<1>1. Stable /\ Evidence'
  BY DEF Stable, Evidence, Unmarked
<1>2. PaymentTypes' /\ OrderTypes' /\ BooksMatchProvider'
  BY DEF DocumentInv, PaymentTypes, OrderTypes, BooksMatchProvider
<1>3. NoticedPayments' /\ OrdersFollowMoney' /\ UnmarkedIsQuiet'
  BY <1>1 DEF DocumentInv, NoticedPayments, OrdersFollowMoney, UnmarkedIsQuiet, Unmarked
<1> QED
  BY <1>1, <1>2, <1>3 DEF DocumentInv

LEMMA ClaimRefundKeeps ==
  ASSUME OrderInv, NEW w \in Workers, ClaimRefund(w), UNCHANGED orderVars,
         job[w].step \in RefundCalls, amount = "matches" => ~Unmarked
  PROVE  OrderInv'
<1>1. PICK s \in {"post", "readback"} : refund' = [refund EXCEPT ![w] = [pc |-> s, key |-> RefundKey(w)]]
  BY DEF ClaimRefund, FirstSteps
<1>2. RefundKey(w) \in Workers
  BY DEF RefundKey, OrderInv, DocumentInv, PaymentTypes
<1>3. claim' \in ClaimRecords /\ claim'.status # "NONE" /\ claim'.key \in Workers
  BY <1>2 DEF ClaimRefund, Claim, ClaimRecords
<1>4. Stable /\ Evidence' /\ DocumentInv'
  BY <1>3, ClaimMoves DEF ClaimRefund, orderVars, OrderInv
<1> DEFINE r == [pc |-> s, key |-> RefundKey(w)]
<1>5. r \in RefundRecords /\ r.pc = s /\ r.key \in Workers
  BY <1>2 DEF RefundRecords, Steps
<1>6. refund' = [refund EXCEPT ![w] = r]
  BY <1>1
<1> HIDE DEF r
<1>7. WorkersFit'
  BY <1>4, <1>5, <1>6, RefundMoves DEF OrderInv, orderVars, Recording
<1> QED
  BY <1>4, <1>7 DEF OrderInv

LEMMA RefundFinishes ==
  ASSUME OrderInv, NEW w \in Workers, CompleteRefund(w), UNCHANGED orderVars,
         job[w].step \in RefundCalls, amount = "matches" => ~Unmarked
  PROVE  OrderInv'
<1>1. /\ UNCHANGED <<provider, stray, order, finalRefund, amount, webhook, job>> /\ Goto(w, "returned")
      /\ refund[w].pc \in Recording
  BY DEF CompleteRefund, orderVars, Recording
<1>2. provider.status = "CANCELLED" /\ Evidence
  BY <1>1, WorkerFacts DEF OrderInv, RefundFits, Recording
<1>3. CASE ~Owns(w)
  <2>1. UNCHANGED <<payment, claim, provider, stray>>
    BY <1>1, <1>3 DEF CompleteRefund
  <2> QED
    BY <1>1, <1>2, <2>1, QuietGoto DEF Asking, Recording, Steps, Finished
<1>4. CASE Owns(w)
  <2>1. payment' = "CANCELLED" /\ claim' = NoClaim
    BY <1>4 DEF CompleteRefund
  <2>2. Stable /\ Evidence'
    BY <1>1, <2>1 DEF Stable, Evidence, Unmarked
  <2>3. PaymentTypes' /\ OrderTypes' /\ BooksMatchProvider'
    BY <1>1, <1>2, <2>1
       DEF OrderInv, DocumentInv, PaymentTypes, OrderTypes, BooksMatchProvider, NoClaim, ClaimRecords
  <2>4. NoticedPayments'
    BY <1>1, <2>2 DEF OrderInv, DocumentInv, NoticedPayments
  <2>5. OrdersFollowMoney' /\ UnmarkedIsQuiet'
    BY <1>1, <2>1 DEF OrderInv, DocumentInv, OrdersFollowMoney, UnmarkedIsQuiet, Unmarked, NoClaim
  <2>6. WorkersFit'
    BY <1>1, <2>2, GotoMoves DEF OrderInv, Asking, Recording, Steps, Finished
  <2> QED
    BY <2>3, <2>4, <2>5, <2>6 DEF OrderInv, DocumentInv
<1> QED
  BY <1>3, <1>4

LEMMA RefundJobKeeps ==
  ASSUME OrderInv, NEW w \in Workers, RefundJob(w)
  PROVE  OrderInv'
<1>1. /\ UNCHANGED orderVars /\ job[w].step \in RefundCalls
      /\ amount = "matches" => ~Unmarked
      /\ payment # "NONE" /\ provider.status # "READY" /\ refund[w] \in RefundRecords
      /\ RefundFits(job[w].step, refund[w])
  BY WorkerFacts, BusyIsMarked
     DEF RefundJob, RefundCalls, HarmlessSteps, OrderInv, StepFits, DocumentInv, BooksMatchProvider,
         PaymentTypes
<1>2. refund[w].pc # "idle" => Evidence
  BY <1>1 DEF RefundFits
<1> USE DEF Asking, Recording, Steps, Finished
<1>3. CASE AlreadyHandled(w)
  <2>1. Evidence
    BY <1>1, <1>3 DEF AlreadyHandled, ClaimTaken, Evidence, OrderInv, DocumentInv, PaymentTypes
  <2> QED
    BY <1>1, <1>3, <2>1, QuietGoto DEF AlreadyHandled
<1>4. CASE ClaimRefund(w)
  BY <1>1, <1>4, ClaimRefundKeeps
<1>5. CASE ReadProvider(w)
  <2>1. PICK s \in {"completeAfterReadback", "recheck", "uncertain"} :
          Goto(w, s) /\ (s = "completeAfterReadback" => provider.status = "CANCELLED")
    BY <1>5 DEF ReadProvider, AfterReadback
  <2>2. Evidence /\ refund[w].key \in Workers
    BY <1>1, <1>2, <1>5 DEF ReadProvider, RefundFits
  <2> QED
    BY <1>1, <1>5, <2>1, <2>2, QuietGoto DEF ReadProvider
<1>6. CASE ReadbackFails(w)
  BY <1>1, <1>2, <1>6, QuietGoto DEF ReadbackFails
<1>7. CASE RecheckOwnership(w)
  <2>1. PICK s \in {"post", "returned"} : Goto(w, s)
    BY <1>7 DEF RecheckOwnership
  <2>2. Evidence /\ refund[w].key \in Workers
    BY <1>1, <1>2, <1>7 DEF RecheckOwnership, RefundFits
  <2> QED
    BY <1>1, <1>7, <2>1, <2>2, QuietGoto DEF RecheckOwnership
<1>8. CASE PostRefund(w)
  <2>1. Evidence /\ refund[w].key \in Workers
    BY <1>1, <1>2, <1>8 DEF PostRefund, RefundFits
  <2>2. Stable /\ DocumentInv'
    BY <1>1, <1>8, <2>1, ProviderMoves DEF PostRefund, orderVars, OrderInv
  <2>3. provider'.status = "CANCELLED"
    BY <1>1, <1>8, <2>2 DEF PostRefund, Cancelled, OrderInv, DocumentInv, PaymentTypes, ProviderRecords
  <2>4. WorkersFit'
    BY <1>1, <1>8, <2>1, <2>2, <2>3, GotoMoves DEF PostRefund, orderVars, OrderInv, Stable
  <2> QED
    BY <2>2, <2>4 DEF OrderInv
<1>9. CASE PostFails(w)
  <2>1. Evidence /\ refund[w].key \in Workers
    BY <1>1, <1>2, <1>9 DEF PostFails, RefundFits
  <2>2. /\ UNCHANGED <<payment, claim, provider, order, finalRefund, amount, webhook, job>>
        /\ stray' = stray \union {refund[w].key} /\ Goto(w, "uncertain")
    BY <1>1, <1>9 DEF PostFails, AfterFailedPost, orderVars
  <2>3. Stable /\ Evidence'
    BY <2>1, <2>2 DEF Stable, Evidence, Unmarked
  <2>4. PaymentTypes' /\ OrderTypes' /\ BooksMatchProvider' /\ OrdersFollowMoney'
    BY <2>1, <2>2
       DEF OrderInv, DocumentInv, PaymentTypes, OrderTypes, BooksMatchProvider, OrdersFollowMoney,
           Unmarked
  <2>5. NoticedPayments' /\ UnmarkedIsQuiet'
    BY <1>1, <2>2, <2>3 DEF OrderInv, DocumentInv, NoticedPayments, UnmarkedIsQuiet, Unmarked
  <2>6. WorkersFit'
    BY <1>1, <2>2, <2>3, GotoMoves DEF OrderInv
  <2> QED
    BY <2>4, <2>5, <2>6 DEF OrderInv, DocumentInv
<1>10. CASE CompleteRefund(w)
  BY <1>1, <1>10, RefundFinishes
<1>11. CASE CompleteRefundFails(w)
  <2>1. PICK s \in {"uncertain", "threw"} : Goto(w, s)
    BY <1>11 DEF CompleteRefundFails
  <2> QED
    BY <1>1, <1>2, <1>11, <2>1, QuietGoto DEF CompleteRefundFails
<1>12. CASE PersistUncertainRefund(w)
  <2>1. CASE ~Owns(w)
    BY <1>1, <1>2, <1>12, <2>1, QuietGoto DEF PersistUncertainRefund
  <2>2. CASE Owns(w)
    <3>1. payment = "PAID" /\ claim.key \in Workers
      BY <2>2 DEF Owns, OrderInv, DocumentInv, PaymentTypes
    <3>2. claim' \in ClaimRecords /\ claim'.status # "NONE" /\ claim'.key \in Workers
      BY <1>12, <2>2, <3>1 DEF PersistUncertainRefund, UncertainClaim, Claim, ClaimRecords
    <3>3. Stable /\ Evidence' /\ DocumentInv'
      BY <1>1, <1>12, <3>1, <3>2, ClaimMoves DEF PersistUncertainRefund, orderVars, OrderInv
    <3>4. WorkersFit'
      BY <1>1, <1>12, <3>3, GotoMoves DEF PersistUncertainRefund, orderVars, OrderInv
    <3> QED
      BY <3>3, <3>4 DEF OrderInv
  <2> QED
    BY <2>1, <2>2
<1>13. CASE PersistUncertainRefundFails(w)
  BY <1>1, <1>2, <1>13, QuietGoto DEF PersistUncertainRefundFails
<1> QED
  BY <1>3, <1>4, <1>5, <1>6, <1>7, <1>8, <1>9, <1>10, <1>11, <1>12, <1>13
     DEF RefundJob, RefundByOrderId, RefundSteps

-------------------------------------------------------------------------------
(* The customer, the driver, and time. *)
LEMMA PayKeeps ==
  ASSUME OrderInv, Pay
  PROVE  OrderInv'
<1>1. /\ UNCHANGED <<payment, claim, stray, order, finalRefund, amount, job, refund>>
      /\ provider.status = "READY" /\ webhook' = "due"
  BY DEF Pay
<1>2. provider' \in ProviderRecords /\ provider'.status = "PAID"
  BY DEF Pay, ProviderRecords, OrderInv, DocumentInv, PaymentTypes
<1>3. Stable
  BY <1>1, <1>2 DEF Stable, Evidence, Unmarked
<1>4. PaymentTypes' /\ OrderTypes' /\ BooksMatchProvider' /\ OrdersFollowMoney'
  BY <1>1, <1>2
     DEF OrderInv, DocumentInv, PaymentTypes, OrderTypes, BooksMatchProvider, OrdersFollowMoney, Unmarked
<1>5. NoticedPayments' /\ UnmarkedIsQuiet'
  BY <1>1, <1>2, <1>3 DEF OrderInv, DocumentInv, NoticedPayments, UnmarkedIsQuiet, Unmarked, Stable
<1> QED
  BY <1>1, <1>3, <1>4, <1>5, WorkersStay DEF OrderInv, DocumentInv

LEMMA DispatchKeeps ==
  ASSUME OrderInv, DispatchOrder
  PROVE  OrderInv'
<1>1. /\ UNCHANGED <<payment, claim, provider, stray, finalRefund, amount, webhook, job, refund>>
      /\ order.status = "ACCEPTED" /\ order.cancellation \notin InProgress
  BY DEF DispatchOrder, refundVars, MayDispatch
<1>2. order' = [status |-> "DELIVERING", reason |-> order.reason, cancellation |-> order.cancellation,
                lateRefund |-> order.lateRefund]
  BY OrderParts DEF DispatchOrder, OrderInv
<1>3. Stable
  BY <1>1, <1>2 DEF Stable, Evidence, Unmarked, Taken
<1>4. PaymentTypes' /\ BooksMatchProvider'
  BY <1>1 DEF OrderInv, DocumentInv, PaymentTypes, BooksMatchProvider
<1>5. OrderTypes' /\ NoticedPayments'
  BY <1>1, <1>2, <1>3, OrderParts
     DEF OrderInv, DocumentInv, OrderTypes, OrderRecords, NoticedPayments, Stable
<1>6. OrdersFollowMoney' /\ UnmarkedIsQuiet'
  BY <1>1, <1>2, OrderParts
     DEF OrderInv, DocumentInv, OrdersFollowMoney, UnmarkedIsQuiet, Unmarked, Taken
<1> QED
  BY <1>1, <1>3, <1>4, <1>5, <1>6, WorkersStay DEF OrderInv, DocumentInv

LEMMA FinalLeaseKeeps ==
  ASSUME OrderInv, FinalLeaseLapses
  PROVE  OrderInv'
<1>1. UNCHANGED <<payment, claim, provider, stray, order, amount, webhook, job, refund>>
  BY DEF FinalLeaseLapses, refundVars
<1>2. finalRefund' \in FinalRecords /\ finalRefund'.status = finalRefund.status
  BY DEF FinalLeaseLapses, FinalRecords, OrderInv, DocumentInv, OrderTypes
<1>3. Stable
  BY <1>1, <1>2 DEF Stable, Evidence, Unmarked
<1>4. PaymentTypes' /\ OrderTypes' /\ BooksMatchProvider' /\ OrdersFollowMoney'
  BY <1>1, <1>2
     DEF OrderInv, DocumentInv, PaymentTypes, OrderTypes, BooksMatchProvider, OrdersFollowMoney, Unmarked
<1>5. NoticedPayments' /\ UnmarkedIsQuiet'
  BY <1>1, <1>2, <1>3 DEF OrderInv, DocumentInv, NoticedPayments, UnmarkedIsQuiet, Unmarked, Stable
<1> QED
  BY <1>1, <1>3, <1>4, <1>5, WorkersStay DEF OrderInv, DocumentInv

LEMMA ClaimLeaseKeeps ==
  ASSUME OrderInv, LeaseLapses, UNCHANGED orderVars
  PROVE  OrderInv'
<1>1. UNCHANGED <<payment, provider, stray, order, finalRefund, amount, webhook, job, refund>>
  BY DEF LeaseLapses, orderVars
<1>2. claim' \in ClaimRecords /\ claim'.status = claim.status /\ claim'.key = claim.key
  BY DEF LeaseLapses, ClaimRecords, OrderInv, DocumentInv, PaymentTypes
<1>3. Stable
  BY <1>1, <1>2 DEF Stable, Evidence, Unmarked
<1>4. PaymentTypes' /\ OrderTypes' /\ BooksMatchProvider' /\ OrdersFollowMoney'
  BY <1>1, <1>2
     DEF OrderInv, DocumentInv, PaymentTypes, OrderTypes, BooksMatchProvider, OrdersFollowMoney, Unmarked
<1>5. NoticedPayments' /\ UnmarkedIsQuiet'
  BY <1>1, <1>2, <1>3 DEF OrderInv, DocumentInv, NoticedPayments, UnmarkedIsQuiet, Unmarked, Stable
<1> QED
  BY <1>1, <1>3, <1>4, <1>5, WorkersStay DEF OrderInv, DocumentInv

LEMMA StrayKeeps ==
  ASSUME OrderInv, StrayRequestLands, UNCHANGED orderVars
  PROVE  OrderInv'
<1>1. PICK key \in stray : provider' = Cancelled(key) /\ stray' = stray \ {key}
        /\ UNCHANGED <<payment, claim, refund>>
  BY DEF StrayRequestLands
<1>2. Evidence /\ (amount = "matches" => ~Unmarked) /\ key \in Workers \union {"finalization"}
  BY <1>1 DEF OrderInv, DocumentInv, NoticedPayments, UnmarkedIsQuiet, PaymentTypes
<1>3. Stable /\ DocumentInv'
  BY <1>1, <1>2, ProviderMoves DEF OrderInv, orderVars
<1> QED
  BY <1>1, <1>3, WorkersStay DEF OrderInv, orderVars

LEMMA StutterKeeps ==
  ASSUME OrderInv, UNCHANGED vars
  PROVE  OrderInv'
<1>1. UNCHANGED Documents /\ webhook' = webhook /\ UNCHANGED <<job, refund>>
  BY DEF vars, Documents
<1>2. Stable /\ Answered
  BY <1>1, DocumentsStay DEF Answered, OrderInv, DocumentInv, OrderTypes
<1> QED
  BY <1>1, <1>2, WorkersStay, DocumentsKept DEF OrderInv

LEMMA OrderInitially == OrderInit => OrderInv
<1> SUFFICES ASSUME OrderInit
             PROVE  OrderInv
  OBVIOUS
<1> USE DEF OrderInit, NoClaim
<1>1. PaymentTypes
  BY DEF PaymentTypes, ClaimRecords, ProviderRecords
<1>2. OrderTypes
  BY RolesAssumption DEF OrderTypes, OrderRecords, FinalRecords
<1>3. BooksMatchProvider /\ NoticedPayments /\ OrdersFollowMoney /\ UnmarkedIsQuiet
  BY DEF BooksMatchProvider, NoticedPayments, OrdersFollowMoney, UnmarkedIsQuiet, Taken
<1>4. WorkersFit
  BY DEF WorkersFit, StepFits, RefundFits, ServesFits, Free, Idle, JobRecords, RefundRecords, Steps,
         Asking, Recording, FinalSteps, RefundCalls, HarmlessSteps
<1> QED
  BY <1>1, <1>2, <1>3, <1>4 DEF OrderInv, DocumentInv

LEMMA FinalizerKeeps ==
  ASSUME OrderInv, NEW w \in Workers, Finalize(w)
  PROVE  OrderInv'
BY LookUps, CancelPendings, ReadOrderKeeps, SettlePaymentKeeps, SettlementRefundedKeeps,
   MarkRefundFailedKeeps, ClaimFinalizationRefundKeeps, ReadFinals, PostFinals,
   RecordLateRefundKeeps, MarkFinals
   DEF Finalize

LEMMA CancellerKeeps ==
  ASSUME OrderInv, NEW w \in Workers, CancelOrder(w)
  PROVE  OrderInv'
BY ClaimCancellationKeeps, CancellationRefundedKeeps, Records, ApplyLocals, CancelSettlementKeeps
   DEF CancelOrder

THEOREM OrderInvariant == OrderSpec => []OrderInv
<1>1. ASSUME OrderInv, [OrderNext]_vars
      PROVE  OrderInv'
  <2>1. CASE \E w \in Finalizers : Finalize(w)
    BY <1>1, <2>1, RolesAssumption, FinalizerKeeps
  <2>2. CASE \E w \in Cancellers : CancelOrder(w)
    BY <1>1, <2>2, RolesAssumption, CancellerKeeps
  <2>3. CASE \E w \in Workers : RefundJob(w)
    BY <1>1, <2>3, RefundJobKeeps
  <2>4. CASE \E w \in Crashing : CrashJob(w)
    BY <1>1, <2>4, RolesAssumption, CrashJobKeeps
  <2>5. CASE Pay \/ PaymentFailed \/ DispatchOrder \/ FinalLeaseLapses
    BY <1>1, <2>5, PayKeeps, PaymentFailedKeeps, DispatchKeeps, FinalLeaseKeeps
  <2>6. CASE (StrayRequestLands \/ LeaseLapses) /\ UNCHANGED orderVars
    BY <1>1, <2>6, StrayKeeps, ClaimLeaseKeeps
  <2>7. CASE UNCHANGED vars
    BY <1>1, <2>7, StutterKeeps
  <2> QED
    BY <1>1, <2>1, <2>2, <2>3, <2>4, <2>5, <2>6, <2>7 DEF OrderNext
<1> QED
  BY <1>1, OrderInitially, PTL DEF OrderSpec
-------------------------------------------------------------------------------
(* The documents and the workers' steps keep their types. *)
THEOREM OrderTypeCorrectness == OrderSpec => []OrderTypeOK
<1>1. OrderInv => OrderTypeOK
  BY DEF OrderInv, DocumentInv, PaymentTypes, OrderTypes, WorkersFit, RefundFits, OrderTypeOK,
         ClaimRecords, ProviderRecords, OrderRecords, FinalRecords, RefundRecords, JobRecords,
         RefundCalls
<1> QED
  BY <1>1, OrderInvariant, PTL

(* The books say refunded only what the provider returned, and paid only   *)
(* what was paid, whoever took a claim over.                               *)
THEOREM HonestOrderBooks == OrderSpec => []BooksMatchProvider
<1>1. OrderInv => BooksMatchProvider
  BY DEF OrderInv, DocumentInv
<1> QED
  BY <1>1, OrderInvariant, PTL

(* An order that goes out for delivery was paid, and its money stays.      *)
THEOREM PaidDeliveries == OrderSpec => []DeliveredOrdersArePaid
<1>1. OrderInv => DeliveredOrdersArePaid
  <2> SUFFICES ASSUME OrderInv, order.status = "DELIVERING", order.reason = "none"
               PROVE  payment = "PAID" /\ provider.status = "PAID"
    BY DEF DeliveredOrdersArePaid
  <2>1. Unmarked /\ payment = "PAID" /\ amount = "matches"
    BY DEF OrderInv, DocumentInv, OrdersFollowMoney, Unmarked, Taken
  <2>2. provider.status # "READY" /\ provider.status # "CANCELLED"
    BY <2>1 DEF OrderInv, DocumentInv, BooksMatchProvider, UnmarkedIsQuiet
  <2> QED
    BY <2>1, <2>2 DEF OrderInv, DocumentInv, PaymentTypes, ProviderRecords
<1> QED
  BY <1>1, OrderInvariant, PTL

(* Money paid for a cancelled order is never forgotten, whoever crashed.   *)
THEOREM NoMoneyForgotten == OrderSpec => []MoneyIsAccountedFor
<1>1. OrderInv => MoneyIsAccountedFor
  <2> SUFFICES ASSUME OrderInv, order.status = "CANCELLED", provider.status = "PAID",
                      webhook # "due", claim.status = "NONE"
               PROVE  finalRefund.status \in {"CLAIMED", "UNKNOWN"}
    BY DEF MoneyIsAccountedFor
  <2>1. Evidence /\ payment # "CANCELLED" /\ finalRefund.status # "REFUNDED"
    BY DEF OrderInv, DocumentInv, NoticedPayments, BooksMatchProvider
  <2>2. finalRefund.status \in {"NONE", "CLAIMED", "UNKNOWN", "REFUNDED"}
    BY DEF OrderInv, DocumentInv, OrderTypes, FinalRecords
  <2> QED
    BY <2>1, <2>2 DEF Evidence, Taken
<1> QED
  BY <1>1, OrderInvariant, PTL
-------------------------------------------------------------------------------
(* The run of the payment and then the delivery is a behaviour of both     *)
(* specifications, because the phase that is over stutters: what is proved *)
(* of the payment and of the redelivery fee holds of the run.              *)
THEOREM PhasesRunBoth == PhaseSpec => OrderSpec /\ RedeliverySpec
<1>1. PhaseInit => OrderInit /\ RedeliveryInit
  BY DEF PhaseInit
<1>2. ASSUME [PhaseNext]_<<phase, vars, redeliveryVars>>
      PROVE  [OrderNext]_vars /\ [RedeliveryNext]_redeliveryVars
  BY <1>2 DEF PhaseNext
<1> QED
  BY <1>1, <1>2, PTL DEF PhaseSpec, OrderSpec, RedeliverySpec
================================================================================
