------------------------------ MODULE ClaimProofs ------------------------------
(***************************************************************************)
(* Theorems about the claims and leases that end by themselves, for any    *)
(* number of workers, instances, senders and sessions: PaymentRefund,      *)
(* RefundedSale, JobLease, NotificationDelivery and RefreshSessions.       *)
(***************************************************************************)
EXTENDS RefundedSale, JobLease, NotificationDelivery, RefreshSessions, FiniteSetTheorems, TLAPS

(***************************************************************************)
(* The refund of a payment.  The inductive invariant adds to the           *)
(* properties where their force comes from: until a payment is claimed     *)
(* nobody has touched it, and a worker that is about to record a refund    *)
(* has seen the money returned.                                            *)
(***************************************************************************)

Asking == {"readback", "recheck", "post"}
Recording == {"complete", "completeAfterReadback"}

(* A payment that counts as paid and has no claim has met no worker. *)
UnclaimedIsUntouched ==
  payment = "PAID" /\ claim.status = "NONE" =>
    /\ stray = {} /\ provider.by \notin Workers
    /\ \A w \in Workers : refund[w].pc \in {"idle"} \union Finished

(* Whoever is about to record the refund has seen the money returned. *)
RecordersSawReturn ==
  \A w \in Workers : refund[w].pc \in Recording => provider.status = "CANCELLED"

AskersHaveKeys == \A w \in Workers : refund[w].pc \in Asking => refund[w].key \in Workers

RefundInv ==
  /\ TypeOK
  /\ UnclaimedIsUntouched
  /\ RecordersSawReturn
  /\ AskersHaveKeys
  /\ RecordedRefundsHappened
  /\ OneRefundOperation

(* The actions of one worker, and those of nobody in particular. *)
WorkerAction(w) ==
  \/ AlreadyHandled(w) \/ ClaimRefund(w)
  \/ ReadProvider(w) \/ ReadbackFails(w) \/ RecheckOwnership(w)
  \/ PostRefund(w) \/ PostFails(w)
  \/ CompleteRefund(w) \/ CompleteRefundFails(w)
  \/ PersistUncertainRefund(w) \/ PersistUncertainRefundFails(w)
  \/ Return(w) \/ Crash(w)

LEMMA StepCases ==
  ASSUME Next
  PROVE  Environment \/ \E w \in Workers : WorkerAction(w)
BY DEF Next, RefundByOrderId, RefundSteps, WorkerAction

(* Nothing is in use before the first claim. *)
LEMMA UnclaimedHasNoKeys ==
  ASSUME RefundInv, payment = "PAID", claim.status = "NONE"
  PROVE  KeysInUse = {}
BY DEF RefundInv, UnclaimedIsUntouched, KeysInUse, Finished

(***************************************************************************)
(* Types.                                                                  *)
(***************************************************************************)
LEMMA WorkerKeepsTypes ==
  ASSUME RefundInv, NEW w \in Workers, WorkerAction(w)
  PROVE  TypeOK'
<1>1. TypeOK /\ AskersHaveKeys
  BY DEF RefundInv
<1> USE DEF TypeOK, Steps, Finished, Goto
<1>2. CASE AlreadyHandled(w)
  BY <1>1, <1>2 DEF AlreadyHandled
<1>3. CASE ClaimRefund(w)
  <2>1. RefundKey(w) \in Workers
    BY <1>1 DEF RefundKey
  <2>2. claim' \in [status : {"CLAIMED", "UNKNOWN"}, token : Workers,
                    key : Workers, lease : {"live"}]
    BY <1>3, <2>1 DEF ClaimRefund, Claim
  <2>3. refund' \in [Workers -> [pc : Steps, key : Workers \union {Nobody}]]
    BY <1>1, <1>3, <2>1 DEF ClaimRefund, FirstSteps
  <2> QED
    BY <1>1, <1>3, <2>2, <2>3 DEF ClaimRefund
<1>4. CASE ReadProvider(w)
  BY <1>1, <1>4 DEF ReadProvider, AfterReadback
<1>5. CASE ReadbackFails(w)
  BY <1>1, <1>5 DEF ReadbackFails
<1>6. CASE RecheckOwnership(w)
  BY <1>1, <1>6 DEF RecheckOwnership
<1>7. CASE PostRefund(w)
  BY <1>1, <1>7 DEF PostRefund, Cancelled, AskersHaveKeys, Asking
<1>8. CASE PostFails(w)
  BY <1>1, <1>8 DEF PostFails, AfterFailedPost, AskersHaveKeys, Asking
<1>9. CASE CompleteRefund(w)
  BY <1>1, <1>9 DEF CompleteRefund, NoClaim
<1>10. CASE CompleteRefundFails(w)
  BY <1>1, <1>10 DEF CompleteRefundFails
<1>11. CASE PersistUncertainRefund(w)
  <2>1. claim' = claim \/ (claim' = Claim("UNKNOWN", w, claim.key) /\ claim.key \in Workers)
    BY <1>1, <1>11 DEF PersistUncertainRefund, UncertainClaim, Owns
  <2>2. refund' \in [Workers -> [pc : Steps, key : Workers \union {Nobody}]]
    BY <1>1, <1>11 DEF PersistUncertainRefund
  <2> QED
    BY <1>1, <1>11, <2>1, <2>2 DEF PersistUncertainRefund, Claim
<1>12. CASE PersistUncertainRefundFails(w)
  BY <1>1, <1>12 DEF PersistUncertainRefundFails
<1>13. CASE Return(w)
  BY <1>1, <1>13 DEF Return, Idle
<1>14. CASE Crash(w)
  BY <1>1, <1>14 DEF Crash, Idle
<1> QED
  BY <1>2, <1>3, <1>4, <1>5, <1>6, <1>7, <1>8, <1>9, <1>10, <1>11, <1>12, <1>13, <1>14,
     WorkerAction(w) DEF WorkerAction

LEMMA EnvironmentKeepsTypes ==
  ASSUME RefundInv, Environment
  PROVE  TypeOK'
<1>1. TypeOK
  BY DEF RefundInv
<1> USE DEF TypeOK
<1>2. CASE StrayRequestLands
  BY <1>1, <1>2 DEF StrayRequestLands, Cancelled
<1>3. CASE LeaseLapses
  BY <1>1, <1>3 DEF LeaseLapses, NoClaim
<1>4. CASE RefundOnConsole
  BY <1>1, <1>4 DEF RefundOnConsole, Cancelled
<1> QED
  BY <1>2, <1>3, <1>4 DEF Environment

(***************************************************************************)
(* The path of a worker: an untouched payment stays untouched until it is  *)
(* claimed, keys are held while asking, and recording follows a return.    *)
(***************************************************************************)
Path == UnclaimedIsUntouched /\ RecordersSawReturn /\ AskersHaveKeys /\ RecordedRefundsHappened

LEMMA WorkerKeepsPath ==
  ASSUME RefundInv, NEW w \in Workers, WorkerAction(w)
  PROVE  Path'
<1>1. TypeOK /\ UnclaimedIsUntouched /\ RecordersSawReturn /\ AskersHaveKeys
        /\ RecordedRefundsHappened
  BY DEF RefundInv
<1> USE WorkersAssumption
    DEF Path, UnclaimedIsUntouched, RecordersSawReturn, AskersHaveKeys, RecordedRefundsHappened,
        Asking, Recording, Finished, Goto, TypeOK, Steps
<1>2. CASE AlreadyHandled(w)
  BY <1>1, <1>2 DEF AlreadyHandled
<1>3. CASE ClaimRefund(w)
  <2>1. RefundKey(w) \in Workers
    BY <1>1 DEF RefundKey
  <2>2. claim'.status # "NONE" /\ payment' = "PAID" /\ provider' = provider
    BY <1>3 DEF ClaimRefund, Claim
  <2>3. PICK step \in {"post", "readback"} :
          refund' = [refund EXCEPT ![w] = [pc |-> step, key |-> RefundKey(w)]]
    BY <1>3 DEF ClaimRefund, FirstSteps
  <2> QED
    BY <1>1, <2>1, <2>2, <2>3
<1>4. CASE ReadProvider(w)
  BY <1>1, <1>4 DEF ReadProvider, AfterReadback
<1>5. CASE ReadbackFails(w)
  BY <1>1, <1>5 DEF ReadbackFails
<1>6. CASE RecheckOwnership(w)
  BY <1>1, <1>6 DEF RecheckOwnership
<1>7. CASE PostRefund(w)
  <2>1. provider'.status = "CANCELLED" /\ ~(payment = "PAID" /\ claim.status = "NONE")
    BY <1>1, <1>7 DEF PostRefund, Cancelled, Accepts
  <2> QED
    BY <1>1, <1>7, <2>1 DEF PostRefund
<1>8. CASE PostFails(w)
  BY <1>1, <1>8 DEF PostFails, AfterFailedPost
<1>9. CASE CompleteRefund(w)
  BY <1>1, <1>9 DEF CompleteRefund, NoClaim
<1>10. CASE CompleteRefundFails(w)
  BY <1>1, <1>10 DEF CompleteRefundFails
<1>11. CASE PersistUncertainRefund(w)
  <2>1. claim' = claim \/ (claim'.status = "UNKNOWN" /\ claim.status # "NONE")
    BY <1>1, <1>11 DEF PersistUncertainRefund, UncertainClaim, Owns, Claim
  <2> QED
    BY <1>1, <1>11, <2>1 DEF PersistUncertainRefund
<1>12. CASE PersistUncertainRefundFails(w)
  BY <1>1, <1>12 DEF PersistUncertainRefundFails
<1>13. CASE Return(w)
  BY <1>1, <1>13 DEF Return, Idle
<1>14. CASE Crash(w)
  BY <1>1, <1>14 DEF Crash, Idle
<1> QED
  BY <1>2, <1>3, <1>4, <1>5, <1>6, <1>7, <1>8, <1>9, <1>10, <1>11, <1>12, <1>13, <1>14,
     WorkerAction(w) DEF WorkerAction

LEMMA EnvironmentKeepsPath ==
  ASSUME RefundInv, Environment
  PROVE  Path'
<1>1. TypeOK /\ UnclaimedIsUntouched /\ RecordersSawReturn /\ AskersHaveKeys
        /\ RecordedRefundsHappened
  BY DEF RefundInv
<1> USE WorkersAssumption
    DEF Path, UnclaimedIsUntouched, RecordersSawReturn, AskersHaveKeys, RecordedRefundsHappened,
        Asking, Recording, Finished, TypeOK
<1>2. CASE StrayRequestLands
  BY <1>1, <1>2 DEF StrayRequestLands, Cancelled
<1>3. CASE LeaseLapses
  <2>1. claim'.status = claim.status
    BY <1>1, <1>3 DEF LeaseLapses
  <2> QED
    BY <1>1, <1>3, <2>1 DEF LeaseLapses
<1>4. CASE RefundOnConsole
  BY <1>1, <1>4 DEF RefundOnConsole, Cancelled
<1> QED
  BY <1>2, <1>3, <1>4 DEF Environment

(***************************************************************************)
(* One key.  Only the first claim mints one; every other step moves keys   *)
(* between the places that hold them, or drops them.                       *)
(***************************************************************************)
LEMMA FewerKeys ==
  ASSUME OneRefundOperation, KeysInUse' \subseteq KeysInUse
  PROVE  OneRefundOperation'
BY DEF OneRefundOperation

LEMMA ClaimUsesOneKey ==
  ASSUME RefundInv, NEW w \in Workers, ClaimRefund(w)
  PROVE  OneRefundOperation'
<1>1. TypeOK /\ OneRefundOperation
  BY DEF RefundInv
<1>2. claim'.status # "NONE" /\ claim'.key = RefundKey(w)
        /\ UNCHANGED <<payment, provider, stray>> /\ payment = "PAID"
  BY DEF ClaimRefund, Claim
<1>3. PICK step \in {"post", "readback"} :
        refund' = [refund EXCEPT ![w] = [pc |-> step, key |-> RefundKey(w)]]
  BY DEF ClaimRefund, FirstSteps
<1>4. KeysInUse' \subseteq KeysInUse \union {RefundKey(w)}
  BY <1>1, <1>2, <1>3 DEF KeysInUse, TypeOK
<1>5. CASE claim.status = "NONE"
  BY <1>2, <1>4, <1>5, UnclaimedHasNoKeys DEF OneRefundOperation
<1>6. CASE claim.status # "NONE"
  <2>1. RefundKey(w) \in KeysInUse
    BY <1>6 DEF RefundKey, KeysInUse
  <2> QED
    BY <1>1, <1>4, <2>1, FewerKeys
<1> QED
  BY <1>5, <1>6

LEMMA WorkerUsesOneKey ==
  ASSUME RefundInv, NEW w \in Workers, WorkerAction(w)
  PROVE  OneRefundOperation'
<1>1. TypeOK /\ OneRefundOperation /\ AskersHaveKeys
  BY DEF RefundInv
<1>2. CASE ClaimRefund(w)
  BY <1>2, ClaimUsesOneKey
<1>3. CASE PostRefund(w)
  <2>1. refund[w].key \in KeysInUse /\ refund[w].key \in Workers
    BY <1>1, <1>3 DEF PostRefund, KeysInUse, AskersHaveKeys, Asking
  <2>2. provider'.by \in {provider.by, refund[w].key}
    BY <1>3 DEF PostRefund, Cancelled
  <2>3. KeysInUse' \subseteq KeysInUse
    BY <1>1, <1>3, <2>1, <2>2 DEF PostRefund, Goto, KeysInUse, TypeOK
  <2> QED
    BY <1>1, <2>3, FewerKeys
<1>4. CASE PostFails(w)
  <2>1. refund[w].key \in KeysInUse
    BY <1>1, <1>4 DEF PostFails, KeysInUse
  <2>2. KeysInUse' \subseteq KeysInUse
    BY <1>1, <1>4, <2>1 DEF PostFails, Goto, AfterFailedPost, KeysInUse, TypeOK
  <2> QED
    BY <1>1, <2>2, FewerKeys
<1>5. CASE CompleteRefund(w)
  <2>1. KeysInUse' \subseteq KeysInUse
    BY <1>1, <1>5 DEF CompleteRefund, Goto, NoClaim, KeysInUse, TypeOK
  <2> QED
    BY <1>1, <2>1, FewerKeys
<1>6. CASE PersistUncertainRefund(w)
  <2>1. claim' = claim \/ (claim'.key = claim.key /\ claim.status # "NONE")
    BY <1>6 DEF PersistUncertainRefund, UncertainClaim, Owns, Claim
  <2>2. KeysInUse' \subseteq KeysInUse
    BY <1>1, <1>6, <2>1 DEF PersistUncertainRefund, Goto, KeysInUse, TypeOK
  <2> QED
    BY <1>1, <2>2, FewerKeys
<1>7. CASE ReadProvider(w) \/ ReadbackFails(w) \/ RecheckOwnership(w) \/ CompleteRefundFails(w)
           \/ PersistUncertainRefundFails(w) \/ AlreadyHandled(w) \/ Return(w) \/ Crash(w)
  <2>1. UNCHANGED <<stray, provider, claim>> /\ refund' \in [Workers -> [pc : Steps, key : Workers \union {Nobody}]]
    BY <1>1, <1>7, WorkerKeepsTypes
       DEF TypeOK, ReadProvider, ReadbackFails, RecheckOwnership, CompleteRefundFails,
           PersistUncertainRefundFails, AlreadyHandled, Return, Crash
  <2>2. \A v \in Workers : refund'[v].pc \in Asking =>
          refund'[v].key = refund[v].key /\ (refund[v].pc \in Asking \/ v = w)
    BY <1>1, <1>7
       DEF TypeOK, ReadProvider, AfterReadback, ReadbackFails, RecheckOwnership, CompleteRefundFails,
           PersistUncertainRefundFails, AlreadyHandled, Return, Crash, Goto, Asking, Idle
  <2>3. refund'[w].pc \in Asking => refund[w].pc \in Asking
    BY <1>1, <1>7
       DEF TypeOK, ReadProvider, AfterReadback, ReadbackFails, RecheckOwnership, CompleteRefundFails,
           PersistUncertainRefundFails, AlreadyHandled, Return, Crash, Goto, Asking, Idle
  <2>4. KeysInUse' \subseteq KeysInUse
    BY <2>1, <2>2, <2>3 DEF KeysInUse, Asking
  <2> QED
    BY <1>1, <2>4, FewerKeys
<1> QED
  BY <1>2, <1>3, <1>4, <1>5, <1>6, <1>7, WorkerAction(w) DEF WorkerAction

LEMMA EnvironmentUsesOneKey ==
  ASSUME RefundInv, Environment
  PROVE  OneRefundOperation'
<1>1. TypeOK /\ OneRefundOperation
  BY DEF RefundInv
<1>2. KeysInUse' \subseteq KeysInUse
  <2>1. CASE StrayRequestLands
    BY <1>1, <2>1 DEF StrayRequestLands, Cancelled, KeysInUse, TypeOK
  <2>2. CASE LeaseLapses
    BY <1>1, <2>2 DEF LeaseLapses, KeysInUse, TypeOK
  <2>3. CASE RefundOnConsole
    BY <1>1, <2>3, WorkersAssumption DEF RefundOnConsole, Cancelled, KeysInUse, TypeOK
  <2> QED
    BY <2>1, <2>2, <2>3 DEF Environment
<1> QED
  BY <1>1, <1>2, FewerKeys

THEOREM RefundInvariant == Spec => []RefundInv
<1>1. Init => RefundInv
  BY WorkersAssumption
     DEF Init, RefundInv, TypeOK, UnclaimedIsUntouched, RecordersSawReturn, AskersHaveKeys,
         RecordedRefundsHappened, OneRefundOperation, KeysInUse, NoClaim, Idle, Steps, Finished,
         Asking, Recording
<1>2. ASSUME RefundInv, [Next]_refundVars
      PROVE  RefundInv'
  <2>1. CASE Next
    <3>1. CASE Environment
      BY <1>2, <3>1, EnvironmentKeepsTypes, EnvironmentKeepsPath, EnvironmentUsesOneKey
         DEF RefundInv, Path
    <3>2. CASE \E w \in Workers : WorkerAction(w)
      BY <1>2, <3>2, WorkerKeepsTypes, WorkerKeepsPath, WorkerUsesOneKey DEF RefundInv, Path
    <3> QED
      BY <2>1, <3>1, <3>2, StepCases
  <2>2. CASE UNCHANGED refundVars
    BY <1>2, <2>2
       DEF refundVars, RefundInv, TypeOK, UnclaimedIsUntouched, RecordersSawReturn, AskersHaveKeys,
           RecordedRefundsHappened, OneRefundOperation, KeysInUse
  <2> QED
    BY <1>2, <2>1, <2>2
<1> QED
  BY <1>1, <1>2, PTL DEF Spec

(***************************************************************************)
(* The theorems.                                                           *)
(***************************************************************************)
(* The documents keep their types, whoever takes a claim over. *)
THEOREM RefundTypes == Spec => []TypeOK
<1>1. RefundInv => TypeOK
  BY DEF RefundInv
<1> QED
  BY <1>1, RefundInvariant, PTL

(* completeRefund never records a refund that the provider did not make. *)
THEOREM RecordedIsReturned == Spec => []RecordedRefundsHappened
<1>1. RefundInv => RecordedRefundsHappened
  BY DEF RefundInv
<1> QED
  BY <1>1, RefundInvariant, PTL

(* All requests for a refund carry one idempotency key. *)
THEOREM SingleOperation == Spec => []OneRefundOperation
<1>1. RefundInv => OneRefundOperation
  BY DEF RefundInv
<1> QED
  BY <1>1, RefundInvariant, PTL

(* No request is under way that the payment document does not know of. *)
THEOREM Claimed == Spec => []RequestsAreClaimed
<1>1. RefundInv => RequestsAreClaimed
  BY DEF RefundInv, TypeOK, RequestsAreClaimed, UnclaimedIsUntouched
<1> QED
  BY <1>1, RefundInvariant, PTL

(***************************************************************************)
(* Refinement: every step is a step of the contract or leaves its state.   *)
(***************************************************************************)
Returned == IF provider.status = "PAID" THEN "nobody"
            ELSE IF provider.by = "operator" THEN "operator" ELSE "shop"
Books == IF payment = "CANCELLED" THEN "recorded"
         ELSE IF claim.status = "NONE" THEN "open" ELSE "requested"

LEMMA WorkerImplementsContract ==
  ASSUME RefundInv, NEW w \in Workers, WorkerAction(w)
  PROVE  Contract!Next \/ UNCHANGED <<Returned, Books>>
<1>1. TypeOK /\ UnclaimedIsUntouched /\ RecordersSawReturn /\ AskersHaveKeys
        /\ RecordedRefundsHappened
  BY DEF RefundInv
<1>2. CASE ClaimRefund(w)
  <2>1. claim'.status # "NONE" /\ UNCHANGED <<payment, provider>> /\ payment = "PAID"
    BY <1>2 DEF ClaimRefund, Claim
  <2>2. UNCHANGED Returned
    BY <2>1 DEF Returned
  <2>3. CASE claim.status = "NONE"
    <3>1. Books = "open" /\ Books' = "requested"
      BY <2>1, <2>3 DEF Books
    <3> QED
      BY <2>2, <3>1 DEF Contract!Next, Contract!Request, Books, Returned
  <2>4. CASE claim.status # "NONE"
    BY <2>1, <2>2, <2>4 DEF Books
  <2> QED
    BY <2>3, <2>4
<1>3. CASE PostRefund(w)
  <2>1. UNCHANGED <<payment, claim>> /\ refund[w].key \in Workers /\ refund[w].pc = "post"
    BY <1>1, <1>3 DEF PostRefund, AskersHaveKeys, Asking
  <2>2. CASE provider.status = "PAID"
    <3>1. payment = "PAID" /\ claim.status # "NONE"
      BY <1>1, <2>1, <2>2
         DEF TypeOK, UnclaimedIsUntouched, RecordedRefundsHappened, Finished
    <3>2. provider' = [status |-> "CANCELLED", by |-> refund[w].key]
      BY <1>3, <2>2 DEF PostRefund, Cancelled
    <3>3. Returned = "nobody" /\ Returned' = "shop"
      BY <2>1, <2>2, <3>2, WorkersAssumption DEF Returned
    <3>4. Books = "requested" /\ Books' = "requested"
      BY <2>1, <3>1 DEF Books
    <3> QED
      BY <3>3, <3>4 DEF Contract!Next, Contract!ReturnMoney, Books, Returned
  <2>3. CASE provider.status # "PAID"
    <3>1. provider' = provider
      BY <1>3, <2>3 DEF PostRefund, Cancelled
    <3> QED
      BY <2>1, <3>1 DEF Books, Returned
  <2> QED
    BY <2>2, <2>3
<1>4. CASE CompleteRefund(w)
  <2>1. CASE Owns(w)
    <3>1. claim.status # "NONE" /\ payment = "PAID" /\ provider.status = "CANCELLED"
      BY <1>1, <1>4, <2>1
         DEF Owns, CompleteRefund, RecordersSawReturn, Recording, RecordedRefundsHappened, TypeOK
    <3>2. payment' = "CANCELLED" /\ provider' = provider
      BY <1>4, <2>1 DEF CompleteRefund
    <3>3. Returned # "nobody" /\ Returned' = Returned
      BY <3>1, <3>2 DEF Returned
    <3>4. Books = "requested" /\ Books' = "recorded"
      BY <3>1, <3>2 DEF Books
    <3> QED
      BY <3>3, <3>4 DEF Contract!Next, Contract!Record, Books, Returned
  <2>2. CASE ~Owns(w)
    BY <1>4, <2>2 DEF CompleteRefund, Books, Returned
  <2> QED
    BY <2>1, <2>2
<1>5. CASE PersistUncertainRefund(w)
  <2>1. claim' = claim \/ (claim.status # "NONE" /\ claim'.status = "UNKNOWN")
    BY <1>5 DEF PersistUncertainRefund, UncertainClaim, Owns, Claim
  <2>2. UNCHANGED <<payment, provider>>
    BY <1>5 DEF PersistUncertainRefund
  <2> QED
    BY <2>1, <2>2 DEF Books, Returned
<1>6. CASE UNCHANGED <<payment, claim, provider>>
  BY <1>6 DEF Books, Returned
<1> QED
  BY <1>2, <1>3, <1>4, <1>5, <1>6, WorkerAction(w)
     DEF WorkerAction, AlreadyHandled, ReadProvider, ReadbackFails, RecheckOwnership, PostFails,
         CompleteRefundFails, PersistUncertainRefundFails, Return, Crash

LEMMA EnvironmentImplementsContract ==
  ASSUME RefundInv, Environment
  PROVE  Contract!Next \/ UNCHANGED <<Returned, Books>>
<1>1. TypeOK /\ UnclaimedIsUntouched /\ RecordedRefundsHappened
  BY DEF RefundInv
<1>2. CASE StrayRequestLands
  <2>1. PICK key \in stray : provider' = Cancelled(key) /\ UNCHANGED <<payment, claim>>
    BY <1>2 DEF StrayRequestLands
  <2>2. CASE provider.status = "PAID"
    <3>1. payment = "PAID" /\ claim.status # "NONE"
      BY <1>1, <2>1, <2>2 DEF TypeOK, UnclaimedIsUntouched, RecordedRefundsHappened
    <3>2. provider' = [status |-> "CANCELLED", by |-> key]
      BY <2>1, <2>2 DEF Cancelled
    <3>3. Returned = "nobody" /\ Returned' = "shop"
      BY <1>1, <2>1, <2>2, <3>2, WorkersAssumption DEF Returned, TypeOK
    <3>4. Books = "requested" /\ Books' = "requested"
      BY <2>1, <3>1 DEF Books
    <3> QED
      BY <3>3, <3>4 DEF Contract!Next, Contract!ReturnMoney, Books, Returned
  <2>3. CASE provider.status # "PAID"
    BY <2>1, <2>3 DEF Cancelled, Books, Returned
  <2> QED
    BY <2>2, <2>3
<1>3. CASE LeaseLapses
  <2>1. claim'.status = claim.status /\ UNCHANGED <<payment, provider>>
    BY <1>1, <1>3 DEF LeaseLapses, TypeOK
  <2> QED
    BY <2>1 DEF Books, Returned
<1>4. CASE RefundOnConsole
  <2>1. provider.status = "PAID" /\ provider'.status = "CANCELLED" /\ provider'.by = "operator"
          /\ UNCHANGED <<payment, claim>>
    BY <1>4 DEF RefundOnConsole, Cancelled
  <2>2. Returned = "nobody" /\ Returned' = "operator" /\ UNCHANGED Books
    BY <2>1 DEF Returned, Books
  <2> QED
    BY <2>2 DEF Contract!Next, Contract!ReturnOnConsole, Books, Returned
<1> QED
  BY <1>2, <1>3, <1>4 DEF Environment

(* The payment document knows of every refund, and of no other. *)
THEOREM HonestBooks == Spec => []BooksKnowOfRefunds
<1>1. RecordedRefundsHappened /\ RequestsAreClaimed => BooksKnowOfRefunds
  BY DEF BooksKnowOfRefunds
<1> QED
  BY <1>1, RecordedIsReturned, Claimed, PTL

(* Claims, leases, readbacks and takeovers implement the refund's contract. *)
THEOREM ContractKept == Spec => KeepsRefundContract
<1>1. Init => Contract!Init
  BY DEF Init, Contract!Init, NoClaim
<1>2. ASSUME RefundInv, [Next]_refundVars
      PROVE  [Contract!Next]_<<Returned, Books>>
  <2>1. CASE UNCHANGED refundVars
    BY <2>1 DEF refundVars, Returned, Books
  <2>2. CASE Next
    BY <1>2, <2>2, StepCases, WorkerImplementsContract, EnvironmentImplementsContract
  <2> QED
    BY <1>2, <2>1, <2>2
<1>3. RefundInv /\ [Next]_refundVars => [Contract!Next]_(Contract!contractVars)
  BY <1>2 DEF Contract!contractVars, Returned, Books
<1> QED
  BY <1>1, <1>3, RefundInvariant, PTL DEF Spec, KeepsRefundContract, Contract!Spec

(***************************************************************************)
(* The refund inside the refunds of its order.  The payment's side moves   *)
(* by PaymentRefund's steps, so that its invariant holds; the order's side *)
(* moves by Settlement's, because a worker is in the refund only while its *)
(* run is (RefundsHaveRuns), and a claim, once made, is there until the    *)
(* payment is returned (PaymentMoves).                                     *)
(***************************************************************************)
LEMMA RefundRunsAreWorkers == Settle!RefundRuns = Workers
BY RefundersAssumption DEF Settle!RefundRuns, Cancellers

(* Whatever the order does, the payment makes a step of its own refund.    *)
LEMMA SaleStepRefunds ==
  ASSUME [SaleNext]_refundedSaleVars
  PROVE  [Next]_refundVars
<1>1. CASE UNCHANGED refundVars
  BY <1>1
<1>2. CASE Environment
  BY <1>2 DEF Next
<1>3. ASSUME NEW w \in Workers, ReturnPayment(w) \/ EndRefund(w) \/ StopRefund(w)
      PROVE  Next \/ UNCHANGED refundVars
  BY <1>3 DEF ReturnPayment, EndRefund, StopRefund, Next
<1>4. ASSUME OwnCancellationWebhook \/ (\E w \in Workers : ReturnFee(w)) PROVE UNCHANGED refundVars
  BY <1>4 DEF OwnCancellationWebhook, ReturnFee
<1> QED
  BY <1>1, <1>2, <1>3, <1>4 DEF SaleNext, refundedSaleVars

RunSteps == {"idle", "refund", "refunded", "refundFailed", "complete", "local", "localFailed",
             "settlement"}

(* A worker is inside the refund only while its run is.                    *)
RefundsHaveRuns ==
  /\ run \in [Workers -> RunSteps]
  /\ \A w \in Workers : refund[w].pc # "idle" => run[w] = "refund"

(* The order's own steps move no run that is at its refund.                *)
LEMMA SaleStepLeavesRefunds ==
  ASSUME SaleStep, run \in [Workers -> RunSteps]
  PROVE  /\ run' \in [Workers -> RunSteps]
         /\ \A w \in Workers : run[w] = "refund" => run'[w] = "refund"
<1>1. CASE run' = run
  BY <1>1
<1> DEFINE Steer(w) == \E step \in RunSteps : Settle!RunTo(w, step)
<1>0. \A w : \A step \in RunSteps : Settle!RunTo(w, step) => Steer(w)
  OBVIOUS
<1>2. ASSUME NEW w \in Workers, run[w] # "refund", Steer(w)
      PROVE  /\ run' \in [Workers -> RunSteps]
             /\ \A v \in Workers : run[v] = "refund" => run'[v] = "refund"
  BY <1>2 DEF Settle!RunTo
<1> HIDE DEF Steer
<1>3. ASSUME NEW r \in Refunders,
             \/ \E actor \in {"seller", "admin"} : Settle!StartRefund(r, actor)
             \/ Settle!ResumeRefund(r) \/ Settle!CompleteLocally(r) \/ Settle!RecordFailedRefund(r)
      PROVE  r \in Workers /\ run[r] # "refund" /\ Steer(r)
  <2>1. run[r] \in {"idle", "complete", "refundFailed", "localFailed"}
    BY <1>3
    DEF Settle!StartRefund, Settle!ResumeRefund, Settle!CompleteLocally, Settle!RecordFailedRefund,
        Settle!RunAt
  <2>2. \/ Settle!RunTo(r, "refund") \/ Settle!RunTo(r, "settlement")
        \/ Settle!RunTo(r, "localFailed") \/ Settle!RunTo(r, "idle")
    BY <1>3
    DEF Settle!StartRefund, Settle!ResumeRefund, Settle!CompleteLocally, Settle!RecordFailedRefund
  <2> QED
    BY <1>0, <2>1, <2>2, RefundersAssumption DEF RunSteps
<1>4. ASSUME NEW c \in Cancellers,
             \/ Settle!ClaimSaleCancellation(c) \/ Settle!JoinCancellation(c)
             \/ Settle!RecordSaleCancellation(c) \/ Settle!ApplySaleCancellation(c)
      PROVE  c \in Workers /\ run[c] # "refund" /\ Steer(c)
  <2>1. run[c] \in {"idle", "refunded", "refundFailed", "localFailed", "local"}
    BY <1>4
    DEF Settle!ClaimSaleCancellation, Settle!JoinCancellation, Settle!RecordSaleCancellation,
        Settle!ApplySaleCancellation, Settle!RunAt
  <2>2. \/ Settle!RunTo(c, "refund") \/ Settle!RunTo(c, "settlement") \/ Settle!RunTo(c, "local")
        \/ Settle!RunTo(c, "localFailed") \/ Settle!RunTo(c, "idle")
    <3>1. CASE Settle!JoinCancellation(c)
      BY <3>1 DEF Settle!JoinCancellation
    <3>2. CASE Settle!RecordSaleCancellation(c)
      BY <3>2 DEF Settle!RecordSaleCancellation
    <3>3. CASE Settle!ApplySaleCancellation(c)
      BY <3>3 DEF Settle!ApplySaleCancellation
    <3>4. CASE Settle!ClaimSaleCancellation(c)
      BY <3>4 DEF Settle!ClaimSaleCancellation
    <3> QED
      BY <1>4, <3>1, <3>2, <3>3, <3>4
  <2> QED
    BY <1>0, <2>1, <2>2 DEF Cancellers, RunSteps
<1>5. ASSUME NEW w \in Workers, Settle!CancelSaleSettlement(w)
      PROVE  run[w] # "refund" /\ Steer(w)
  BY <1>0, <1>5 DEF RunSteps, Settle!CancelSaleSettlement, Settle!RunAt
<1>6. ASSUME \/ Settle!Deliver \/ Settle!Review \/ Settle!ReconcileDelivery
             \/ Settle!CreateSettlement \/ Settle!ListDueSettlements \/ Settle!ConfirmListed
             \/ Settle!MarkAsPaid \/ Settle!ReversalWebhook \/ Settle!ResolveReversal
      PROVE  run' = run
  BY <1>6
  DEF Settle!Deliver, Settle!Review, Settle!ReconcileDelivery, Settle!CreateSettlement,
      Settle!ListDueSettlements, Settle!ConfirmListed, Settle!MarkAsPaid,
      Settle!ReversalWebhook, Settle!ResolveReversal
<1> QED
  BY <1>1, <1>2, <1>3, <1>4, <1>5, <1>6 DEF SaleStep

LEMMA SaleKeepsRuns ==
  ASSUME RefundsHaveRuns, TypeOK, [SaleNext]_refundedSaleVars
  PROVE  RefundsHaveRuns'
<1> USE DEF RefundsHaveRuns
<1>0. refund \in [Workers -> [pc : Steps, key : Workers \union {Nobody}]]
  BY DEF TypeOK
<1>1. CASE UNCHANGED refundVars /\ SaleStep
  BY <1>1, SaleStepLeavesRefunds DEF refundVars
<1>2. CASE UNCHANGED <<refund, run>>
  BY <1>2
<1>3. ASSUME NEW w \in Workers, ReturnPayment(w) PROVE RefundsHaveRuns'
  <2>1. run[w] = "refund" /\ run' = run
    BY <1>3 DEF ReturnPayment, Settle!RunAt, orderVars
  <2>2. \A v \in Workers : v # w => refund'[v] = refund[v]
    BY <1>0, <1>3
    DEF ReturnPayment, RefundByOrderId, AlreadyHandled, ClaimRefund, RefundSteps, ReadProvider,
        ReadbackFails, RecheckOwnership, PostRefund, PostFails, CompleteRefund,
        CompleteRefundFails, PersistUncertainRefund, PersistUncertainRefundFails, Goto
  <2> QED
    BY <2>1, <2>2
<1>4. ASSUME NEW w \in Workers, EndRefund(w) \/ StopRefund(w) PROVE RefundsHaveRuns'
  <2>1. refund'[w].pc = "idle" /\ \A v \in Workers : v # w => refund'[v] = refund[v]
    BY <1>0, <1>4 DEF EndRefund, StopRefund, Return, Crash, Idle, refundVars
  <2>2. \/ Settle!RunTo(w, "refundFailed") \/ Settle!RunTo(w, "complete")
        \/ Settle!RunTo(w, "refunded") \/ Settle!RunTo(w, "idle") \/ Settle!RunTo(w, "localFailed")
    BY <1>4 DEF EndRefund, StopRefund, Settle!RefundAfterDelivery, Settle!RefundCancelledSale,
      Settle!StopRun
  <2> QED
    BY <2>1, <2>2 DEF RunSteps, Settle!RunTo
<1>5. CASE Environment /\ UNCHANGED orderVars
  BY <1>2, <1>5 DEF Environment, StrayRequestLands, LeaseLapses, RefundOnConsole, orderVars
<1>6. CASE OwnCancellationWebhook \/ \E w \in Workers : ReturnFee(w)
  BY <1>2, <1>6 DEF OwnCancellationWebhook, ReturnFee, refundVars
<1>7. CASE UNCHANGED refundedSaleVars
  BY <1>2, <1>7 DEF refundedSaleVars, refundVars, orderVars
<1> QED
  BY <1>1, <1>3, <1>4, <1>5, <1>6, <1>7 DEF SaleNext

(* A payment that was claimed never looks untouched again, and one that was*)
(* returned never looks paid.                                              *)
LEMMA PaymentMoves ==
  ASSUME RefundInv, Environment \/ \E w \in Workers : RefundByOrderId(w) \/ RefundSteps(w)
  PROVE  \/ PaymentSeen' = PaymentSeen
         \/ PaymentSeen # "CANCELLED" /\ PaymentSeen' \in {"CLAIMED", "CANCELLED"}
<1>1. TypeOK
  BY DEF RefundInv
<1>2. ASSUME payment' = payment, claim'.status = claim.status
      PROVE  PaymentSeen' = PaymentSeen
  BY <1>2 DEF PaymentSeen
<1>3. CASE Environment
  <2>1. claim'.status = claim.status /\ payment' = payment
    BY <1>1, <1>3 DEF Environment, StrayRequestLands, LeaseLapses, RefundOnConsole, TypeOK
  <2> QED
    BY <1>2, <2>1
<1>4. ASSUME NEW w \in Workers, ClaimRefund(w)
      PROVE  PaymentSeen # "CANCELLED" /\ PaymentSeen' = "CLAIMED"
  <2>1. payment = "PAID" /\ payment' = "PAID" /\ claim'.status # "NONE"
    BY <1>4 DEF ClaimRefund, Claim
  <2> QED
    BY <2>1 DEF PaymentSeen
<1>5. ASSUME NEW w \in Workers, CompleteRefund(w)
      PROVE  PaymentSeen' = PaymentSeen \/ (PaymentSeen # "CANCELLED" /\ PaymentSeen' = "CANCELLED")
  <2>1. CASE Owns(w)
    <3>1. payment = "PAID" /\ payment' = "CANCELLED"
      BY <1>1, <1>5, <2>1 DEF RefundInv, RecordedRefundsHappened, Owns, CompleteRefund, TypeOK
    <3> QED
      BY <3>1 DEF PaymentSeen
  <2>2. CASE ~Owns(w)
    BY <1>2, <1>5, <2>2 DEF CompleteRefund
  <2> QED
    BY <2>1, <2>2
<1>6. ASSUME NEW w \in Workers, PersistUncertainRefund(w)
      PROVE  PaymentSeen' = PaymentSeen
  <2>1. payment' = payment /\ (claim' = claim \/ (claim.status # "NONE" /\ claim'.status # "NONE"))
    BY <1>6 DEF PersistUncertainRefund, UncertainClaim, Owns, Claim
  <2> QED
    BY <2>1 DEF PaymentSeen
<1>7. ASSUME NEW w \in Workers,
             \/ AlreadyHandled(w) \/ ReadProvider(w) \/ ReadbackFails(w) \/ RecheckOwnership(w)
             \/ PostRefund(w) \/ PostFails(w) \/ CompleteRefundFails(w)
             \/ PersistUncertainRefundFails(w)
      PROVE  PaymentSeen' = PaymentSeen
  BY <1>2, <1>7
  DEF AlreadyHandled, ReadProvider, ReadbackFails, RecheckOwnership, PostRefund, PostFails,
      CompleteRefundFails, PersistUncertainRefundFails
<1> QED
  BY <1>3, <1>4, <1>5, <1>6, <1>7 DEF RefundByOrderId, RefundSteps

LEMMA SaleStepSettles ==
  ASSUME RefundInv, RefundsHaveRuns, [SaleNext]_refundedSaleVars
  PROVE  [Settle!SettlementNext]_(Settle!settlementVars)
<1> USE RefundRunsAreWorkers
<1>1. CASE UNCHANGED refundedSaleVars
  BY <1>1 DEF refundedSaleVars, refundVars, orderVars, PaymentSeen, Settle!settlementVars,
    Settle!saleVars, Settle!bookVars
<1>2. CASE SaleStep
  BY <1>2 DEF SaleStep, Settle!SettlementNext, Settle!PostDeliveryRefund, Settle!CancelSale
<1>3. CASE OwnCancellationWebhook
  <2>1. payment = "CANCELLED" \/ claim.status # "NONE"
    BY <1>3 DEF OwnCancellationWebhook, RefundInv, UnclaimedIsUntouched, TypeOK
  <2>2. PaymentSeen # "PAID" /\ PaymentSeen' = PaymentSeen
    BY <1>3, <2>1 DEF OwnCancellationWebhook, refundVars, PaymentSeen, RefundInv, TypeOK
  <2>3. Settle!OwnCancellationWebhook
    BY <1>3, <2>2 DEF OwnCancellationWebhook, Settle!OwnCancellationWebhook, Settle!saleVars
  <2> QED
    BY <2>3 DEF Settle!SettlementNext
<1>4. CASE Environment /\ UNCHANGED orderVars
  <2>1. claim'.status = claim.status /\ payment' = payment
    BY <1>4 DEF Environment, StrayRequestLands, LeaseLapses, RefundOnConsole, RefundInv, TypeOK
  <2> QED
    BY <1>4, <2>1 DEF orderVars, PaymentSeen, Settle!settlementVars, Settle!saleVars,
      Settle!bookVars
<1>5. ASSUME NEW w \in Workers, ReturnPayment(w)
      PROVE  [Settle!SettlementNext]_(Settle!settlementVars)
  <2>1. /\ run[w] = "refund" /\ UNCHANGED orderVars
        /\ RefundByOrderId(w) \/ RefundSteps(w)
    BY <1>5 DEF ReturnPayment, Settle!RunAt
  <2>2. CASE PaymentSeen' = PaymentSeen
    BY <2>1, <2>2 DEF orderVars, Settle!settlementVars, Settle!saleVars, Settle!bookVars
  <2>3. CASE PaymentSeen # "CANCELLED" /\ PaymentSeen' \in {"CLAIMED", "CANCELLED"}
    <3>1. Settle!RefundUnderWay(w)
      BY <2>1, <2>3 DEF orderVars, Settle!RefundUnderWay, Settle!RunAt, Settle!bookVars
    <3> QED
      BY <3>1 DEF Settle!SettlementNext
  <2> QED
    BY <2>1, <2>2, <2>3, PaymentMoves
<1>6. ASSUME NEW w \in Workers, ReturnFee(w) PROVE Settle!SettlementNext
  <2>1. run[w] = "refund" /\ PaymentSeen' = PaymentSeen
    BY <1>6 DEF ReturnFee, RefundsHaveRuns, refundVars, PaymentSeen
  <2>2. Settle!RefundUnderWay(w)
    BY <1>6, <2>1 DEF ReturnFee, Settle!RefundUnderWay, Settle!RunAt, Settle!bookVars
  <2> QED
    BY <2>2 DEF Settle!SettlementNext
<1>7. ASSUME NEW w \in Workers, EndRefund(w) PROVE Settle!SettlementNext
  BY <1>7 DEF EndRefund, Cancellers, Settle!SettlementNext, Settle!PostDeliveryRefund,
    Settle!CancelSale
<1>8. ASSUME NEW w \in Workers, StopRefund(w) PROVE Settle!SettlementNext
  BY <1>8 DEF StopRefund, Settle!SettlementNext
<1> QED
  BY <1>1, <1>2, <1>3, <1>4, <1>5, <1>6, <1>7, <1>8 DEF SaleNext

(* The order's refunds call the payment's refund the way it expects, so    *)
(* that all that is proved of it holds inside them.                        *)
THEOREM RefundedSaleRefunds == SaleSpec => Spec
<1>1. SaleInit => Init
  BY DEF SaleInit
<1>2. [SaleNext]_refundedSaleVars => [Next]_refundVars
  BY SaleStepRefunds
<1> QED
  BY <1>1, <1>2, PTL DEF SaleSpec, Spec

(* Claims, takeovers, lost answers and crashes of the payment's refund keep*)
(* what Settlement supposes of it: with the real refund inside, the order  *)
(* and its settlement behave as Settlement says, for any set of workers    *)
(* (PostDeliveryRefundService.refund, RoundOrderLifecycleService.cancel).  *)
THEOREM RefundedSaleSettles == SaleSpec => KeepsSettlement
<1>1. SaleInit => Settle!SettlementInit /\ RefundsHaveRuns
  <2>1. SaleInit => Settle!SettlementInit
    BY DEF SaleInit
  <2>2. ASSUME SaleInit PROVE RefundsHaveRuns
    <3>1. run = [w \in Workers |-> "idle"]
      BY <2>2, RefundRunsAreWorkers DEF SaleInit, Settle!SettlementInit
    <3>2. \A w \in Workers : refund[w].pc = "idle"
      BY <2>2 DEF SaleInit, Init, Idle
    <3> QED
      BY <3>1, <3>2 DEF RefundsHaveRuns, RunSteps
  <2> QED
    BY <2>1, <2>2
<1>2. TypeOK /\ RefundsHaveRuns /\ [SaleNext]_refundedSaleVars => RefundsHaveRuns'
  BY SaleKeepsRuns
<1>3. RefundInv /\ RefundsHaveRuns /\ [SaleNext]_refundedSaleVars
        => [Settle!SettlementNext]_(Settle!settlementVars)
  BY SaleStepSettles
<1>4. RefundInv => TypeOK
  BY DEF RefundInv
<1> QED
  BY <1>1, <1>2, <1>3, <1>4, RefundedSaleRefunds, RefundInvariant, PTL
  DEF SaleSpec, KeepsSettlement, Settle!SettlementSpec

(* The provider's webhook about the shop's own refund raises no alarm,     *)
(* however early it arrives: a claim is in the books before the provider   *)
(* is asked (PaymentsService.reconcileProviderReversal).                   *)
THEOREM OwnRefundsAreExpected == SaleSpec => []Settle!OwnRefundsRaiseNoAlarm
<1>1. SaleInit => Settle!OwnRefundsRaiseNoAlarm
  BY DEF SaleInit, Settle!SettlementInit, Settle!OwnRefundsRaiseNoAlarm
<1>2. ASSUME RefundInv, Settle!OwnRefundsRaiseNoAlarm, [SaleNext]_refundedSaleVars
      PROVE  (Settle!OwnRefundsRaiseNoAlarm)'
  <2> SUFFICES reversal' \in {reversal, "provider", "none"}
    BY <1>2 DEF Settle!OwnRefundsRaiseNoAlarm
  <2>1. CASE OwnCancellationWebhook
    <3>1. PaymentSeen # "PAID"
      BY <1>2, <2>1
      DEF OwnCancellationWebhook, RefundInv, UnclaimedIsUntouched, TypeOK, PaymentSeen
    <3> QED
      BY <2>1, <3>1 DEF OwnCancellationWebhook, Settle!OwnedLocally
  <2>2. ASSUME \/ Settle!Deliver \/ Settle!Review \/ Settle!ReconcileDelivery
               \/ Settle!CreateSettlement \/ Settle!ListDueSettlements \/ Settle!ConfirmListed
               \/ Settle!MarkAsPaid
        PROVE  reversal' = reversal
    BY <2>2
    DEF Settle!Deliver, Settle!Review, Settle!ReconcileDelivery, Settle!CreateSettlement,
        Settle!ListDueSettlements, Settle!ConfirmListed, Settle!MarkAsPaid
  <2>3. CASE Settle!ReversalWebhook \/ Settle!ResolveReversal
    BY <2>3 DEF Settle!ReversalWebhook, Settle!ResolveReversal, Settle!ReversalIssue
  <2>4. ASSUME NEW w,
               \/ \E actor \in {"seller", "admin"} : Settle!StartRefund(w, actor)
               \/ Settle!ResumeRefund(w) \/ Settle!CompleteLocally(w)
               \/ Settle!RecordFailedRefund(w) \/ Settle!ClaimSaleCancellation(w)
               \/ Settle!JoinCancellation(w) \/ Settle!RecordSaleCancellation(w)
               \/ Settle!ApplySaleCancellation(w) \/ Settle!CancelSaleSettlement(w)
               \/ EndRefund(w) \/ StopRefund(w) \/ ReturnPayment(w) \/ ReturnFee(w)
        PROVE  reversal' = reversal
    BY <2>4
    DEF Settle!StartRefund, Settle!ResumeRefund, Settle!CompleteLocally,
        Settle!RecordFailedRefund, Settle!ClaimSaleCancellation, Settle!JoinCancellation,
        Settle!RecordSaleCancellation, Settle!ApplySaleCancellation, Settle!CancelSaleSettlement,
        Settle!RefundAfterDelivery, Settle!RefundCancelledSale, Settle!StopRun, Settle!bookVars,
        EndRefund, StopRefund, ReturnPayment, ReturnFee, orderVars
  <2>5. CASE UNCHANGED orderVars \/ UNCHANGED refundedSaleVars
    BY <2>5 DEF orderVars, refundedSaleVars
  <2> QED
    BY <1>2, <2>1, <2>2, <2>3, <2>4, <2>5 DEF SaleNext, SaleStep
<1> QED
  BY <1>1, <1>2, RefundedSaleRefunds, RefundInvariant, PTL DEF SaleSpec

(***************************************************************************)
(* The daily job.                                                          *)
(***************************************************************************)

(* A run that is within its lease holds the job. *)
TimelyRunsHold ==
  \A i \in Instances :
    runs[i].does # "nothing" /\ runs[i].late = "no" => lease.holder = i /\ lease.expiry = "ahead"

(* Who holds the job works on a day that is not completed yet. *)
HoldersAreAhead ==
  /\ completed <= today
  /\ \A i \in Instances :
       runs[i].does # "nothing" /\ lease.holder = i => runs[i].day > completed

(* What is completed or about to be was worked on or, by the digest, *)
(* alerted of.                                                       *)
CompletedDaysAreAccounted == completed # 0 => completed \in Accounted
ReportsAreTrue ==
  /\ CompletedDaysAreAccounted
  /\ \A i \in Instances :
       /\ runs[i].does = "report" => runs[i].day \in worked
       /\ runs[i].does = "give up" /\ job = "digest" => runs[i].day \in alerted

JobInv == JobTypeOK /\ TimelyRunsHold /\ HoldersAreAhead /\ ReportsAreTrue


LEMMA JobInitially == JobInit => JobInv
<1> SUFFICES ASSUME JobInit PROVE JobInv
  OBVIOUS
<1>1. NoRun.does = "nothing" /\ NoRun \in [does : {"nothing", "work", "report", "give up"},
                                           day : {0} \union Days, late : {"no", "yes"}]
  BY DEF NoRun
<1>2. \A i \in Instances : runs[i] = NoRun
  BY DEF JobInit
<1>3. JobTypeOK
  <2>1. /\ today \in Days /\ completed \in {0} \union Days
        /\ worked \subseteq Days /\ alerted \subseteq Days
    BY JobAssumption DEF JobInit, Days
  <2>2. /\ lease \in [holder : Instances \union {"nobody"}, expiry : {"ahead", "passed"}]
        /\ lease.expiry = "passed"
    BY DEF JobInit, NoLease
  <2> QED
    BY <1>1, <1>2, <2>1, <2>2 DEF JobInit, JobTypeOK
<1>4. \A i \in Instances : runs[i].does = "nothing"
  BY <1>1, <1>2
<1>5. TimelyRunsHold /\ HoldersAreAhead
  BY <1>4 DEF JobInit, TimelyRunsHold, HoldersAreAhead
<1>6. ReportsAreTrue
  BY <1>4 DEF JobInit, ReportsAreTrue, CompletedDaysAreAccounted
<1> QED
  BY <1>3, <1>5, <1>6 DEF JobInv

RunRecords == [does : {"nothing", "work", "report", "give up"}, day : {0} \union Days,
               late : {"no", "yes"}]

(* What an action does to the runs, run by run. *)
LEMMA RunChanges ==
  ASSUME JobTypeOK, NEW i \in Instances, NEW r \in RunRecords, runs' = [runs EXCEPT ![i] = r]
  PROVE  /\ runs' \in [Instances -> RunRecords] /\ runs'[i] = r
         /\ \A j \in Instances : j # i => runs'[j] = runs[j]
BY DEF JobTypeOK, RunRecords

(* Days are numbers. *)
LEMMA JobNumbers ==
  ASSUME JobTypeOK
  PROVE  /\ completed \in Nat /\ today \in 1..LastDay /\ LastDay \in Nat \ {0}
         /\ Days = 1..LastDay /\ today \in 1..today /\ 1..today \subseteq Days
         /\ \A i \in Instances : runs[i] \in RunRecords /\ runs[i].day \in Nat
         /\ \A i \in Instances : runs[i].does # "nothing" => runs[i].day \in 1..today
<1>1. /\ today \in Days /\ completed \in {0} \union Days
      /\ \A i \in Instances : runs[i] \in RunRecords
  BY DEF JobTypeOK, RunRecords
<1>2. \A i \in Instances : runs[i].day \in {0} \union Days
  BY <1>1 DEF RunRecords
<1>3. LastDay \in Nat \ {0} /\ Days = 1..LastDay
  BY JobAssumption DEF Days
<1>4. Days \subseteq Nat
  BY <1>3
<1>5. today \in 1..today
  BY <1>1, <1>3
<1>7. 1..today \subseteq 1..LastDay
  BY <1>1, <1>3
<1>6. \A i \in Instances : runs[i].does # "nothing" => runs[i].day \in 1..today
  BY DEF JobTypeOK
<1> QED
  BY <1>1, <1>2, <1>3, <1>4, <1>5, <1>6, <1>7

LEMMA JobStep == JobInv /\ [JobNext]_jobVars => JobInv'
<1> SUFFICES ASSUME JobInv, [JobNext]_jobVars PROVE JobInv'
  OBVIOUS
<1>0. /\ JobTypeOK /\ runs \in [Instances -> RunRecords] /\ today \in 1..LastDay
      /\ LastDay \in Nat \ {0} /\ completed \in Nat /\ \A j \in Instances : runs[j].day \in Nat
      /\ Days = 1..LastDay /\ today \in 1..today /\ 1..today \subseteq Days
      /\ \A j \in Instances : runs[j].does # "nothing" => runs[j].day \in 1..today
  <2>1. JobTypeOK
    BY DEF JobInv
  <2>2. runs \in [Instances -> RunRecords]
    BY <2>1 DEF JobTypeOK, RunRecords
  <2> QED
    BY <2>1, <2>2, JobNumbers
<1>1. ASSUME NEW i \in Instances, AcquireJobLease(i) PROVE JobInv'
  <2> DEFINE r == [does |-> "work", day |-> today, late |-> "no"]
  <2>1. r \in RunRecords /\ runs' = [runs EXCEPT ![i] = r]
    BY <1>0, <1>1 DEF AcquireJobLease, RunRecords, Days
  <2>2. /\ runs' \in [Instances -> RunRecords] /\ runs'[i] = r
        /\ \A j \in Instances : j # i => runs'[j] = runs[j]
    BY <1>0, <2>1, RunChanges
  <2>3. r.does = "work" /\ r.day = today /\ r.late = "no"
    OBVIOUS
  <2>4. /\ ~Held /\ completed # today /\ UNCHANGED <<job, today, completed, worked, alerted>>
        /\ lease' = [holder |-> i, expiry |-> "ahead"]
    BY <1>1 DEF AcquireJobLease, AlreadyDone
  <2> HIDE DEF r
  <2>5. JobTypeOK'
    <3>1. lease' \in [holder : Instances \union {"nobody"}, expiry : {"ahead", "passed"}]
      BY <2>4
    <3>2. lease'.holder # "nobody"
      BY <2>4, JobAssumption
    <3>3. \A j \in Instances : runs'[j].does # "nothing" => runs'[j].day \in 1..today'
      BY <1>0, <2>2, <2>3, <2>4
    <3> QED
      BY <1>0, <2>2, <2>4, <3>1, <3>2, <3>3 DEF JobTypeOK, RunRecords
  <2>6. TimelyRunsHold'
    BY <1>0, <2>2, <2>3, <2>4, JobAssumption DEF JobInv, TimelyRunsHold, JobTypeOK, Held
  <2>7. HoldersAreAhead'
    <3>1. completed' <= today' /\ today > completed'
      BY <1>0, <2>4 DEF JobInv, HoldersAreAhead
    <3>2. lease'.holder = i
      BY <2>4
    <3> QED
      BY <2>2, <2>3, <3>1, <3>2 DEF HoldersAreAhead
  <2>8. ReportsAreTrue'
    BY <2>2, <2>3, <2>4 DEF JobInv, ReportsAreTrue, CompletedDaysAreAccounted, Accounted
  <2> QED
    BY <2>5, <2>6, <2>7, <2>8 DEF JobInv
<1>2. ASSUME NEW i \in Instances, DoWork(i) \/ FailWork(i) PROVE JobInv'
  <2>1. PICK step \in {"report", "give up"} :
          runs' = [runs EXCEPT ![i] = [does |-> step, day |-> runs[i].day, late |-> runs[i].late]]
    BY <1>0, <1>2 DEF DoWork, FailWork, RunRecords
  <2> DEFINE r == [does |-> step, day |-> runs[i].day, late |-> runs[i].late]
  <2>2. r \in RunRecords
    BY <1>0 DEF RunRecords
  <2>3. /\ runs' \in [Instances -> RunRecords] /\ runs'[i] = r
        /\ \A j \in Instances : j # i => runs'[j] = runs[j]
    BY <1>0, <2>1, <2>2, RunChanges
  <2>4. r.does = step /\ r.day = runs[i].day /\ r.late = runs[i].late
    OBVIOUS
  <2>5. /\ UNCHANGED <<job, today, lease, completed>> /\ runs[i].does = "work"
        /\ worked \subseteq worked' /\ worked' \subseteq worked \union {runs[i].day}
        /\ alerted \subseteq alerted' /\ alerted' \subseteq alerted \union {runs[i].day}
        /\ step = "report" => runs[i].day \in worked'
        /\ step = "give up" /\ job = "digest" => runs[i].day \in alerted'
    <3>1. CASE DoWork(i)
      <4>1. r.does = "report"
        BY <1>0, <2>3, <3>1 DEF DoWork, RunRecords
      <4> QED
        BY <3>1, <4>1 DEF DoWork
    <3>2. CASE FailWork(i)
      <4>1. r.does = "give up"
        BY <1>0, <2>3, <3>2 DEF FailWork, RunRecords
      <4> QED
        BY <3>2, <4>1 DEF FailWork, FailureAlert
    <3> QED
      BY <1>2, <3>1, <3>2
  <2> HIDE DEF r
  <2>6. runs[i].day \in Days
    BY <1>0, <2>5
  <2>7. JobTypeOK'
    BY <1>0, <2>3, <2>4, <2>5, <2>6 DEF JobTypeOK, RunRecords
  <2>8. TimelyRunsHold' /\ HoldersAreAhead'
    BY <1>0, <2>3, <2>4, <2>5 DEF JobInv, TimelyRunsHold, HoldersAreAhead
  <2>9. ReportsAreTrue'
    BY <2>3, <2>4, <2>5 DEF JobInv, ReportsAreTrue, CompletedDaysAreAccounted, Accounted
  <2> QED
    BY <2>7, <2>8, <2>9 DEF JobInv
<1>3. ASSUME NEW i \in Instances, CompleteJobLease(i) \/ AbandonRun(i) PROVE JobInv'
  <2>1. NoRun \in RunRecords /\ NoRun.does = "nothing"
    BY DEF NoRun, RunRecords
  <2>2. /\ runs' = [runs EXCEPT ![i] = NoRun] /\ runs[i].does # "nothing"
        /\ UNCHANGED <<job, today, worked, alerted>>
    BY <1>3 DEF CompleteJobLease, AbandonRun
  <2>3. /\ runs' \in [Instances -> RunRecords] /\ runs'[i] = NoRun
        /\ \A j \in Instances : j # i => runs'[j] = runs[j]
    BY <1>0, <2>1, <2>2, RunChanges
  <2>4. \/ UNCHANGED <<lease, completed>>
        \/ /\ lease.holder = i /\ lease' = NoLease
           /\ \/ completed' = completed
              \/ /\ runs[i].does = "report" \/ (runs[i].does = "give up" /\ job = "digest")
                 /\ completed' = runs[i].day
    <3>1. CASE CompleteJobLease(i) /\ lease.holder = i
      BY <3>1 DEF CompleteJobLease, StillHolds, Released, CompletedBy, Succeeded
    <3>2. CASE CompleteJobLease(i) /\ lease.holder # i
      BY <3>2 DEF CompleteJobLease, StillHolds
    <3>3. CASE AbandonRun(i)
      BY <3>3 DEF AbandonRun
    <3> QED
      BY <1>3, <3>1, <3>2, <3>3
  <2>5. NoLease.holder = "nobody" /\ NoLease.expiry = "passed"
    BY DEF NoLease
  <2>6. runs[i].day \in 1..today
    BY <1>0, <2>2 DEF JobTypeOK
  <2>7. JobTypeOK'
    BY <1>0, <2>1, <2>2, <2>3, <2>4, <2>5, <2>6 DEF JobTypeOK, Days, NoLease, RunRecords
  <2>8. TimelyRunsHold'
    BY <1>0, <2>1, <2>3, <2>4 DEF JobInv, TimelyRunsHold
  <2>9. HoldersAreAhead'
    <3>1. completed' \in Nat /\ completed' <= today'
      <4>1. completed' = completed \/ completed' = runs[i].day
        BY <2>4
      <4>2. completed <= today /\ today' = today
        BY <2>2 DEF JobInv, HoldersAreAhead
      <4> QED
        BY <1>0, <2>6, <4>1, <4>2
    <3>2. ASSUME NEW j \in Instances, runs'[j].does # "nothing", lease'.holder = j
          PROVE  runs'[j].day > completed'
      BY <2>1, <2>3, <2>4, <2>5, <3>2, JobAssumption DEF JobInv, HoldersAreAhead
    <3> QED
      BY <3>1, <3>2 DEF HoldersAreAhead
  <2>10. ReportsAreTrue'
    BY <2>1, <2>2, <2>3, <2>4 DEF JobInv, ReportsAreTrue, CompletedDaysAreAccounted, Accounted
  <2> QED
    BY <2>7, <2>8, <2>9, <2>10 DEF JobInv
<1>4. CASE LeaseExpires
  <2>1. /\ lease' = [holder |-> lease.holder, expiry |-> "passed"] /\ lease.expiry = "ahead"
        /\ UNCHANGED <<job, today, completed, worked, alerted>>
    BY <1>0, <1>4 DEF LeaseExpires, JobTypeOK
  <2>2. lease'.holder = lease.holder /\ lease'.expiry = "passed"
    BY <2>1
  <2>3. \A j \in Instances :
          /\ runs'[j].does = runs[j].does /\ runs'[j].day = runs[j].day
          /\ runs'[j].late = IF j = lease.holder /\ runs[j].does # "nothing" THEN "yes" ELSE runs[j].late
          /\ runs'[j] \in RunRecords
    BY <1>0, <1>4 DEF LeaseExpires, RunRecords
  <2>4. runs' \in [Instances -> RunRecords]
    BY <1>4, <2>3 DEF LeaseExpires
  <2>5. JobTypeOK'
    BY <1>0, <2>1, <2>3, <2>4 DEF JobTypeOK, RunRecords
  <2>6. TimelyRunsHold'
    BY <2>2, <2>3 DEF JobInv, TimelyRunsHold
  <2>7. HoldersAreAhead' /\ ReportsAreTrue'
    BY <2>1, <2>2, <2>3 DEF JobInv, HoldersAreAhead, ReportsAreTrue, CompletedDaysAreAccounted,
      Accounted
  <2> QED
    BY <2>5, <2>6, <2>7 DEF JobInv
<1>5. CASE NextDay
  <2>1. /\ today' = today + 1 /\ today' \in Days
        /\ UNCHANGED <<job, lease, completed, runs, worked, alerted>>
    BY <1>0, <1>5 DEF NextDay, Days
  <2>2. 1..today \subseteq 1..today'
    BY <1>0, <2>1
  <2>3. JobTypeOK'
    BY <1>0, <2>1, <2>2 DEF JobTypeOK
  <2>4. completed' <= today'
    BY <1>0, <2>1 DEF JobInv, HoldersAreAhead
  <2>5. TimelyRunsHold' /\ HoldersAreAhead' /\ ReportsAreTrue'
    BY <2>1, <2>4
    DEF JobInv, TimelyRunsHold, HoldersAreAhead, ReportsAreTrue, CompletedDaysAreAccounted,
      Accounted
  <2> QED
    BY <2>3, <2>5 DEF JobInv
<1>6. CASE UNCHANGED jobVars
  BY <1>6
  DEF jobVars, JobInv, JobTypeOK, TimelyRunsHold, HoldersAreAhead, ReportsAreTrue,
      CompletedDaysAreAccounted,
      Accounted
<1> QED
  BY <1>1, <1>2, <1>3, <1>4, <1>5, <1>6 DEF JobNext

(* The job's document and its runs keep their types. *)
THEOREM JobTypes == JobSpec => []JobTypeOK
<1>1. JobInv => JobTypeOK
  BY DEF JobInv
<1> QED
  BY JobInitially, JobStep, <1>1, PTL DEF JobSpec

(* Runs within their lease are alone (acquireJobLease). *)
THEOREM OneTimelyRun == JobSpec => []TimelyRunsAreAlone
<1>1. JobInv => TimelyRunsAreAlone
  BY DEF JobInv, TimelyRunsHold, TimelyRunsAreAlone, TimelyRuns
<1> QED
  BY JobInitially, JobStep, <1>1, PTL DEF JobSpec

(* A completed day was worked on or, by the digest alone, alerted of; it is*)
(* not forgotten and not worked on again (completeJobLease as the jobs and *)
(* sendDailyDigest call it).                                               *)
THEOREM CompletedDaysAreFinal == JobSpec => CompletedDaysStayDone
<1> DEFINE Kept1 ==
      /\ completed' >= completed /\ completed' \in {0} \union Accounted'
      /\ \A i \in Instances :
           runs[i].does = "nothing" /\ runs'[i].does = "work" => runs'[i].day > completed
<1>1. JobInv /\ [JobNext]_jobVars => [Kept1]_jobVars
  <2>9. JobInv /\ [JobNext]_jobVars => completed' \in {0} \union Accounted'
    BY JobStep DEF JobInv, ReportsAreTrue, CompletedDaysAreAccounted, Accounted
  <2> DEFINE Kept2 ==
        /\ completed' >= completed
        /\ \A i \in Instances :
             runs[i].does = "nothing" /\ runs'[i].does = "work" => runs'[i].day > completed
  <2> SUFFICES ASSUME JobInv, JobNext PROVE Kept2
    BY <2>9
  <2>0. /\ JobTypeOK /\ runs \in [Instances -> RunRecords] /\ completed \in Nat /\ today \in Nat
        /\ \A j \in Instances : runs[j].day \in Nat
    <3>1. JobTypeOK
      BY DEF JobInv
    <3>2. runs \in [Instances -> RunRecords]
      BY <3>1 DEF JobTypeOK, RunRecords
    <3> QED
      BY <3>1, <3>2, JobNumbers
  <2>1. ASSUME NEW i \in Instances, AcquireJobLease(i) PROVE Kept2
    <3>1. completed # today /\ completed <= today /\ completed' = completed
      BY <2>1 DEF AcquireJobLease, AlreadyDone, JobInv, HoldersAreAhead
    <3>2. /\ runs'[i].day = today
          /\ \A j \in Instances : j # i => runs'[j] = runs[j]
      BY <2>0, <2>1 DEF AcquireJobLease
    <3> QED
      BY <2>0, <3>1, <3>2
  <2>2. ASSUME NEW i \in Instances, DoWork(i) \/ FailWork(i) PROVE Kept2
    <3>1. completed' = completed /\ runs[i].does = "work"
      BY <2>2 DEF DoWork, FailWork
    <3>2. \A j \in Instances : j # i => runs'[j] = runs[j]
      BY <2>0, <2>2 DEF DoWork, FailWork
    <3> QED
      BY <2>0, <3>1, <3>2
  <2>3. ASSUME NEW i \in Instances, CompleteJobLease(i) PROVE Kept2
    <3>1. \A j \in Instances : runs'[j] = IF j = i THEN NoRun ELSE runs[j]
      BY <2>0, <2>3 DEF CompleteJobLease
    <3>2. NoRun.does = "nothing"
      BY DEF NoRun
    <3>3. completed' >= completed
      <4>1. CASE lease.holder = i /\ Succeeded(i)
        <5>1. completed' = runs[i].day /\ runs[i].day > completed
          BY <2>3, <4>1 DEF CompleteJobLease, StillHolds, CompletedBy, JobInv, HoldersAreAhead
        <5> QED
          BY <2>0, <5>1
      <4>2. CASE ~(lease.holder = i /\ Succeeded(i))
        <5>1. completed' = completed
          BY <2>3, <4>2 DEF CompleteJobLease, StillHolds, CompletedBy
        <5> QED
          BY <2>0, <5>1
      <4> QED
        BY <4>1, <4>2
    <3> QED
      BY <3>1, <3>2, <3>3
  <2>4. ASSUME NEW i \in Instances, AbandonRun(i) PROVE Kept2
    <3>1. completed' = completed /\ \A j \in Instances : runs'[j] = IF j = i THEN NoRun ELSE runs[j]
      BY <2>0, <2>4 DEF AbandonRun
    <3> QED
      BY <2>0, <3>1 DEF NoRun
  <2>5. CASE LeaseExpires \/ NextDay
    <3>1. completed' = completed /\ \A j \in Instances : runs'[j].does = runs[j].does
      <4>1. CASE LeaseExpires
        BY <2>0, <4>1 DEF LeaseExpires, RunRecords
      <4>2. CASE NextDay
        BY <4>2 DEF NextDay
      <4> QED
        BY <2>5, <4>1, <4>2
    <3> QED
      BY <2>0, <3>1
  <2> QED
    BY <2>1, <2>2, <2>3, <2>4, <2>5 DEF JobNext
<1> QED
  BY JobInitially, JobStep, <1>1, PTL DEF JobSpec, CompletedDaysStayDone

(***************************************************************************)
(* The notification.                                                       *)
(***************************************************************************)

Outcomes == {"ACCEPTED", "UNKNOWN", "REJECTED"}
SenderRecords == [pc : {"away", "send", "record", "finish"}, outcome : {"none"} \union Outcomes]

Sending(s) == sender[s].pc \in {"send", "record"}
Knows(s) == sender[s].pc \in {"record", "finish"}

(* A sender's own delivery shows no outcome it has not seen. *)
OwnersSeeTheirOutcome ==
  \A s \in Senders :
    /\ Knows(s) => sender[s].outcome \in Outcomes
    /\ OwnsDelivery(s) /\ Sending(s) => delivery.outcome = "none"
    /\ OwnsDelivery(s) /\ sender[s].pc = "finish" => delivery.outcome \in {"none", sender[s].outcome}

(* What anybody takes for accepted was accepted. *)
AcceptedIsTrue ==
  /\ delivery.outcome = "ACCEPTED" => messages > 0
  /\ \A s \in Senders : Knows(s) /\ sender[s].outcome = "ACCEPTED" => messages > 0

(* As long as no silent sender lost its lease, who is sending owns the     *)
(* delivery, and a message that was accepted keeps others from sending.    *)
OwnersSendOnce ==
  blind = "no" =>
    /\ \A s \in Senders :
         /\ Sending(s) => OwnsDelivery(s) /\ delivery.lease = "live" /\ delivery.outcome = "none"
         /\ sender[s].pc = "send" => messages = 0
         /\ Knows(s) /\ OwnsDelivery(s) /\ sender[s].outcome = "REJECTED" => messages = 0
    /\ messages <= 1
    /\ messages > 0 => Answered \/ LiveLease
    /\ delivery.outcome = "REJECTED" => messages = 0

NotificationInv ==
  NotificationTypeOK /\ OwnersSeeTheirOutcome /\ AcceptedIsTrue /\ OwnersSendOnce

LEMMA FinalStatuses ==
  /\ FinalStatus("ACCEPTED") = "SENT" /\ FinalStatus("UNKNOWN") = "NEEDS_VERIFY"
  /\ FinalStatus("REJECTED") = "FAILED"
BY DEF FinalStatus

LEMMA NotificationInitially == NotificationInit => NotificationInv
<1> SUFFICES ASSUME NotificationInit PROVE NotificationInv
  OBVIOUS
<1>1. \A s \in Senders : sender[s].pc = "away"
  BY DEF NotificationInit, Away
<1>2. /\ delivery = NoDelivery /\ messages = 0 /\ blind = "no"
      /\ delivery.status = "none" /\ delivery.outcome = "none"
  BY DEF NotificationInit, NoDelivery
<1>3. NotificationTypeOK
  <2>1. sender \in [Senders -> SenderRecords]
    BY DEF NotificationInit, Away, SenderRecords
  <2>2. messages \in 0..MaxMessages
    BY <1>2, NotificationAssumption
  <2> QED
    BY <1>2, <2>1, <2>2, FinalStatuses
    DEF NotificationTypeOK, NoDelivery, SenderRecords, Outcomes
<1> QED
  BY <1>1, <1>2, <1>3
  DEF NotificationInv, OwnersSeeTheirOutcome, AcceptedIsTrue, OwnersSendOnce, Sending, Knows

(* What an action does to the senders, one by one. *)
LEMMA SenderChanges ==
  ASSUME NotificationTypeOK, NEW s \in Senders, NEW r \in SenderRecords,
         sender' = [sender EXCEPT ![s] = r]
  PROVE  /\ sender' \in [Senders -> SenderRecords] /\ sender'[s] = r
         /\ \A t \in Senders : t # s => sender'[t] = sender[t]
BY DEF NotificationTypeOK, SenderRecords, Outcomes

LEMMA SenderMoves ==
  ASSUME NotificationTypeOK, NEW s \in Senders, NEW pc \in {"away", "send", "record", "finish"},
         sender' = [sender EXCEPT ![s].pc = pc]
  PROVE  \E r \in SenderRecords :
           /\ r.pc = pc /\ r.outcome = sender[s].outcome
           /\ sender' \in [Senders -> SenderRecords] /\ sender'[s] = r
           /\ \A t \in Senders : t # s => sender'[t] = sender[t]
<1> DEFINE r == [sender[s] EXCEPT !.pc = pc]
<1>1. sender \in [Senders -> SenderRecords]
  BY DEF NotificationTypeOK, SenderRecords, Outcomes
<1>2. sender[s] \in SenderRecords
  BY <1>1
<1>3. r \in SenderRecords /\ r.pc = pc /\ r.outcome = sender[s].outcome
  BY <1>2 DEF SenderRecords
<1>4. sender' = [sender EXCEPT ![s] = r]
  OBVIOUS
<1> HIDE DEF r
<1>5. /\ sender' \in [Senders -> SenderRecords] /\ sender'[s] = r
      /\ \A t \in Senders : t # s => sender'[t] = sender[t]
  BY <1>1, <1>3, <1>4
<1> QED
  BY <1>3, <1>5

(* The parts of the type invariant. *)
LEMMA NotificationParts ==
  ASSUME NotificationTypeOK
  PROVE  /\ messages \in Nat /\ MaxMessages \in Nat /\ messages <= MaxMessages
         /\ blind \in {"no", "yes"}
         /\ sender \in [Senders -> SenderRecords]
         /\ delivery.status \in {"none", "PROCESSING", "SENT", "NEEDS_VERIFY", "FAILED"}
         /\ delivery.leaseId \in Senders \union {"nobody"}
         /\ delivery.lease \in {"live", "lapsed"}
         /\ delivery.outcome \in {"none"} \union Outcomes
         /\ delivery = [status |-> delivery.status, leaseId |-> delivery.leaseId,
                        lease |-> delivery.lease, outcome |-> delivery.outcome]
         /\ delivery.status = "SENT" => delivery.outcome = "ACCEPTED"
         /\ delivery.status = "NEEDS_VERIFY" => delivery.outcome = "UNKNOWN"
         /\ delivery.status = "FAILED" => delivery.outcome = "REJECTED"
<1>1. messages \in Nat /\ MaxMessages \in Nat /\ messages <= MaxMessages
  BY NotificationAssumption DEF NotificationTypeOK
<1>2. sender \in [Senders -> SenderRecords]
  BY DEF NotificationTypeOK, SenderRecords, Outcomes
<1>3. delivery \in [status : {"none", "PROCESSING", "SENT", "NEEDS_VERIFY", "FAILED"},
                    leaseId : Senders \union {"nobody"}, lease : {"live", "lapsed"},
                    outcome : {"none"} \union Outcomes]
  BY DEF NotificationTypeOK, Outcomes
<1>4. /\ delivery.status = "SENT" => delivery.outcome = "ACCEPTED"
      /\ delivery.status = "NEEDS_VERIFY" => delivery.outcome = "UNKNOWN"
      /\ delivery.status = "FAILED" => delivery.outcome = "REJECTED"
  BY FinalStatuses DEF NotificationTypeOK
<1>5. blind \in {"no", "yes"}
  BY DEF NotificationTypeOK
<1> QED
  BY <1>1, <1>2, <1>3, <1>4, <1>5

(* They make it up again, in the next state. *)
LEMMA TypedDelivery ==
  ASSUME messages' \in 0..MaxMessages, blind' \in {"no", "yes"},
         sender' \in [Senders -> SenderRecords],
         NEW d \in [status : {"none", "PROCESSING", "SENT", "NEEDS_VERIFY", "FAILED"},
                    leaseId : Senders \union {"nobody"}, lease : {"live", "lapsed"},
                    outcome : {"none"} \union Outcomes],
         delivery' = d,
         d.status = "SENT" => d.outcome = "ACCEPTED",
         d.status = "NEEDS_VERIFY" => d.outcome = "UNKNOWN",
         d.status = "FAILED" => d.outcome = "REJECTED"
  PROVE  NotificationTypeOK'
<1>1. /\ messages' \in 0..MaxMessages /\ blind' \in {"no", "yes"}
      /\ delivery' \in [status : {"none", "PROCESSING", "SENT", "NEEDS_VERIFY", "FAILED"},
                   leaseId : Senders \union {"nobody"}, lease : {"live", "lapsed"},
                   outcome : {"none", "ACCEPTED", "UNKNOWN", "REJECTED"}]
  BY DEF Outcomes
<1>2. sender' \in [Senders -> [pc : {"away", "send", "record", "finish"},
                               outcome : {"none", "ACCEPTED", "UNKNOWN", "REJECTED"}]]
  BY DEF SenderRecords, Outcomes
<1>3. \A outcome \in {"ACCEPTED", "UNKNOWN", "REJECTED"} :
        delivery'.status = FinalStatus(outcome) => delivery'.outcome = outcome
  BY FinalStatuses
<1> QED
  BY <1>1, <1>2, <1>3 DEF NotificationTypeOK

LEMMA NotificationStep == NotificationInv /\ [NotificationNext]_notificationVars => NotificationInv'
<1> SUFFICES ASSUME NotificationInv, [NotificationNext]_notificationVars PROVE NotificationInv'
  OBVIOUS
<1>0. /\ NotificationTypeOK
      /\ messages \in Nat /\ MaxMessages \in Nat /\ messages <= MaxMessages
      /\ blind \in {"no", "yes"} /\ sender \in [Senders -> SenderRecords]
      /\ delivery.status \in {"none", "PROCESSING", "SENT", "NEEDS_VERIFY", "FAILED"}
      /\ delivery.leaseId \in Senders \union {"nobody"}
      /\ delivery.lease \in {"live", "lapsed"}
      /\ delivery.outcome \in {"none"} \union Outcomes
      /\ delivery = [status |-> delivery.status, leaseId |-> delivery.leaseId,
                     lease |-> delivery.lease, outcome |-> delivery.outcome]
      /\ delivery.status = "SENT" => delivery.outcome = "ACCEPTED"
      /\ delivery.status = "NEEDS_VERIFY" => delivery.outcome = "UNKNOWN"
      /\ delivery.status = "FAILED" => delivery.outcome = "REJECTED"
  <2>1. NotificationTypeOK
    BY DEF NotificationInv
  <2> QED
    BY <2>1, NotificationParts
<1>1. ASSUME NEW s \in Senders, ClaimNotificationDelivery(s) PROVE NotificationInv'
  <2>1. PICK r \in SenderRecords :
          /\ r.pc = "send" /\ r.outcome = sender[s].outcome
          /\ sender' \in [Senders -> SenderRecords] /\ sender'[s] = r
          /\ \A t \in Senders : t # s => sender'[t] = sender[t]
    BY <1>0, <1>1, SenderMoves DEF ClaimNotificationDelivery
  <2>2. /\ sender' \in [Senders -> SenderRecords] /\ sender'[s] = r
        /\ \A t \in Senders : t # s => sender'[t] = sender[t]
    BY <2>1
  <2>3. ~Answered /\ ~LiveLease /\ delivery' = Processing(s) /\ UNCHANGED <<messages, blind>>
    BY <1>1 DEF ClaimNotificationDelivery
  <2>4. /\ Processing(s).status = "PROCESSING" /\ Processing(s).leaseId = s
        /\ Processing(s).lease = "live" /\ Processing(s).outcome = "none"
        /\ Processing(s) \in [status : {"none", "PROCESSING", "SENT", "NEEDS_VERIFY", "FAILED"},
                    leaseId : Senders \union {"nobody"}, lease : {"live", "lapsed"},
                    outcome : {"none"} \union Outcomes]
    BY DEF Processing
  <2>5. NotificationTypeOK'
    BY <1>0, <2>2, <2>3, <2>4, TypedDelivery
  <2>6. OwnersSeeTheirOutcome'
    BY <2>1, <2>2, <2>3, <2>4
    DEF NotificationInv, OwnersSeeTheirOutcome, Knows, Sending, OwnsDelivery
  <2>7. AcceptedIsTrue'
    BY <2>1, <2>2, <2>3, <2>4 DEF NotificationInv, AcceptedIsTrue, Knows
  <2>8. OwnersSendOnce'
    <3>1. SUFFICES ASSUME blind = "no"
                   PROVE  /\ messages = 0
                          /\ \A t \in Senders : t # s => ~Sending(t)
      BY <1>0, <2>1, <2>2, <2>3, <2>4, <3>1
      DEF OwnersSendOnce, Sending, Knows, OwnsDelivery, LiveLease
    <3>2. messages = 0
      BY <1>0, <2>3, <3>1 DEF NotificationInv, OwnersSendOnce
    <3> QED
      BY <2>3, <3>1, <3>2 DEF NotificationInv, OwnersSendOnce, OwnsDelivery, LiveLease
  <2> QED
    BY <2>5, <2>6, <2>7, <2>8 DEF NotificationInv
<1>2. ASSUME NEW s \in Senders, SendAlimtalk(s) PROVE NotificationInv'
  <2>1. PICK outcome \in Outcomes :
          /\ sender' = [sender EXCEPT ![s] = [pc |-> "record", outcome |-> outcome]]
          /\ \/ messages < MaxMessages /\ messages' = messages + 1 /\ outcome # "REJECTED"
             \/ messages' = messages /\ outcome # "ACCEPTED"
    BY <1>2 DEF SendAlimtalk, Observe, Outcomes
  <2> DEFINE r == [pc |-> "record", outcome |-> outcome]
  <2>2. r \in SenderRecords /\ r.pc = "record" /\ r.outcome = outcome
    BY DEF SenderRecords
  <2>3. /\ sender' \in [Senders -> SenderRecords] /\ sender'[s] = r
        /\ \A t \in Senders : t # s => sender'[t] = sender[t]
    BY <1>0, <2>1, <2>2, SenderChanges
  <2> HIDE DEF r
  <2>4. sender[s].pc = "send" /\ UNCHANGED <<delivery, blind>>
    BY <1>2 DEF SendAlimtalk
  <2>5. messages' \in Nat /\ messages' <= MaxMessages /\ messages' >= messages
    BY <1>0, <2>1
  <2>6. NotificationTypeOK'
    BY <1>0, <2>3, <2>4, <2>5 DEF NotificationTypeOK, SenderRecords, Outcomes
  <2>7. OwnersSeeTheirOutcome'
    BY <2>2, <2>3, <2>4 DEF NotificationInv, OwnersSeeTheirOutcome, Knows, Sending, OwnsDelivery
  <2>8. AcceptedIsTrue'
    BY <1>0, <2>1, <2>2, <2>3, <2>4, <2>5 DEF NotificationInv, AcceptedIsTrue, Knows
  <2>9. OwnersSendOnce'
    <3>1. CASE blind = "no"
      <4>1. /\ OwnsDelivery(s) /\ delivery.lease = "live" /\ delivery.outcome = "none"
            /\ messages = 0
        BY <2>4, <3>1 DEF NotificationInv, OwnersSendOnce, Sending
      <4>2. \A t \in Senders : t # s => ~Sending(t) /\ ~OwnsDelivery(t)
        BY <3>1, <4>1 DEF NotificationInv, OwnersSendOnce, OwnsDelivery
      <4>3. messages' <= 1 /\ (outcome = "REJECTED" => messages' = 0)
        BY <2>1, <4>1
      <4> QED
        BY <2>2, <2>3, <2>4, <3>1, <4>1, <4>2, <4>3
        DEF OwnersSendOnce, Sending, Knows, OwnsDelivery, LiveLease
    <3>2. CASE blind # "no"
      BY <2>4, <3>2 DEF OwnersSendOnce
    <3> QED
      BY <3>1, <3>2
  <2> QED
    BY <2>6, <2>7, <2>8, <2>9 DEF NotificationInv
<1>3. ASSUME NEW s \in Senders, CannotSend(s) PROVE NotificationInv'
  <2> DEFINE r == [pc |-> "finish", outcome |-> "REJECTED"]
  <2>1. /\ r \in SenderRecords /\ r.pc = "finish" /\ r.outcome = "REJECTED"
        /\ sender' = [sender EXCEPT ![s] = r]
    BY <1>3 DEF CannotSend, SenderRecords, Outcomes
  <2> HIDE DEF r
  <2>2. /\ sender' \in [Senders -> SenderRecords] /\ sender'[s] = r
        /\ \A t \in Senders : t # s => sender'[t] = sender[t]
    BY <1>0, <2>1, SenderChanges
  <2>3. sender[s].pc = "send" /\ UNCHANGED <<delivery, messages, blind>>
    BY <1>3 DEF CannotSend
  <2>4. NotificationTypeOK'
    BY <1>0, <2>2, <2>3 DEF NotificationTypeOK, SenderRecords, Outcomes
  <2>5. OwnersSeeTheirOutcome'
    BY <2>1, <2>2, <2>3
    DEF NotificationInv, OwnersSeeTheirOutcome, Knows, Sending, OwnsDelivery, Outcomes
  <2>6. AcceptedIsTrue'
    BY <2>1, <2>2, <2>3 DEF NotificationInv, AcceptedIsTrue, Knows
  <2>7. OwnersSendOnce'
    BY <2>1, <2>2, <2>3
    DEF NotificationInv, OwnersSendOnce, Sending, Knows, OwnsDelivery, LiveLease, Answered
  <2> QED
    BY <2>4, <2>5, <2>6, <2>7 DEF NotificationInv
<1>4. ASSUME NEW s \in Senders, RecordDeliveryAttempt(s) PROVE NotificationInv'
  <2>1. PICK r \in SenderRecords :
          /\ r.pc = "finish" /\ r.outcome = sender[s].outcome
          /\ sender' \in [Senders -> SenderRecords] /\ sender'[s] = r
          /\ \A t \in Senders : t # s => sender'[t] = sender[t]
    BY <1>0, <1>4, SenderMoves DEF RecordDeliveryAttempt
  <2>2. /\ sender' \in [Senders -> SenderRecords] /\ sender'[s] = r
        /\ \A t \in Senders : t # s => sender'[t] = sender[t]
    BY <2>1
  <2>3. sender[s].pc = "record" /\ UNCHANGED <<messages, blind>> /\ sender[s].outcome \in Outcomes
    BY <1>4 DEF RecordDeliveryAttempt, NotificationInv, OwnersSeeTheirOutcome, Knows
  <2>4. PICK d : /\ delivery' = d /\ d.status = delivery.status /\ d.leaseId = delivery.leaseId
                 /\ d.lease = delivery.lease
                 /\ \/ d.outcome = delivery.outcome
                    \/ OwnsDelivery(s) /\ d.outcome = sender[s].outcome
                 /\ d = [status |-> d.status, leaseId |-> d.leaseId, lease |-> d.lease,
                         outcome |-> d.outcome]
    <3>1. CASE delivery' = delivery
      BY <1>0, <3>1
    <3>2. CASE OwnsDelivery(s) /\ delivery' = [delivery EXCEPT !.outcome = sender[s].outcome]
      BY <1>0, <3>2
    <3> QED
      BY <1>4, <3>1, <3>2 DEF RecordDeliveryAttempt
  <2>5. NotificationTypeOK'
    <3>1. d \in [status : {"none", "PROCESSING", "SENT", "NEEDS_VERIFY", "FAILED"},
                 leaseId : Senders \union {"nobody"}, lease : {"live", "lapsed"},
                 outcome : {"none"} \union Outcomes]
      BY <1>0, <2>3, <2>4
    <3> QED
      BY <1>0, <2>2, <2>3, <2>4, <3>1, TypedDelivery DEF OwnsDelivery
  <2>6. OwnersSeeTheirOutcome'
    BY <2>1, <2>2, <2>3, <2>4
    DEF NotificationInv, OwnersSeeTheirOutcome, Knows, Sending, OwnsDelivery
  <2>7. AcceptedIsTrue'
    BY <2>1, <2>2, <2>3, <2>4 DEF NotificationInv, AcceptedIsTrue, Knows
  <2>8. OwnersSendOnce'
    <3>1. CASE blind = "no"
      <4>1. OwnsDelivery(s) /\ delivery.lease = "live"
        BY <2>3, <3>1 DEF NotificationInv, OwnersSendOnce, Sending
      <4>2. \A t \in Senders : t # s => ~Sending(t) /\ ~OwnsDelivery(t)
        BY <3>1, <4>1 DEF NotificationInv, OwnersSendOnce, OwnsDelivery
      <4> QED
        BY <2>1, <2>2, <2>3, <2>4, <3>1, <4>1, <4>2
        DEF NotificationInv, OwnersSendOnce, Sending, Knows, OwnsDelivery, LiveLease
    <3>2. CASE blind # "no"
      BY <2>3, <3>2 DEF OwnersSendOnce
    <3> QED
      BY <3>1, <3>2
  <2> QED
    BY <2>5, <2>6, <2>7, <2>8 DEF NotificationInv
<1>5. ASSUME NEW s \in Senders, FinishNotificationDelivery(s) \/ SenderDies(s) PROVE NotificationInv'
  <2>1. /\ Away \in SenderRecords /\ Away.pc = "away" /\ sender' = [sender EXCEPT ![s] = Away]
        /\ UNCHANGED <<messages, blind>>
    BY <1>5 DEF FinishNotificationDelivery, SenderDies, SenderRecords, Away
  <2>2. /\ sender' \in [Senders -> SenderRecords] /\ sender'[s] = Away
        /\ \A t \in Senders : t # s => sender'[t] = sender[t]
    BY <1>0, <2>1, SenderChanges
  <2>3. CASE delivery' = delivery
    <3>1. NotificationTypeOK'
      BY <1>0, <2>1, <2>2, <2>3 DEF NotificationTypeOK, SenderRecords, Outcomes
    <3> QED
      BY <2>1, <2>2, <2>3, <3>1
      DEF NotificationInv, OwnersSeeTheirOutcome, AcceptedIsTrue, OwnersSendOnce, Knows, Sending,
          OwnsDelivery, LiveLease, Answered
  <2>4. CASE /\ sender[s].pc = "finish" /\ OwnsDelivery(s) /\ delivery' = FinishedBy(s)
    <3>1. PICK d : /\ delivery' = d /\ d.status = FinalStatus(sender[s].outcome)
                   /\ d.leaseId = delivery.leaseId /\ d.lease = delivery.lease
                   /\ d.outcome = sender[s].outcome
                   /\ d = [status |-> d.status, leaseId |-> d.leaseId, lease |-> d.lease,
                           outcome |-> d.outcome]
      <4>1. delivery' = [status |-> FinalStatus(sender[s].outcome), leaseId |-> delivery.leaseId,
                         lease |-> delivery.lease, outcome |-> sender[s].outcome]
        BY <1>0, <2>4 DEF FinishedBy
      <4> QED
        BY <4>1
    <3>2. /\ sender[s].outcome \in Outcomes
          /\ d.status \in {"SENT", "NEEDS_VERIFY", "FAILED"}
          /\ d.outcome = "ACCEPTED" <=> d.status = "SENT"
          /\ d.outcome = "UNKNOWN" <=> d.status = "NEEDS_VERIFY"
          /\ d.outcome = "REJECTED" <=> d.status = "FAILED"
      <4>1. sender[s].outcome \in Outcomes
        BY <2>4 DEF NotificationInv, OwnersSeeTheirOutcome, Knows
      <4> QED
        BY <3>1, <4>1, FinalStatuses DEF Outcomes
    <3>3. NotificationTypeOK'
      <4>1. d \in [status : {"none", "PROCESSING", "SENT", "NEEDS_VERIFY", "FAILED"},
                   leaseId : Senders \union {"nobody"}, lease : {"live", "lapsed"},
                   outcome : {"none"} \union Outcomes]
        BY <1>0, <3>1, <3>2
      <4> QED
        BY <1>0, <2>1, <2>2, <3>1, <3>2, <4>1, TypedDelivery
    <3>4. OwnersSeeTheirOutcome'
      BY <2>1, <2>2, <3>1, <3>2
      DEF NotificationInv, OwnersSeeTheirOutcome, Knows, Sending, OwnsDelivery
    <3>5. AcceptedIsTrue'
      BY <2>1, <2>2, <2>4, <3>1 DEF NotificationInv, AcceptedIsTrue, Knows
    <3>6. OwnersSendOnce'
      <4>1. CASE blind = "no"
        <5>1. \A t \in Senders : ~Sending(t)
          BY <2>4, <4>1 DEF NotificationInv, OwnersSendOnce, OwnsDelivery, Sending
        <5>2. sender[s].outcome = "REJECTED" => messages = 0
          BY <2>4, <4>1 DEF NotificationInv, OwnersSendOnce, Knows
        <5>3. messages <= 1
          BY <4>1 DEF NotificationInv, OwnersSendOnce
        <5> QED
          BY <1>0, <2>1, <2>2, <3>1, <3>2, <4>1, <5>1, <5>2, <5>3
          DEF OwnersSendOnce, Sending, Knows, OwnsDelivery, Answered, Outcomes
      <4>2. CASE blind # "no"
        BY <2>1, <4>2 DEF OwnersSendOnce
      <4> QED
        BY <4>1, <4>2
    <3> QED
      BY <3>3, <3>4, <3>5, <3>6 DEF NotificationInv
  <2> QED
    BY <1>5, <2>3, <2>4 DEF FinishNotificationDelivery, SenderDies
<1>6. CASE DeliveryLeaseLapses
  <2>1. PICK d : /\ delivery' = d /\ d.status = delivery.status /\ d.leaseId = delivery.leaseId
                 /\ d.lease = "lapsed" /\ d.outcome = delivery.outcome
                 /\ d = [status |-> d.status, leaseId |-> d.leaseId, lease |-> d.lease,
                         outcome |-> d.outcome]
    BY <1>0, <1>6 DEF DeliveryLeaseLapses
  <2>2. /\ blind' = IF delivery.outcome = "none" THEN "yes" ELSE blind
        /\ UNCHANGED <<messages, sender>>
    BY <1>6 DEF DeliveryLeaseLapses
  <2>3. NotificationTypeOK'
    <3>1. d \in [status : {"none", "PROCESSING", "SENT", "NEEDS_VERIFY", "FAILED"},
                 leaseId : Senders \union {"nobody"}, lease : {"live", "lapsed"},
                 outcome : {"none"} \union Outcomes]
      BY <1>0, <2>1
    <3> QED
      BY <1>0, <2>1, <2>2, <3>1, TypedDelivery
  <2>4. OwnersSeeTheirOutcome' /\ AcceptedIsTrue'
    BY <2>1, <2>2
    DEF NotificationInv, OwnersSeeTheirOutcome, AcceptedIsTrue, Knows, Sending, OwnsDelivery
  <2>5. OwnersSendOnce'
    <3>1. CASE blind = "no" /\ delivery.outcome # "none"
      BY <1>0, <2>1, <2>2, <3>1
      DEF NotificationInv, OwnersSendOnce, Sending, Knows, OwnsDelivery, Answered, LiveLease, Outcomes
    <3>2. CASE ~(blind = "no" /\ delivery.outcome # "none")
      BY <2>2, <3>2 DEF OwnersSendOnce
    <3> QED
      BY <3>1, <3>2
  <2> QED
    BY <2>3, <2>4, <2>5 DEF NotificationInv
<1>7. CASE UNCHANGED notificationVars
  BY <1>7
  DEF notificationVars, NotificationInv, NotificationTypeOK, OwnersSeeTheirOutcome, AcceptedIsTrue,
      OwnersSendOnce, Knows, Sending, OwnsDelivery, LiveLease, Answered
<1> QED
  BY <1>1, <1>2, <1>3, <1>4, <1>5, <1>6, <1>7 DEF NotificationNext, SendToUser

(* The delivery and its senders keep their types. *)
THEOREM NotificationTypes == NotificationSpec => []NotificationTypeOK
<1>1. NotificationInv => NotificationTypeOK
  BY DEF NotificationInv
<1> QED
  BY NotificationInitially, NotificationStep, <1>1, PTL DEF NotificationSpec

(* Nobody gets a message twice unless a sender was silent for longer than  *)
(* its lease (claimNotificationDelivery).                                  *)
THEOREM RepeatsNeedSilence == NotificationSpec => []RepeatsNeedASilentSender
<1>1. NotificationInv => RepeatsNeedASilentSender
  <2> SUFFICES ASSUME NotificationInv, blind # "yes" PROVE ~(messages > 1)
    BY DEF RepeatsNeedASilentSender
  <2>1. blind = "no" /\ messages \in Nat
    BY NotificationParts DEF NotificationInv
  <2> QED
    BY <2>1 DEF NotificationInv, OwnersSendOnce
<1> QED
  BY NotificationInitially, NotificationStep, <1>1, PTL DEF NotificationSpec

SentWasAccepted == delivery.status = "SENT" \/ delivery.outcome = "ACCEPTED" => messages > 0

(* Answers are true, and late senders leave them alone                     *)
(* (recordDeliveryAttempt and finishNotificationDelivery).                 *)
THEOREM AnswersAreFinal == NotificationSpec => AnswersStay
<1> DEFINE Stay ==
      /\ delivery.outcome \in {"ACCEPTED", "UNKNOWN"} => delivery'.outcome = delivery.outcome
      /\ delivery.status \in {"SENT", "NEEDS_VERIFY"} => delivery'.status = delivery.status
<1>1. NotificationInv /\ [NotificationNext]_notificationVars => [Stay]_notificationVars
  <2> SUFFICES ASSUME NotificationInv, NotificationNext PROVE Stay
    OBVIOUS
  <2>0. delivery = [status |-> delivery.status, leaseId |-> delivery.leaseId,
                    lease |-> delivery.lease, outcome |-> delivery.outcome]
    BY NotificationParts DEF NotificationInv
  <2>1. ASSUME NEW s \in Senders, ClaimNotificationDelivery(s) PROVE Stay
    BY <2>1 DEF ClaimNotificationDelivery, Answered
  <2>2. ASSUME NEW s \in Senders, SendAlimtalk(s) \/ CannotSend(s) \/ SenderDies(s) PROVE Stay
    BY <2>2 DEF SendAlimtalk, CannotSend, SenderDies
  <2>3. ASSUME NEW s \in Senders, RecordDeliveryAttempt(s) PROVE Stay
    <3>1. CASE OwnsDelivery(s) /\ delivery' = [delivery EXCEPT !.outcome = sender[s].outcome]
      <4>1. delivery.outcome = "none"
        BY <2>3, <3>1
        DEF RecordDeliveryAttempt, NotificationInv, OwnersSeeTheirOutcome, Sending
      <4>2. delivery'.status = delivery.status
        BY <2>0, <3>1
      <4> QED
        BY <4>1, <4>2
    <3>2. CASE delivery' = delivery
      BY <3>2
    <3> QED
      BY <2>3, <3>1, <3>2 DEF RecordDeliveryAttempt
  <2>4. ASSUME NEW s \in Senders, FinishNotificationDelivery(s) PROVE Stay
    <3>1. CASE OwnsDelivery(s) /\ delivery' = FinishedBy(s)
      <4>1. delivery.outcome \in {"none", sender[s].outcome} /\ delivery.status = "PROCESSING"
        BY <2>4, <3>1
        DEF FinishNotificationDelivery, NotificationInv, OwnersSeeTheirOutcome, OwnsDelivery
      <4>2. delivery'.outcome = sender[s].outcome
        BY <2>0, <3>1 DEF FinishedBy
      <4> QED
        BY <4>1, <4>2
    <3>2. CASE delivery' = delivery
      BY <3>2
    <3> QED
      BY <2>4, <3>1, <3>2 DEF FinishNotificationDelivery
  <2>5. CASE DeliveryLeaseLapses
    BY <2>0, <2>5 DEF DeliveryLeaseLapses
  <2> QED
    BY <2>1, <2>2, <2>3, <2>4, <2>5 DEF NotificationNext, SendToUser
<1>2. NotificationInv => SentWasAccepted
  BY NotificationParts DEF NotificationInv, AcceptedIsTrue, SentWasAccepted
<1>3. NotificationInv' => SentWasAccepted'
  BY <1>2, PTL
<1> DEFINE Full ==
      /\ delivery'.status = "SENT" \/ delivery'.outcome = "ACCEPTED" => messages' > 0
      /\ delivery.outcome \in {"ACCEPTED", "UNKNOWN"} => delivery'.outcome = delivery.outcome
      /\ delivery.status \in {"SENT", "NEEDS_VERIFY"} => delivery'.status = delivery.status
<1>4. NotificationInv /\ [NotificationNext]_notificationVars => [Full]_notificationVars
  BY <1>1, <1>3, NotificationStep DEF SentWasAccepted
<1> QED
  BY NotificationInitially, NotificationStep, <1>4, PTL DEF NotificationSpec, AnswersStay

(***************************************************************************)
(* The sessions of a user.                                                 *)
(***************************************************************************)

Tokens == 0..MaxToken
SessionRecords == [token : Tokens, rotated : {"never", "recently"}]
BrowserRecords == [cookie : Tokens, access : {"valid", "expired"}]

(* Before a login nothing is there of its session. *)
StrangersAreQuiet ==
  \A s \in Sids : s \notin begun => sessions[s].token = 0 /\ asking[s] = {} /\ answers[s] = {}

(* What the tabs of a live session hold, ask for and are answered with is  *)
(* its current token or, as long as the last exchange is recent, also the  *)
(* one before.                                                             *)
Settled(s) ==
  /\ sessions[s].rotated = "never"
  /\ asking[s] \subseteq {sessions[s].token} /\ answers[s] = {}
  /\ browser[s].cookie = sessions[s].token
Rotating(s) ==
  /\ sessions[s].rotated = "recently"
  /\ asking[s] \subseteq {sessions[s].token - 1} /\ answers[s] \subseteq {sessions[s].token}
  /\ browser[s].cookie \in {sessions[s].token - 1, sessions[s].token}
  /\ browser[s].cookie = sessions[s].token => browser[s].access = "valid"
TabsFollow == \A s \in Sids : sessions[s].token # 0 => Settled(s) \/ Rotating(s)

SessionInv ==
  /\ SessionTypeOK /\ active = Live /\ IsFiniteSet(begun)
  /\ StrangersAreQuiet /\ TabsFollow /\ HonestTabsRaiseNoAlarm

LEMMA SessionParts ==
  ASSUME SessionInv
  PROVE  /\ MaxToken \in Nat /\ MaxToken >= 1 /\ MaxSessions \in Nat /\ MaxSessions >= 1
         /\ sessions \in [Sids -> SessionRecords] /\ browser \in [Sids -> BrowserRecords]
         /\ asking \in [Sids -> SUBSET Tokens] /\ answers \in [Sids -> SUBSET Tokens]
         /\ active = Live /\ begun \subseteq Sids /\ alarm = "none"
         /\ IsFiniteSet(Live) /\ Cardinality(Live) <= MaxSessions /\ Cardinality(Live) \in Nat
         /\ Live \subseteq begun
         /\ \A s \in Sids : sessions[s].token \in Nat /\ browser[s].cookie \in Nat
<1>1. /\ sessions \in [Sids -> SessionRecords] /\ browser \in [Sids -> BrowserRecords]
      /\ asking \in [Sids -> SUBSET Tokens] /\ answers \in [Sids -> SUBSET Tokens]
      /\ active = Live /\ begun \subseteq Sids /\ alarm = "none" /\ Cardinality(Live) <= MaxSessions
  BY DEF SessionInv, SessionTypeOK, HonestTabsRaiseNoAlarm, SessionRecords, BrowserRecords, Tokens
<1>2. MaxToken \in Nat /\ MaxToken >= 1 /\ MaxSessions \in Nat /\ MaxSessions >= 1
  BY SessionAssumption
<1>3. Live \subseteq begun
  BY DEF SessionInv, StrangersAreQuiet, Live
<1>4. IsFiniteSet(Live) /\ Cardinality(Live) \in Nat
  BY <1>3, FS_Subset, FS_CardinalityType DEF SessionInv
<1>5. \A s \in Sids : sessions[s].token \in Nat /\ browser[s].cookie \in Nat
  BY <1>1, <1>2 DEF SessionRecords, BrowserRecords, Tokens
<1> QED
  BY <1>1, <1>2, <1>3, <1>4, <1>5

(* What a step must show, session by session. *)
LEMMA SessionsKept ==
  ASSUME sessions' \in [Sids -> SessionRecords], browser' \in [Sids -> BrowserRecords],
         asking' \in [Sids -> SUBSET Tokens], answers' \in [Sids -> SUBSET Tokens],
         begun' \subseteq Sids, IsFiniteSet(begun'), active' = Live', alarm' = "none",
         Cardinality(Live') <= MaxSessions, StrangersAreQuiet', TabsFollow'
  PROVE  SessionInv'
BY DEF SessionInv, SessionTypeOK, HonestTabsRaiseNoAlarm, SessionRecords, BrowserRecords, Tokens, Live

LEMMA FewerSessions ==
  ASSUME SessionInv, Live' \subseteq Live
  PROVE  Cardinality(Live') <= MaxSessions
<1>1. IsFiniteSet(Live) /\ Cardinality(Live) <= MaxSessions /\ MaxSessions \in Nat
      /\ Cardinality(Live) \in Nat
  BY SessionParts
<1>2. /\ IsFiniteSet(Live') /\ Cardinality(Live') <= Cardinality(Live)
      /\ Cardinality(Live') \in Nat
  BY <1>1, FS_Subset, FS_CardinalityType
<1> QED
  BY <1>1, <1>2

LEMMA SessionInitially == SessionInit => SessionInv
<1> SUFFICES ASSUME SessionInit PROVE SessionInv
  OBVIOUS
<1>1. \A s \in Sids : sessions[s].token = 0
  BY DEF SessionInit, NoSession
<1>2. Live = {}
  BY <1>1 DEF Live
<1>3. 0 \in Tokens /\ MaxSessions \in Nat
  BY SessionAssumption DEF Tokens
<1>4. Cardinality(Live) <= MaxSessions
  BY <1>2, <1>3, FS_EmptySet
<1>5. SessionTypeOK
  BY <1>3, <1>4 DEF SessionInit, SessionTypeOK, NoSession, Tokens
<1>6. IsFiniteSet(begun)
  BY FS_EmptySet DEF SessionInit
<1> QED
  BY <1>1, <1>2, <1>5, <1>6
  DEF SessionInit, SessionInv, StrangersAreQuiet, TabsFollow, HonestTabsRaiseNoAlarm

LEMMA LoginKept == ASSUME SessionInv, NEW s \in Sids, IssueTokens(s) PROVE SessionInv'
<1>0. /\ MaxToken \in Nat /\ MaxToken >= 1 /\ MaxSessions \in Nat /\ MaxSessions >= 1
      /\ sessions \in [Sids -> SessionRecords] /\ browser \in [Sids -> BrowserRecords]
      /\ asking \in [Sids -> SUBSET Tokens] /\ answers \in [Sids -> SUBSET Tokens]
      /\ begun \subseteq Sids /\ alarm = "none"
      /\ IsFiniteSet(Live) /\ Cardinality(Live) <= MaxSessions /\ Cardinality(Live) \in Nat
      /\ Live \subseteq begun
  BY SessionParts
<1>1. PICK kept \in Kept :
        /\ sessions' = [t \in Sids |-> IF t = s THEN [token |-> 1, rotated |-> "never"]
                                       ELSE IF t \in kept THEN sessions[t] ELSE NoSession]
        /\ active' = kept \union {s}
  BY DEF IssueTokens, ListedIds
<1>2. /\ s \notin begun /\ begun' = begun \union {s}
      /\ browser' = [browser EXCEPT ![s] = [cookie |-> 1, access |-> "valid"]]
      /\ UNCHANGED <<asking, answers, alarm>>
  BY DEF IssueTokens
<1>3. kept \subseteq Live
      /\ Cardinality(kept) = (IF Cardinality(Live) < MaxSessions THEN Cardinality(Live)
                              ELSE MaxSessions - 1)
  BY <1>1 DEF Kept
<1>4. kept \subseteq Sids /\ s \notin kept /\ Live \subseteq Sids
  BY <1>0, <1>2, <1>3
<1>5. /\ sessions'[s].token = 1 /\ sessions'[s].rotated = "never"
      /\ \A t \in Sids : t # s =>
           (t \in kept => sessions'[t] = sessions[t]) /\ (t \notin kept => sessions'[t].token = 0)
  BY <1>1, <1>4 DEF NoSession
<1>6. /\ browser'[s].cookie = 1 /\ browser'[s].access = "valid"
      /\ \A t \in Sids : t # s => browser'[t] = browser[t]
  BY <1>0, <1>2
<1>7. 0 \in Tokens /\ 1 \in Tokens
  BY <1>0 DEF Tokens
<1>8. sessions' \in [Sids -> SessionRecords]
  BY <1>0, <1>1, <1>7 DEF SessionRecords, NoSession
<1>9. browser' \in [Sids -> BrowserRecords]
  BY <1>0, <1>2, <1>7 DEF BrowserRecords
<1>10. Live' = kept \union {s}
  BY <1>3, <1>4, <1>5 DEF Live
<1>11. Cardinality(Live') <= MaxSessions
  <2>1. IsFiniteSet(kept) /\ Cardinality(kept) \in Nat
    BY <1>0, <1>3, FS_Subset, FS_CardinalityType
  <2>2. Cardinality(kept \union {s}) = Cardinality(kept) + 1
    BY <2>1, <1>4, FS_AddElement
  <2>3. Cardinality(kept) <= MaxSessions - 1
    BY <1>0, <1>3
  <2> QED
    BY <1>0, <1>10, <2>1, <2>2, <2>3
<1>12. begun' \subseteq Sids /\ IsFiniteSet(begun')
  BY <1>0, <1>2, FS_AddElement DEF SessionInv
<1>13. StrangersAreQuiet'
  BY <1>2, <1>3, <1>5, <1>0 DEF SessionInv, StrangersAreQuiet, Live
<1>14. TabsFollow'
  <2>1. Settled(s)'
    BY <1>2, <1>5, <1>6 DEF Settled, SessionInv, StrangersAreQuiet
  <2>2. ASSUME NEW t \in Sids, t # s, sessions'[t].token # 0 PROVE Settled(t)' \/ Rotating(t)'
    BY <1>2, <1>5, <1>6, <2>2 DEF SessionInv, TabsFollow, Settled, Rotating
  <2> QED
    BY <2>1, <2>2 DEF TabsFollow
<1> QED
  BY <1>0, <1>1, <1>2, <1>8, <1>9, <1>10, <1>11, <1>12, <1>13, <1>14, SessionsKept

(* Sessions end: by logout, or all of them. *)
LEMMA EndKept ==
  ASSUME SessionInv, sessions' \in [Sids -> SessionRecords],
         \A t \in Sids : sessions'[t] = sessions[t] \/ sessions'[t].token = 0,
         active' = Live', UNCHANGED <<begun, deviceVars, alarm>>
  PROVE  SessionInv'
<1>0. /\ browser \in [Sids -> BrowserRecords]
      /\ asking \in [Sids -> SUBSET Tokens] /\ answers \in [Sids -> SUBSET Tokens]
      /\ begun \subseteq Sids /\ alarm = "none" /\ IsFiniteSet(begun)
  BY SessionParts DEF SessionInv
<1>1. Live' \subseteq Live
  BY DEF Live
<1>2. StrangersAreQuiet'
  BY DEF SessionInv, StrangersAreQuiet, deviceVars
<1>3. TabsFollow'
  BY DEF SessionInv, TabsFollow, Settled, Rotating, deviceVars
<1> QED
  BY <1>0, <1>1, <1>2, <1>3, FewerSessions, SessionsKept DEF deviceVars

(* A request, an answer or an expiry at one session, which stays as live   *)
(* as it was.                                                              *)
LEMMA DeviceKept ==
  ASSUME SessionInv, NEW s \in Sids,
         sessions' \in [Sids -> SessionRecords], browser' \in [Sids -> BrowserRecords],
         asking' \in [Sids -> SUBSET Tokens], answers' \in [Sids -> SUBSET Tokens],
         \A t \in Sids : t # s => /\ sessions'[t] = sessions[t] /\ browser'[t] = browser[t]
                                  /\ asking'[t] = asking[t] /\ answers'[t] = answers[t],
         sessions'[s].token = 0 <=> sessions[s].token = 0,
         s \in begun \/ (asking'[s] = {} /\ answers'[s] = {}),
         sessions'[s].token # 0 => Settled(s)' \/ Rotating(s)',
         UNCHANGED <<active, begun, alarm>>
  PROVE  SessionInv'
<1>0. active = Live /\ begun \subseteq Sids /\ alarm = "none" /\ IsFiniteSet(begun)
  BY SessionParts DEF SessionInv
<1>1. Live' = Live
  BY DEF Live
<1>2. StrangersAreQuiet'
  BY DEF SessionInv, StrangersAreQuiet
<1>3. TabsFollow'
  <2>1. ASSUME NEW t \in Sids, t # s, sessions'[t].token # 0 PROVE Settled(t)' \/ Rotating(t)'
    <3>1. Settled(t) \/ Rotating(t)
      BY <2>1 DEF SessionInv, TabsFollow
    <3> QED
      BY <2>1, <3>1 DEF Settled, Rotating
  <2> QED
    BY <2>1 DEF TabsFollow
<1> QED
  BY <1>0, <1>1, <1>2, <1>3, FewerSessions, SessionsKept

LEMMA RefreshKept ==
  ASSUME SessionInv, NEW s \in Sids, NEW presented \in 1..MaxToken, Refresh(s, presented)
  PROVE  SessionInv' /\ UNCHANGED active
<1>0. /\ MaxToken \in Nat /\ presented \in Nat /\ presented # 0 /\ presented \in Tokens
      /\ sessions \in [Sids -> SessionRecords] /\ browser \in [Sids -> BrowserRecords]
      /\ asking \in [Sids -> SUBSET Tokens] /\ answers \in [Sids -> SUBSET Tokens]
      /\ \A t \in Sids : sessions[t].token \in Nat /\ browser[t].cookie \in Nat
  BY SessionParts DEF Tokens
<1>1. /\ presented \in asking[s] /\ s \in begun
      /\ asking' \in {asking, [asking EXCEPT ![s] = @ \ {presented}]} /\ UNCHANGED browser
  BY DEF Refresh, SessionInv, StrangersAreQuiet
<1>2. /\ asking' \in [Sids -> SUBSET Tokens] /\ asking'[s] \subseteq asking[s]
      /\ \A t \in Sids : t # s => asking'[t] = asking[t]
  BY <1>0, <1>1
<1>3. CASE s \notin Live /\ UNCHANGED <<accountVars, answers, alarm>>
  <2>1. sessions[s].token = 0
    BY <1>3 DEF Live
  <2> QED
    BY <1>0, <1>1, <1>2, <1>3, <2>1, DeviceKept DEF accountVars
<1>4. ASSUME sessions[s].token # 0 PROVE (presented = sessions[s].token /\ Settled(s))
                                        \/ (presented = sessions[s].token - 1 /\ Rotating(s))
  BY <1>1, <1>4 DEF SessionInv, TabsFollow, Settled, Rotating
<1>5. CASE /\ IsCurrent(s, presented) /\ presented < MaxToken
           /\ sessions' = [sessions EXCEPT ![s] = Rotated(presented)]
           /\ Issue(s, presented + 1)
           /\ UNCHANGED <<active, begun, alarm>>
  <2>1. sessions[s].token = presented /\ Settled(s)
    BY <1>0, <1>4, <1>5 DEF IsCurrent
  <2>2. Rotated(presented) \in SessionRecords /\ presented + 1 \in Tokens
    BY <1>0, <1>5 DEF Rotated, SessionRecords, Tokens
  <2>3. sessions'[s] = Rotated(presented) /\ sessions' \in [Sids -> SessionRecords]
        /\ \A t \in Sids : t # s => sessions'[t] = sessions[t]
    BY <1>0, <1>5, <2>2
  <2>4. sessions'[s].token = presented + 1 /\ sessions'[s].rotated = "recently"
    BY <2>3 DEF Rotated
  <2>5. /\ answers' \in [Sids -> SUBSET Tokens] /\ answers'[s] = answers[s] \union {presented + 1}
        /\ \A t \in Sids : t # s => answers'[t] = answers[t]
    BY <1>0, <1>5, <2>2 DEF Issue
  <2>6. Rotating(s)'
    <3>1. presented + 1 - 1 = presented /\ presented # presented + 1
      BY <1>0
    <3> QED
      BY <1>1, <1>2, <2>1, <2>4, <2>5, <3>1 DEF Settled, Rotating
  <2>7. (sessions'[s].token = 0) = (sessions[s].token = 0)
    BY <1>0, <2>1, <2>4
  <2> QED
    BY <1>0, <1>1, <1>2, <1>5, <2>3, <2>5, <2>6, <2>7, DeviceKept
<1>6. CASE /\ s \in Live /\ ~IsCurrent(s, presented)
           /\ IF InGrace(s, presented)
              THEN Issue(s, sessions[s].token) /\ UNCHANGED <<accountVars, alarm>>
              ELSE RevokeAllSessions /\ alarm' = "raised" /\ UNCHANGED answers
  <2>1. sessions[s].token # 0 /\ presented = sessions[s].token - 1 /\ Rotating(s)
    BY <1>0, <1>4, <1>6 DEF Live, IsCurrent
  <2>2. InGrace(s, presented)
    BY <1>0, <2>1 DEF InGrace, Rotating
  <2>3. Issue(s, sessions[s].token) /\ UNCHANGED <<sessions, active, begun, alarm>>
    BY <1>6, <2>2 DEF accountVars
  <2>4. sessions[s].token \in Tokens
    BY <1>0 DEF SessionRecords
  <2>5. /\ answers' \in [Sids -> SUBSET Tokens] /\ answers'[s] = answers[s] \union {sessions[s].token}
        /\ \A t \in Sids : t # s => answers'[t] = answers[t]
    BY <1>0, <2>3, <2>4 DEF Issue
  <2>6. Rotating(s)'
    BY <1>1, <1>2, <2>1, <2>3, <2>5 DEF Rotating
  <2> QED
    BY <1>0, <1>1, <1>2, <2>3, <2>5, <2>6, DeviceKept
<1> QED
  BY <1>3, <1>5, <1>6 DEF Refresh

LEMMA BrowserKept ==
  ASSUME SessionInv, NEW s \in Sids, Ask(s) \/ TakeAnswer(s) \/ LoseAnswer(s) \/ AccessExpires(s)
  PROVE  SessionInv'
<1>0. /\ sessions \in [Sids -> SessionRecords] /\ browser \in [Sids -> BrowserRecords]
      /\ asking \in [Sids -> SUBSET Tokens] /\ answers \in [Sids -> SUBSET Tokens]
      /\ \A t \in Sids : sessions[t].token \in Nat /\ browser[t].cookie \in Nat
      /\ Live \subseteq begun
  BY SessionParts
<1>1. browser[s].cookie \in Tokens
  BY <1>0 DEF BrowserRecords
<1>2. sessions[s].token # 0 => Settled(s) \/ Rotating(s)
  BY DEF SessionInv, TabsFollow
<1>3. CASE Ask(s)
  <2>1. /\ s \in begun /\ browser[s].access = "expired"
        /\ asking' = [asking EXCEPT ![s] = @ \union {browser[s].cookie}]
        /\ UNCHANGED <<sessions, active, begun, browser, answers, alarm>>
    BY <1>3 DEF Ask, accountVars
  <2>2. /\ asking' \in [Sids -> SUBSET Tokens] /\ asking'[s] = asking[s] \union {browser[s].cookie}
        /\ \A t \in Sids : t # s => asking'[t] = asking[t]
    BY <1>0, <1>1, <2>1
  <2>3. sessions[s].token # 0 => Settled(s)' \/ Rotating(s)'
    BY <1>2, <2>1, <2>2 DEF Settled, Rotating
  <2> QED
    BY <1>0, <2>1, <2>2, <2>3, DeviceKept
<1>4. CASE TakeAnswer(s)
  <2>1. PICK token \in answers[s] :
          /\ browser' = [browser EXCEPT ![s] = [cookie |-> token, access |-> "valid"]]
          /\ answers' \in {answers, [answers EXCEPT ![s] = @ \ {token}]}
    BY <1>4 DEF TakeAnswer
  <2>2. UNCHANGED <<sessions, active, begun, asking, alarm>> /\ token \in Tokens /\ s \in begun
    BY <1>0, <1>4 DEF TakeAnswer, accountVars, SessionInv, StrangersAreQuiet
  <2>3. /\ browser' \in [Sids -> BrowserRecords] /\ browser'[s].cookie = token
        /\ browser'[s].access = "valid"
        /\ \A t \in Sids : t # s => browser'[t] = browser[t]
    BY <1>0, <2>1, <2>2 DEF BrowserRecords
  <2>4. /\ answers' \in [Sids -> SUBSET Tokens] /\ answers'[s] \subseteq answers[s]
        /\ \A t \in Sids : t # s => answers'[t] = answers[t]
    BY <1>0, <2>1
  <2>5. sessions[s].token # 0 => Rotating(s)'
    BY <1>2, <2>2, <2>3, <2>4 DEF Settled, Rotating
  <2> QED
    BY <1>0, <2>2, <2>3, <2>4, <2>5, DeviceKept
<1>5. CASE LoseAnswer(s)
  <2>1. PICK token \in answers[s] : answers' = [answers EXCEPT ![s] = @ \ {token}]
    BY <1>5 DEF LoseAnswer
  <2>2. UNCHANGED <<sessions, active, begun, browser, asking, alarm>> /\ s \in begun
    BY <1>0, <1>5, <2>1 DEF LoseAnswer, accountVars, SessionInv, StrangersAreQuiet
  <2>3. /\ answers' \in [Sids -> SUBSET Tokens] /\ answers'[s] \subseteq answers[s]
        /\ \A t \in Sids : t # s => answers'[t] = answers[t]
    BY <1>0, <2>1
  <2>4. sessions[s].token # 0 => Settled(s)' \/ Rotating(s)'
    BY <1>2, <2>2, <2>3 DEF Settled, Rotating
  <2> QED
    BY <1>0, <2>2, <2>3, <2>4, DeviceKept
<1>6. CASE AccessExpires(s)
  <2>1. /\ s \in Live /\ TabsAreServed(s)
        /\ browser' = [browser EXCEPT ![s].access = "expired"]
        /\ sessions' = [sessions EXCEPT ![s].rotated = "never"]
        /\ UNCHANGED <<active, begun, asking, answers, alarm>>
    BY <1>6 DEF AccessExpires
  <2>2. sessions[s] \in SessionRecords /\ browser[s] \in BrowserRecords /\ s \in begun
    BY <1>0, <2>1
  <2>3. /\ sessions' \in [Sids -> SessionRecords] /\ sessions'[s].token = sessions[s].token
        /\ sessions'[s].rotated = "never"
        /\ \A t \in Sids : t # s => sessions'[t] = sessions[t]
    BY <1>0, <2>1, <2>2 DEF SessionRecords
  <2>4. /\ browser' \in [Sids -> BrowserRecords] /\ browser'[s].cookie = browser[s].cookie
        /\ \A t \in Sids : t # s => browser'[t] = browser[t]
    BY <1>0, <2>1, <2>2 DEF BrowserRecords
  <2>5. Settled(s)'
    BY <2>1, <2>3, <2>4 DEF TabsAreServed, Settled
  <2> QED
    BY <1>0, <2>1, <2>2, <2>3, <2>4, <2>5, DeviceKept
<1> QED
  BY <1>3, <1>4, <1>5, <1>6

LEMMA LogoutKept == ASSUME SessionInv, NEW s \in Sids, Logout(s) PROVE SessionInv'
<1>1. /\ sessions \in [Sids -> SessionRecords] /\ MaxToken \in Nat /\ active = Live
  BY SessionParts
<1>2. /\ sessions' = [sessions EXCEPT ![s] = NoSession] /\ active' = Live \ {s}
      /\ UNCHANGED <<begun, deviceVars, alarm>>
  BY DEF Logout
<1>3. NoSession \in SessionRecords /\ NoSession.token = 0
  BY <1>1 DEF NoSession, SessionRecords, Tokens
<1>4. /\ sessions' \in [Sids -> SessionRecords] /\ sessions'[s] = NoSession
      /\ \A t \in Sids : t # s => sessions'[t] = sessions[t]
  BY <1>1, <1>2, <1>3
<1>5. Live' = Live \ {s}
  BY <1>3, <1>4 DEF Live
<1> QED
  BY <1>2, <1>3, <1>4, <1>5, EndKept

LEMMA RevokeKept ==
  ASSUME SessionInv, RevokeAllSessions, UNCHANGED <<deviceVars, alarm>> PROVE SessionInv'
<1>1. NoSession \in SessionRecords /\ NoSession.token = 0
  BY SessionAssumption DEF NoSession, SessionRecords, Tokens
<1>2. /\ sessions' \in [Sids -> SessionRecords] /\ \A t \in Sids : sessions'[t].token = 0
  BY <1>1 DEF RevokeAllSessions
<1>3. Live' = {} /\ active' = {} /\ UNCHANGED begun
  BY <1>2 DEF RevokeAllSessions, Live
<1> QED
  BY <1>2, <1>3, EndKept

LEMMA SessionStep == SessionInv /\ [SessionNext]_sessionVars => SessionInv'
<1> SUFFICES ASSUME SessionInv, [SessionNext]_sessionVars PROVE SessionInv'
  OBVIOUS
<1>1. CASE UNCHANGED sessionVars
  BY <1>1
  DEF sessionVars, accountVars, deviceVars, SessionInv, SessionTypeOK, Live, StrangersAreQuiet,
      TabsFollow, Settled, Rotating, HonestTabsRaiseNoAlarm
<1> QED
  BY <1>1, LoginKept, LogoutKept, BrowserKept, RefreshKept, RevokeKept DEF SessionNext

(* The user's documents keep their types. *)
THEOREM SessionTypes == SessionSpec => []SessionTypeOK
<1>1. SessionInv => SessionTypeOK
  BY DEF SessionInv
<1> QED
  BY SessionInitially, SessionStep, <1>1, PTL DEF SessionSpec

(* Honest tabs never look like a thief (rotationGraceRefreshToken). *)
THEOREM NoFalseAlarm == SessionSpec => []HonestTabsRaiseNoAlarm
<1>1. SessionInv => HonestTabsRaiseNoAlarm
  BY DEF SessionInv
<1> QED
  BY SessionInitially, SessionStep, <1>1, PTL DEF SessionSpec

(* An ended session stays ended, on both documents, which log-ins,         *)
(* refreshes, log-outs and revocations keep in agreement                   *)
(* (writeSessionsInTransaction).                                           *)
THEOREM SessionsEndForGood == SessionSpec => EndedSessionsStayEnded
<1> DEFINE Ended ==
      /\ active' = Live'
      /\ \A s \in begun : sessions[s].token = 0 => sessions'[s].token = 0
<1>1. SessionInv /\ [SessionNext]_sessionVars => [Ended]_sessionVars
  <2> SUFFICES ASSUME SessionInv, SessionNext, NEW s \in begun, sessions[s].token = 0
               PROVE  sessions'[s].token = 0
    BY SessionStep, SessionParts DEF SessionInv
  <2>0. /\ sessions \in [Sids -> SessionRecords] /\ begun \subseteq Sids
        /\ NoSession.token = 0 /\ s \in Sids /\ s \notin Live
    BY SessionParts DEF NoSession, Live
  <2>1. ASSUME NEW t \in Sids, IssueTokens(t) PROVE sessions'[s].token = 0
    <3>1. PICK kept \in Kept :
            sessions' = [u \in Sids |-> IF u = t THEN [token |-> 1, rotated |-> "never"]
                                        ELSE IF u \in kept THEN sessions[u] ELSE NoSession]
      BY <2>1 DEF IssueTokens
    <3>2. s # t
      BY <2>1 DEF IssueTokens
    <3> QED
      BY <2>0, <3>1, <3>2
  <2>2. ASSUME NEW t \in Sids, Logout(t) PROVE sessions'[s].token = 0
    BY <2>0, <2>2 DEF Logout
  <2>3. ASSUME NEW t \in Sids, Ask(t) \/ TakeAnswer(t) \/ LoseAnswer(t) PROVE sessions'[s].token = 0
    BY <2>3 DEF Ask, TakeAnswer, LoseAnswer, accountVars
  <2>4. ASSUME NEW t \in Sids, AccessExpires(t) PROVE sessions'[s].token = 0
    BY <2>0, <2>4 DEF AccessExpires
  <2>5. ASSUME NEW t \in Sids, NEW presented \in 1..MaxToken, Refresh(t, presented)
        PROVE  sessions'[s].token = 0
    <3>1. CASE UNCHANGED sessions
      BY <3>1
    <3>2. CASE IsCurrent(t, presented) /\ sessions' = [sessions EXCEPT ![t] = Rotated(presented)]
      <4>1. s # t
        BY <3>2, SessionAssumption DEF IsCurrent
      <4> QED
        BY <2>0, <3>2, <4>1
    <3>3. CASE RevokeAllSessions
      BY <2>0, <3>3 DEF RevokeAllSessions
    <3> QED
      BY <2>5, <3>1, <3>2, <3>3 DEF Refresh, accountVars
  <2>6. CASE RevokeAllSessions
    BY <2>0, <2>6 DEF RevokeAllSessions
  <2> QED
    BY <2>1, <2>2, <2>3, <2>4, <2>5, <2>6 DEF SessionNext
<1> QED
  BY SessionInitially, SessionStep, <1>1, PTL DEF SessionSpec, EndedSessionsStayEnded
====
