----------------------------- MODULE PaymentRefund -----------------------------
(***************************************************************************)
(* The refund of one paid order, PaymentRefundService.refundByOrderId.     *)
(* Several workers (a retried request, a redelivered webhook, a scheduled  *)
(* job, on any instance) may refund the same payment.  They coordinate by  *)
(* a claim in the payment document, and each transaction on that document  *)
(* is one action; between two of them lie the calls to the provider, which *)
(* may fail, may take effect although the caller saw an error, and may     *)
(* take effect after the caller gave up.                                   *)
(***************************************************************************)
CONSTANTS
  Workers,  \* processes that may run refundByOrderId
  Nobody    \* not a worker

ASSUME WorkersAssumption ==
  Nobody \notin Workers /\ "operator" \notin Workers \union {Nobody}

VARIABLES
  payment,  \* status of the local payments document
  claim,    \* its refundClaim
  provider, \* the provider's payment: status, and who cancelled it
  stray,    \* keys of refund requests whose sender no longer waits
  refund    \* refund[w]: where worker w is in refundByOrderId, and its key

refundVars == <<payment, claim, provider, stray, refund>>

(* A worker's id stands for the token of its attempt, and for the key when *)
(* it is the one that mints it: a new attempt replaces the token or gives  *)
(* up, so no earlier token of a worker is confused with its current one.   *)
NoClaim == [status |-> "NONE", token |-> Nobody, key |-> Nobody, lease |-> "lapsed"]
Claim(status, token, key) ==
  [status |-> status, token |-> token, key |-> key, lease |-> "live"]

Idle == [pc |-> "idle", key |-> Nobody]
Finished == {"returned", "threw"}
Steps == {"idle", "readback", "recheck", "post", "complete",
          "completeAfterReadback", "uncertain"} \union Finished

(* While a CLAIMED claim's lease runs its owner is taken to be at work.    *)
ClaimTakenEvenLapsed == claim.status = "CLAIMED"
ClaimTaken == claim.status = "CLAIMED" /\ claim.lease = "live"

(* The key of a refund is minted once and survives every takeover.         *)
RefundKeyPerAttempt(w) == w
RefundKeyOfClaim(w) == claim.key
RefundKey(w) == IF claim.status = "NONE" THEN w ELSE claim.key

(* After a takeover, and for callers that ask for it, the provider's state *)
(* is read before anything is sent.                                        *)
FirstSteps ==
  IF claim.status = "NONE" THEN {"post", "readback"} ELSE {"readback"}

OwnsAnything(w) == TRUE
Owns(w) == claim.status # "NONE" /\ claim.token = w

Goto(w, step) == refund' = [refund EXCEPT ![w].pc = step]

AlreadyHandled(w) ==
  /\ payment # "PAID" \/ ClaimTaken
  /\ Goto(w, "returned")
  /\ UNCHANGED <<payment, claim, provider, stray>>

ClaimRefund(w) ==
  /\ payment = "PAID" /\ ~ClaimTaken
  /\ claim' = Claim(IF claim.status = "NONE" THEN "CLAIMED" ELSE "UNKNOWN", w, RefundKey(w))
  /\ \E step \in FirstSteps : refund' = [refund EXCEPT ![w] = [pc |-> step, key |-> RefundKey(w)]]
  /\ UNCHANGED <<payment, provider, stray>>

RefundByOrderId(w) == refund[w].pc = "idle" /\ (AlreadyHandled(w) \/ ClaimRefund(w))

(* What a worker does once the provider told it the payment's status; an   *)
(* error or a status that settles nothing is a failed readback.            *)
AfterReadback ==
  CASE provider.status = "CANCELLED" -> "completeAfterReadback"
    [] provider.status = "PAID" -> "recheck"
    [] OTHER -> "uncertain"

ReadProvider(w) ==
  /\ refund[w].pc = "readback"
  /\ Goto(w, AfterReadback)
  /\ UNCHANGED <<payment, claim, provider, stray>>

ReadbackFails(w) ==
  /\ refund[w].pc = "readback"
  /\ Goto(w, "uncertain")
  /\ UNCHANGED <<payment, claim, provider, stray>>

RecheckOwnership(w) ==
  /\ refund[w].pc = "recheck"
  /\ Goto(w, IF Owns(w) THEN "post" ELSE "returned")
  /\ UNCHANGED <<payment, claim, provider, stray>>

(* The provider executes a cancel request: it cancels a paid payment once  *)
(* and answers a repeated key like the first time.                         *)
Cancelled(key) ==
  IF provider.status = "PAID" THEN [status |-> "CANCELLED", by |-> key] ELSE provider
Accepts(key) == provider.status = "PAID" \/ provider.by = key

PostRefund(w) ==
  /\ refund[w].pc = "post"
  /\ Accepts(refund[w].key)
  /\ provider' = Cancelled(refund[w].key)
  /\ Goto(w, "complete")
  /\ UNCHANGED <<payment, claim, stray>>

(* The outcome of a failed request is unknown, whatever the error says.    *)
AfterFailedPostOptimistic == "complete"
AfterFailedPost == "uncertain"

(* The provider refuses, or the answer is lost, or the 15 seconds are over *)
(* and the request is still on its way: it may take effect later, or never.*)
PostFails(w) ==
  /\ refund[w].pc = "post"
  /\ stray' = stray \union {refund[w].key}
  /\ Goto(w, AfterFailedPost)
  /\ UNCHANGED <<payment, claim, provider>>

StrayRequestLands ==
  \E key \in stray :
    /\ provider' = Cancelled(key)
    /\ stray' = stray \ {key}
    /\ UNCHANGED <<payment, claim, refund>>

CompleteRefund(w) ==
  /\ refund[w].pc \in {"complete", "completeAfterReadback"}
  /\ payment' = IF Owns(w) THEN "CANCELLED" ELSE payment
  /\ claim' = IF Owns(w) THEN NoClaim ELSE claim
  /\ Goto(w, "returned")
  /\ UNCHANGED <<provider, stray>>

(* The transaction is refused by the database.                             *)
CompleteRefundFails(w) ==
  /\ refund[w].pc \in {"complete", "completeAfterReadback"}
  /\ Goto(w, IF refund[w].pc = "complete" THEN "uncertain" ELSE "threw")
  /\ UNCHANGED <<payment, claim, provider, stray>>

UncertainClaimReleased(w) == NoClaim
UncertainClaim(w) == Claim("UNKNOWN", w, claim.key)

PersistUncertainRefund(w) ==
  /\ refund[w].pc = "uncertain"
  /\ claim' = IF Owns(w) THEN UncertainClaim(w) ELSE claim
  /\ Goto(w, "threw")
  /\ UNCHANGED <<payment, provider, stray>>

PersistUncertainRefundFails(w) ==
  /\ refund[w].pc = "uncertain"
  /\ Goto(w, "threw")
  /\ UNCHANGED <<payment, claim, provider, stray>>

(* The caller has its result and may try again.                            *)
Return(w) ==
  /\ refund[w].pc \in Finished
  /\ refund' = [refund EXCEPT ![w] = Idle]
  /\ UNCHANGED <<payment, claim, provider, stray>>

Crash(w) ==
  /\ refund[w].pc \notin {"idle"} \union Finished
  /\ refund' = [refund EXCEPT ![w] = Idle]
  /\ UNCHANGED <<payment, claim, provider, stray>>

LeaseLapses ==
  /\ claim.lease = "live"
  /\ claim' = [claim EXCEPT !.lease = "lapsed"]
  /\ UNCHANGED <<payment, provider, stray, refund>>

RefundOnConsole ==
  /\ provider.status = "PAID"
  /\ provider' = Cancelled("operator")
  /\ UNCHANGED <<payment, claim, stray, refund>>

(* refundByOrderId after its first transaction. *)
RefundSteps(w) ==
  \/ ReadProvider(w) \/ ReadbackFails(w) \/ RecheckOwnership(w)
  \/ PostRefund(w) \/ PostFails(w)
  \/ CompleteRefund(w) \/ CompleteRefundFails(w)
  \/ PersistUncertainRefund(w) \/ PersistUncertainRefundFails(w)

Environment == StrayRequestLands \/ LeaseLapses \/ RefundOnConsole

Init ==
  /\ payment = "PAID" /\ claim = NoClaim
  /\ provider = [status |-> "PAID", by |-> Nobody]
  /\ stray = {}
  /\ refund = [w \in Workers |-> Idle]

Next ==
  \/ \E w \in Workers : RefundByOrderId(w) \/ RefundSteps(w) \/ Return(w) \/ Crash(w)
  \/ Environment

Spec == Init /\ [][Next]_refundVars

(* The assumption under which a refund gets done: somebody goes on trying  *)
(* (the order's cancellation is retried, the webhook redelivered), and an  *)
(* attempt of his that could run undisturbed from the claim to its end     *)
(* again and again, with the provider answering, eventually does.          *)
OwnedStep(w) ==
  Owns(w) /\ (ReadProvider(w) \/ RecheckOwnership(w) \/ PostRefund(w) \/ CompleteRefund(w))
Fairness ==
  /\ WF_refundVars(LeaseLapses)
  /\ \E w \in Workers :
       /\ SF_refundVars(RefundByOrderId(w))
       /\ SF_refundVars(OwnedStep(w) /\ refund[w].pc = "readback")
       /\ SF_refundVars(OwnedStep(w) /\ refund[w].pc = "recheck")
       /\ SF_refundVars(OwnedStep(w) /\ refund[w].pc = "post")
       /\ SF_refundVars(OwnedStep(w) /\ refund[w].pc \in {"complete", "completeAfterReadback"})
       /\ WF_refundVars(RefundSteps(w) \/ Return(w) \/ Crash(w))
FairSpec == Spec /\ Fairness
-------------------------------------------------------------------------------
(* The documents and the workers' steps keep their types, and a marker     *)
(* without a claim is empty.                                               *)
TypeOK ==
  /\ payment \in {"PAID", "CANCELLED"}
  /\ claim \in [status : {"NONE", "CLAIMED", "UNKNOWN"}, token : Workers \union {Nobody},
                key : Workers \union {Nobody}, lease : {"live", "lapsed"}]
  /\ claim.status = "NONE" => claim = NoClaim
  /\ claim.status # "NONE" => claim.key \in Workers
  /\ provider \in [status : {"PAID", "CANCELLED"},
                   by : Workers \union {Nobody, "operator"}]
  /\ stray \subseteq Workers
  /\ refund \in [Workers -> [pc : Steps, key : Workers \union {Nobody}]]

(* completeRefund runs after an accepted request or after a readback of    *)
(* CANCELLED.                                                              *)
RecordedRefundsHappened ==
  payment = "CANCELLED" => provider.status = "CANCELLED" /\ claim.status = "NONE"

(* However often an uncertain refund is taken over and repeated, all       *)
(* requests that are being sent, under way or executed carry one key, so   *)
(* that the provider treats them as a single refund (portone.client.ts     *)
(* asks for this).                                                         *)
KeysInUse ==
  stray \union ({provider.by} \intersect Workers)
    \union {refund[w].key : w \in {v \in Workers : refund[v].pc \in {"readback", "recheck", "post"}}}
    \union (IF claim.status = "NONE" THEN {} ELSE {claim.key})
OneRefundOperation == \A j, k \in KeysInUse : j = k

(* A worker about to send a refund, or uncertain about the one it sent, is *)
(* known to the books.                                                     *)
RequestsAreClaimed ==
  payment = "PAID" =>
    \/ claim.status # "NONE"
    \/ stray = {} /\ \A w \in Workers : refund[w].pc \in {"idle"} \union Finished

(* The books are honest both ways, however claims were taken over: they    *)
(* show a refund only if the provider returned the money and every claim on*)
(* it ended; and while the payment counts as PAID and a request is being   *)
(* sent, under way or in doubt, its document carries a claim, so that no   *)
(* crash lets a later attempt start a fresh refund beside it.              *)
BooksKnowOfRefunds == RecordedRefundsHappened /\ RequestsAreClaimed

(* The claims, leases and readbacks keep the promise of a refund.          *)
Contract == INSTANCE RefundContract WITH
  returnedBy <- IF provider.status = "PAID" THEN "nobody"
                ELSE IF provider.by = "operator" THEN "operator" ELSE "shop",
  books <- IF payment = "CANCELLED" THEN "recorded"
           ELSE IF claim.status = "NONE" THEN "open" ELSE "requested"
KeepsRefundContract == Contract!Spec

(* Crashes, lost answers and takeovers may delay a claimed refund; as long *)
(* as it is attempted again it is recorded in the end.                     *)
RefundIsRecorded == claim.status # "NONE" ~> payment = "CANCELLED"
===============================================================================
