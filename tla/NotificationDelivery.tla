-------------------------- MODULE NotificationDelivery --------------------------
(***************************************************************************)
(* One notification of one event, NotificationsService.sendToUser with an  *)
(* idempotency key.  Webhooks, jobs and retried requests send it at once;  *)
(* they meet in its delivery document, whose lease ends by itself, while   *)
(* the message itself goes through a provider that may accept it, reject   *)
(* it, or leave the sender in the dark.                                    *)
(***************************************************************************)
EXTENDS Naturals

CONSTANTS
  Senders,     \* calls of sendToUser with this key
  MaxMessages  \* bound: how often the provider accepts the message

ASSUME NotificationAssumption == "nobody" \notin Senders /\ MaxMessages \in Nat \ {0, 1}

VARIABLES
  delivery,  \* the document: status, leaseId, its expiry and lastOutcome
  messages,  \* how many messages the provider accepted
  sender,    \* sender[s]: where s is in sendToUser, and the outcome it saw
  blind      \* whether a lease ended before its sender recorded an outcome

notificationVars == <<delivery, messages, sender, blind>>

NoDelivery == [status |-> "none", leaseId |-> "nobody", lease |-> "lapsed", outcome |-> "none"]
Processing(s) == [status |-> "PROCESSING", leaseId |-> s, lease |-> "live", outcome |-> "none"]
Away == [pc |-> "away", outcome |-> "none"]

LiveLease == delivery.status = "PROCESSING" /\ delivery.lease = "live"

AnsweredByStatus == delivery.status \in {"SENT", "NEEDS_VERIFY"}
Answered == delivery.status \in {"SENT", "NEEDS_VERIFY"} \/ delivery.outcome \in {"ACCEPTED", "UNKNOWN"}

ClaimNotificationDelivery(s) ==
  /\ sender[s].pc = "away"
  /\ ~Answered /\ ~LiveLease
  /\ delivery' = Processing(s)
  /\ sender' = [sender EXCEPT ![s].pc = "send"]
  /\ UNCHANGED <<messages, blind>>

Observe(s, outcome) == sender' = [sender EXCEPT ![s] = [pc |-> "record", outcome |-> outcome]]

(* After a timeout or an unreadable answer nobody knows whether the        *)
(* provider took the message.                                              *)
SendAlimtalk(s) ==
  /\ sender[s].pc = "send"
  /\ \/ /\ messages < MaxMessages
        /\ \E outcome \in {"ACCEPTED", "UNKNOWN"} : Observe(s, outcome)
        /\ messages' = messages + 1
     \/ /\ \E outcome \in {"REJECTED", "UNKNOWN"} : Observe(s, outcome)
        /\ UNCHANGED messages
  /\ UNCHANGED <<delivery, blind>>

(* There is no phone number, or the documents cannot be read. *)
CannotSend(s) ==
  /\ sender[s].pc = "send"
  /\ sender' = [sender EXCEPT ![s] = [pc |-> "finish", outcome |-> "REJECTED"]]
  /\ UNCHANGED <<delivery, messages, blind>>

OwnsAnyDelivery(s) == delivery.status = "PROCESSING"
OwnsDelivery(s) == delivery.status = "PROCESSING" /\ delivery.leaseId = s

RecordDeliveryAttempt(s) ==
  /\ sender[s].pc = "record"
  /\ delivery' \in {delivery, IF OwnsDelivery(s) THEN [delivery EXCEPT !.outcome = sender[s].outcome]
                              ELSE delivery}  \* the transaction may be refused
  /\ sender' = [sender EXCEPT ![s].pc = "finish"]
  /\ UNCHANGED <<messages, blind>>

SentUnlessRejected(outcome) == IF outcome = "REJECTED" THEN "FAILED" ELSE "SENT"
FinalStatus(outcome) ==
  CASE outcome = "ACCEPTED" -> "SENT"
    [] outcome = "UNKNOWN" -> "NEEDS_VERIFY"
    [] outcome = "REJECTED" -> "FAILED"

StatusOnly(s) == [delivery EXCEPT !.status = FinalStatus(sender[s].outcome)]
FinishedBy(s) ==
  [delivery EXCEPT !.status = FinalStatus(sender[s].outcome), !.outcome = sender[s].outcome]

FinishNotificationDelivery(s) ==
  /\ sender[s].pc = "finish"
  /\ delivery' \in {delivery, IF OwnsDelivery(s) THEN FinishedBy(s) ELSE delivery}
  /\ sender' = [sender EXCEPT ![s] = Away]
  /\ UNCHANGED <<messages, blind>>

SenderDies(s) ==
  /\ sender[s].pc # "away"
  /\ sender' = [sender EXCEPT ![s] = Away]
  /\ UNCHANGED <<delivery, messages, blind>>

DeliveryLeaseLapses ==
  /\ LiveLease
  /\ delivery' = [delivery EXCEPT !.lease = "lapsed"]
  /\ blind' = IF delivery.outcome = "none" THEN "yes" ELSE blind
  /\ UNCHANGED <<messages, sender>>
-------------------------------------------------------------------------------
NotificationInit ==
  /\ delivery = NoDelivery /\ messages = 0 /\ blind = "no"
  /\ sender = [s \in Senders |-> Away]

SendToUser(s) ==
  \/ ClaimNotificationDelivery(s) \/ SendAlimtalk(s) \/ CannotSend(s)
  \/ RecordDeliveryAttempt(s) \/ FinishNotificationDelivery(s) \/ SenderDies(s)

NotificationNext == (\E s \in Senders : SendToUser(s)) \/ DeliveryLeaseLapses

NotificationSpec == NotificationInit /\ [][NotificationNext]_notificationVars
-------------------------------------------------------------------------------
(* The document and the senders keep their types, and a delivery that is   *)
(* finished shows the outcome it was finished with.                        *)
NotificationTypeOK ==
  /\ delivery \in [status : {"none", "PROCESSING", "SENT", "NEEDS_VERIFY", "FAILED"},
                   leaseId : Senders \union {"nobody"}, lease : {"live", "lapsed"},
                   outcome : {"none", "ACCEPTED", "UNKNOWN", "REJECTED"}]
  /\ messages \in 0..MaxMessages /\ blind \in {"no", "yes"}
  /\ sender \in [Senders -> [pc : {"away", "send", "record", "finish"},
                             outcome : {"none", "ACCEPTED", "UNKNOWN", "REJECTED"}]]
  /\ \A outcome \in {"ACCEPTED", "UNKNOWN", "REJECTED"} :
       delivery.status = FinalStatus(outcome) => delivery.outcome = outcome

(* The customer gets the message twice only if some sender stayed silent   *)
(* for longer than its lease: known and doubtful outcomes are not retried, *)
(* not even when the sender died before it finished the delivery.          *)
RepeatsNeedASilentSender == messages > 1 => blind = "yes"

(* An answer in the books is true and stays: what they call sent was       *)
(* accepted by the provider (what nobody knows is left to be verified), and*)
(* a sender that comes back after its lease was taken over neither         *)
(* overwrites an answer nor opens the delivery again.                      *)
AnswersStay ==
  [][/\ delivery'.status = "SENT" \/ delivery'.outcome = "ACCEPTED" => messages' > 0
     /\ delivery.outcome \in {"ACCEPTED", "UNKNOWN"} => delivery'.outcome = delivery.outcome
     /\ delivery.status \in {"SENT", "NEEDS_VERIFY"} => delivery'.status = delivery.status
    ]_notificationVars
===============================================================================
