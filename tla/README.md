# GreenHub: TLA+ models and proofs

GreenHub sells flowers by *sale rounds*: a store opens a round for some days, customers check
out and pay within it, the store buys what was ordered at the auction and delivers it to the
customers' addresses. The backend (`src/apps/api`, NestJS over Firestore) holds all state and
all rules; the three web applications call it. This directory models the part of the backend
where a wrong interleaving costs money or flowers, checks the models with TLC on small
instances, and proves the most important invariants with TLAPS for instances of every size.

Contents: [inventory](#inventory), [the modules and the code](#the-modules-and-the-code), [the
runs](#the-runs), [where code and documents disagree](#where-code-and-documents-disagree),
[bounds](#bounds), [fairness](#fairness), [the proofs](#the-proofs), [not
modelled](#not-modelled), [plan](#plan), [running it](#running-it).

## Inventory

Every handler reads and writes Firestore in transactions, which are serialisable and which
Firestore repeats when they conflict. What can interleave are whole transactions, queries
outside transactions, and the calls to the payment provider (PortOne) and the notification
provider (Aligo) that lie between them. There is no shared memory between requests. The API runs
on several instances, so every "only one at a time" is a claim in a document: an owner, a lease
that ends after minutes, and a check of the claim in each later transaction.

Paths below are relative to `src/apps/api/src`.

| Component | State | Operations | What makes it correct |
|---|---|---|---|
| **Round capacity** `orders/order-capacity.service.ts`, `round-order-create.service.ts` | `saleRounds` (limits, counters), `roundItems` and `optionStocks` counters, `reservations` | reserve at checkout, consume on payment, release on cancellation or time-out, acquire again for a late payment, adjust the held-order count | counters equal what the reservations add up to; no limit is exceeded; a reservation belongs to one order and never revives; the limits per customer |
| **Sale-round state machine** `sale-rounds/sale-round-state.*.ts` | status, close reason, cancellation of a round | manual transitions, automatic opening and closing by clock and capacity, completion, cancellation | no order enters a round that is not open; a finished round has nothing left to do |
| **Sale-round editing** `sale-rounds/sale-rounds.service.ts` | schedule, limits, items | create, edit while unused | what customers ordered from is never edited |
| **Round cancellation** `sale-round-state.service.ts` `cancel` | the round's cancellation with owner and lease | check deliveries, claim, cancel and refund orders one by one, finalise, record failure, take over | a takeover leaves no order unfinished, refunds nothing delivered, and comes to an end |
| **Round-order lifecycle** `orders/round-order-lifecycle.service.ts`, `order-cancellation-state.ts` | order status, cancellation, delivery hold | deliver, hold, resume; cancel with refund, in five transactions and two calls | what is delivered is paid; what is cancelled is refunded or being refunded |
| **Payment finalisation** `payments/payment-finalization.service.ts` | payment, order, the direct refund's claim | finalise, settle a cancelled order, refund a mismatch or a late payment, time out | books and provider agree; one late payment is settled one way |
| **Payment intake** `payments/payments.service.ts` | none of its own | webhook, customer's check, clean-up job, all of which look up and finalise or time out | every PENDING order ends; a repeated, late or early notification changes nothing |
| **Payment refund** `payments/payment-refund.service.ts` | the payment's `refundClaim` | claim, read back, refund, complete, record uncertainty, take over | the money goes back once, under one key, and the books say so only if it did |
| **PortOne client** `payments/portone.client.ts` | none | look up, cancel | a time-out does not mean that nothing happened |
| **Option stocks** `option-stocks/` | stock, reserved, ordered | restock, set the remainder | never less than what is reserved and ordered |
| **Redelivery charges** `payments/order-charge-payment.service.ts`, `orders/order-charges.service.ts`, `orders/redelivery-resume-gate.ts` | charge, its payment and claim, the order's delivery hold | hold a delivery at the customer's expense, create the charge, book its payment (webhook, job, customer's check), close an unpaid charge, refund | a delivery resumes only on the paid fee of its own hold; only a cancelled order's fee goes back; a paid fee is booked |
| **Post-delivery refund** `orders/post-delivery-refund.service.ts`, `admin/admin-post-delivery-refund.service.ts` | the order's `postDeliveryRefund`, its cancellation | refund by the seller (before the payout) or the admin (also after it), repeat after a failure, join an older cancellation | refunded once; delivered goods are not put on sale again; a started refund ends |
| **Settlements** `settlements/` | settlement per order, issue about a reversal | create, confirm after seven days, pay out, cancel or mark for recovery, hold | no payout of money that is returned or disputed; what was refunded reaches the settlement |
| **Notifications** `notifications/` | delivery record with claim and last outcome | send once per idempotency key | sent twice only if a sender was silent past its lease; an answer is not overwritten |
| **Job lease, scheduled jobs** `common/job-lease.ts`, `scheduled-jobs/`, `ops-alerts/` | holder, lease and last completed slot per job | acquire, complete, release, abandon | a slot runs again if its holder died or its work failed (not so the morning digest), and not after it was completed |
| **Sessions** `auth/auth.service.ts`, `refresh-sessions.ts` | refresh sessions of a user and the list of active ones | log in, refresh with a grace period, log out, revoke all | an ended session gives no token; tabs of one browser raise no alarm |
| **Shop without rounds** `orders/orders-*.service.ts`, `payments/_lib/legacy-daily-capacity.ts`, `orders/_lib/legacy-group-quantity.ts`, `notifications.service.ts` (group buying) | a day's used slots, a group's quantity, the product's decision and its lease | check out, pay (also late), time out, deliver, cancel as customer, seller or admin; decide a group purchase early or at its deadline | counters equal what the orders take; an order whose money was returned is stopped |
| **The rest** | catalogue, invitations, photos, payout accounts, engagement, reviews, retention, other operation issues, market prices, AI texts, administration, guards, web applications, shared packages, scripts | single-document writes, reads, calls and presentation | no interplay to model |

How they interact. A checkout is one transaction over order, reservation and counters. The
provider's webhook, the customer's check or the clean-up job finds the payment and finalises the
order, which consumes the reservation. The seller's and the driver's `updateStatus` moves the
order on to delivery. A customer, the seller or a round's cancellation cancels an order: it
marks the order, refunds, and then gives capacity back. Finalisation refunds too, when the order
was cancelled first, the amount is wrong, or a late payment finds no room. The settlement is
created at delivery and cancelled with the order.

What is hard: a payment that arrives after its hold expired, after its order was cancelled,
twice, or with a lost answer; two refunds of one payment; a process that dies between provider
and books; a worker that goes on after its lease ended; a delivery that starts between the steps
of a cancellation; a payout decided from a list read before the order was refunded; a fee paid
while its order is being cancelled; tabs that refresh the same token; counters kept by
increments in ten handlers. `PROJECT.json` lists these hazards with the line where each bites
and the properties that would notice.

## The modules and the code

| Module | Models | Code |
|---|---|---|
| `SaleRoundState` | the rules that depend only on round and clock | `sale-round-state.contract.ts` |
| `LimitedSale` | what a sale of limited goods promises, abstractly | - |
| `Quantities` | sums of quantities over finite sets of reservations | - |
| `OrderCapacity` | one round with its items, stocks, orders and reservations; implements `LimitedSale` | `order-capacity.service.ts`, `sale-round-state.service.ts`, `sale-rounds.service.ts`, `option-stocks.service.ts`, `round-order-lifecycle.service.ts` |
| `RefundContract` | what a refund promises, abstractly | - |
| `PaymentRefund` | the refund of one payment by several workers; implements `RefundContract` | `payment-refund.service.ts` |
| `OrderPayment` | one order and its money; extends `PaymentRefund` | `payment-finalization.service.ts`, `payments.service.ts`, `round-order-lifecycle.service.ts` |
| `SaleRoundCancellation` | the cancellation of a round against other cancellations, payments and deliveries | `sale-round-state.service.ts`, `round-order-lifecycle.service.ts` |
| `Redelivery` | the redelivery fee of one order; implements `RefundContract` | `order-charge-payment.service.ts`, `order-charges.service.ts`, `redelivery-resume-gate.ts`, `round-order-lifecycle.service.ts` |
| `Settlement` | settlement, payout and refund of one delivered order | `settlements.service.ts`, `post-delivery-refund.service.ts`, `operations.service.ts` |
| `RefundedSale` | the refunds of one order with the refund of its payment inside; extends `PaymentRefund`, implements `Settlement` | `post-delivery-refund.service.ts`, `round-order-lifecycle.service.ts`, `payments.service.ts` |
| `JobLease` | a daily job on several instances | `job-lease.ts` and the jobs that call it |
| `NotificationDelivery` | one notification under its idempotency key | `notifications.service.ts` |
| `RefreshSessions` | the refresh sessions of one user and the browsers that hold them | `auth.service.ts`, `refresh-sessions.ts` |
| `LegacyShop` | orders of one day, or of one group purchase, of the shop without rounds | `orders-create.service.ts`, `orders-lifecycle.service.ts`, `legacy-daily-capacity.ts`, `legacy-group-quantity.ts`, `notifications.service.ts` |
| `QuantityTheorems`, `OrderCapacityProofs`, `ClaimProofs`, `OrderPaymentProofs`, `SaleRoundCancellationProofs`, `RedeliveryProofs`, `SettlementProofs`, `LegacyShopProofs` | theorems and proofs | - |
| `MCOrderCapacity`, `MCOrderPayment`, `MCSaleRoundCancellation`, `MCRedelivery` | constants of one module for TLC | - |
| `MCClaimsAndLeases` | `PaymentRefund`, `RefundedSale`, `JobLease`, `NotificationDelivery`, `RefreshSessions` and `LegacyShop` side by side | - |
| `MCOrderAndFees` | `OrderPayment` and then `Redelivery` | - |
| `MCRoundAndSettlement` | `SaleRoundCancellation` and `Settlement` side by side | - |

`MCClaimsAndLeases` and `MCRoundAndSettlement` put several specifications into one run: the initial
state picks one (`focus`) and only that one moves, so the state spaces add up and do not
multiply. `MCOrderAndFees` runs the payment of an order first (`phase`); once the
order is accepted and nothing is under way any more (`AcceptedAndQuiet`), its delivery with the
redelivery fees begins.

In all of them a transaction is one action, with everything it reads and writes; between two
transactions of a handler, and around each provider call, other actions may come. An exception
inside a transaction is a step without effect. Some definitions appear twice, the first time
with a fault in its name (`FencedByNobody` before `Fenced`): these are plausible bugs that no
specification uses. Putting one in the place of the definition below it must break a property,
which shows that the property depends on the code; `PROJECT.json` lists which breaks which.

### OrderCapacity and LimitedSale

Documents: `round` (status, close reason, cancellation), `limit`, `reserved` and `ordered` for
the four kinds of resources (delivery addresses, items of the round, each item, each option
stock), `heldOrderCount`, `reservation[r]`, `order[o]`. A checkout's reservation is named by the
client's request id alone, as in `reservationId`, so two customers may meet in one document; a
late payment's reservation is named by its order. `Lines` gives what an order asks for and
`Demand` what it takes of every resource, `MoveReservation` is the code's
`moveReservationInTransaction`, which all handlers share.

Time is the position of the clock against the ordering window (`window`) and whether a hold has
passed its expiry (`lapsed`). A round's cancellation is only its claim, its failure and its end
here, and a single order's cancellation is its last transaction: any order may be cancelled at
any time its status allows, which includes all that the code's lease and progress marks permit
(`SaleRoundCancellation` and `OrderPayment` have those). Round orders are always delivered
directly. The code's branch for a reservation the same customer already has is unreachable,
because reservation and order are written in one transaction and an order that exists is
returned without a write; another customer's request id is refused (`ReservationAvailable`). The
redelivery fee of a hold is paid in one step (`PayRedeliveryFee`); `Redelivery` has the details.

`LimitedSale` says what all of this is for. It knows neither counters nor reservations, request
ids or the clock: there is an offer, every buyer has one share, and a share is given only if it
fits beside all shares given out, which it adds up anew each time (`Taken`). A share held may be
bought, expire or be returned, a bought one only be returned, an expired one be bought after all
if it still fits; what is on offer changes only to what covers the shares given out, and that of
round and items only before the sale has begun; a sale is over once no share waits for its
payment. `OrderCapacity` implements it (`SellsWithinLimits`) with the shares read off the order
documents (`ShareOf`) and the phase off the round's status (`SalePhase`): counters that are
moved by increments, reservations that two customers may name alike, holds that lapse and late
payments add up to nothing more than that. In particular nothing is sold twice or beyond a
limit, and neither a share nor an edit slips in after the round is over.

### PaymentRefund and RefundContract

`refund[w]` is where worker `w` is in `refundByOrderId`: claim, read back, check that the claim
is still its own, post, complete, or record uncertainty. The provider may refuse, may carry the
request out and lose the answer, and may carry it out after the sender gave up (`stray`). A
worker's id stands for its token and, when it mints one, the provider idempotency key. An
operator may refund on the provider's console. Leases of claims may lapse while the owner is
still at work. The refinement maps the claim to `requested` and the recorded payment to
`recorded`; `KeepsRefundContract` is checked and proved.

### OrderPayment

Adds to the above the order, the second kind of refund (`finalRefund`, a claim in the order
document without idempotency key), the webhook, and what each worker does outside
`refundByOrderId` (`job[w]`). Finalisers are runs of the webhook, the customer's check and the
clean-up job; cancellers run `RoundOrderLifecycleService.cancel`. `ACCEPTED` stands for
`ACCEPTED` and `PREPARING`. Whether a late order finds room is a free choice (`OrderCapacity`
models it). The provider repeats its notification until it is answered without an error, which
is what PortOne does and what `handleWebhook` relies on. A refund on the provider's console is
left out here. `refundOrder` in `payments.service.ts` has no controller that calls it and is not
modelled.

### SaleRoundCancellation

`work[w]` is the step of a request: an administrator's `cancel` with the orders it still has
before it, or a customer's or seller's cancellation of one order. `claim` has the owner and
whether the lease still runs. Each transaction on an order first asserts the claim on the round
(`Fenced`), the refund in between does not. The refund itself is abstracted to what
`refundByOrderId` may do: it succeeds, leaves the payment to another attempt, or fails with or
without effect (a failing refund of a redelivery fee is one of the latter). `OPEN` and `CLOSED`
stand for the statuses from which a round may be cancelled. A payment booked after a
cancellation had begun is `LATE`: the finaliser that booked it refunds it or marks the order
`REFUND_FAILED`. Requests with an `expectedStatus` that no longer holds, and customers' requests
after the ordering window, are refused without a write and left out. A Firestore error in the
round's own transactions is not distinguished from a crash.

### Redelivery

`parcel` is the order with its `deliveryHold`; a hold is known by its number where the code
compares `heldAt`. `charge`, `feeClaim` and `fee` are the charge's document, its `refundClaim`
and what PortOne did with the money. Finalisers are runs of the webhook's handler, of the job
that asks for pending charges every minute, and of the customer's check; `ParcelCancellers` run
the order's cancellation, which returns the payment first and the charge after it. The seller
holds, resumes and dispatches at any time (`UpdateStatus`). The charge is refunded by the same
scheme as the payment (`RefundCharge`: claim, read back, check, post, complete or record
uncertainty, with takeover); `KeepsFeeRefundContract` maps it to `RefundContract` as
`PaymentRefund` does. Its single idempotency key, which `PaymentRefund` shows at the payment,
and the issue that a second hold opens for the operators are left out. The refund of the order's
own payment is one step (`RefundMainPayment`).

### Settlement

One order from its delivery on: `Deliver` and `Review` each start a creation of the settlement,
which may come late. The daily job lists the settlements that are due and confirms them one by
one in later transactions (`ListDueSettlements`, `ConfirmListed`); the admin pays
(`MarkAsPaid`). `Refunders` run the refund after delivery for the seller, who may not refund
once he was paid, or for the admin, who may; `SaleCancellers` run an ordinary cancellation that
began before the delivery and joins what it finds (`JoinCancellation`). All of them end in
`CancelSaleSettlement`, the transaction of its own that cancels the settlement or marks it for
recovery. `OwnCancellationWebhook` is PortOne's report of the shop's own refund,
`ReversalWebhook` that of a dispute or a cancellation on the console; either may open the issue
that holds payouts until it is resolved. The refunds of payment and fee are abstracted to what
others can see of them (`RefundUnderWay`: the payment becomes claimed or returned, the fee
returned, at any time while a run is at its refund), the seller's time window to a free choice;
amounts and fees are left out.

### RefundedSale

That abstraction is checked and proved here: the same order with `PaymentRefund` in the place of
`RefundUnderWay`. A run at its refund is a worker of `refundByOrderId` (`ReturnPayment`), goes
on to the fee when that returned (`ReturnFee`), and learns only whether the calls threw
(`EndRefund`), so that it may find a payment another worker is still refunding. Requests that
land late, leases that lapse and a refund on the console come at any time. `Settlement` is
instantiated with what the order's side tells apart of the payment document (`PaymentSeen`), and
its actions are used as they are, except for PortOne's report of the shop's own refund:
`Settlement` supposes that the payment is claimed by then, here the report comes as soon as the
provider has returned the money. `KeepsSettlement` says that the composition implements
`Settlement`.

### JobLease

A job that each instance starts once a day and one of them is to do. What the job does is one
step, and a run whose lease ended is not stopped: it does its work all the same and only loses
its say (`StillHolds`). `worked`, `alerted` and the runs' `late` are kept for the properties. The
document remembers only the last day that was completed, which `CompletedDaysStayDone` shows to
be enough.

The jobs differ in what a failure means, and `job`, chosen at the start, says which one it is.
The purges of records and inquiries and the ingest of market prices (`"purge"`) release the lease
without completing the day, so that it is repeated. The morning digest (`"digest"`) catches the
error, sends the operator an alert that it failed, and completes the day all the same
(`ops-digest.service.ts:107-119`; `ops-digest.service.spec.ts:57` tests it). So of a completed day
of the digest `CompletedDaysStayDone` says only that the digest or that alert was handed to
`OpsAlertService.send`. Whether it arrived nobody knows: `send` never throws and its answer is
not looked at. A run that cannot reach the lease's document does nothing; the digest then sends
the alert without a lease, which is not among `alerted`.

### NotificationDelivery

`sendToUser` under an idempotency key: claim the delivery document, send, record the outcome,
finish. The provider accepts or rejects the message or leaves the sender without an answer; each
of the two transactions may be refused; the sender may die. `blind` remembers that a lease ended
before its sender had recorded an outcome, the only case in which a second message may go out.

### RefreshSessions

`sessions` and `active` are the two documents of one user, written together. Each login has a
browser whose tabs share a cookie; `asking` and `answers` hold the tokens in requests and
answers under way, which pass each other and may be repeated or lost. A login over the limit
evicts any of the others, where the code takes those used least recently. `AccessExpires` stands
for the hour until a tab has to refresh again, in which requests end, answers arrive or are lost
and asked for again, and the minute of grace passes.

That the two documents agree (`EndedSessionsStayEnded`) is said of these operations. When an
admin suspends a user, `admin.service.ts:361-379` deletes the tokens alone and leaves the list; the
access check then refuses by `sessionsRevokedAt`. This writer is not modelled.

### LegacyShop

The orders of one day, or of one group purchase. A refund is shortened to claiming, posting and
its two ends (`TakeRefund`, `RefundDone`, `RefundThrows`), with `refundByOrderId`'s silent
return beside another live claim (`RefundReturnsAtOnce`). `PREPARING` stands for itself and
`DELIVERY_HELD`, `DELIVERING` also for `HUB_ARRIVED`, `DELIVERED` also for `PICKED_UP` and
`REVIEWED`. A payment's webhook is followed as first notice, or as the repetition after its
handler died between booking and refunding; the direct refund of a late payment is one step.
Cancellers act for the customer, the seller or the admin, with a claim in the order. A
`groupRun` decides the purchase under the product's lease: it confirms, or refunds for lack
order by order without a claim in the order and only then cancels them.

## The runs

| Run | Instance | Shows |
|---|---|---|
| `capacity` | `MCOrderCapacity`: 3 orders of 2 customers, 2 sharing a request id; limits of 1 to 5; one item, one option stock | types; counters equal reservations; `LimitedSale` is implemented, so that nothing is oversold; held-order count; ownership; limits per customer; the round's status fits its orders (an editable one is unused, a finished one has nothing left to do); reservations move forward and none enters a cancelled round |
| `refund` | `MCClaimsAndLeases`: 2 workers, instances or senders; 2 days; 2 messages; 3 devices, 2 sessions, 2 tokens each; 2 orders for 1 and 2 units of a day of 2, or one order of a group purchase; one order with a refund after delivery and a cancellation | types of the five specifications; the books know of every refund and show no other; one key per refund; `RefundContract` is implemented; a claimed refund is recorded in the end. Inside the refunds of an order it moves order and settlement only as `Settlement` says. Completed days stay done; the job gets done. A message is repeated only after a silent sender; answers stay. Ended sessions stay ended; honest tabs raise no alarm. The shop's counters match its orders; what was refunded is stopped |
| `cancel_race` | `MCOrderPayment`: a finaliser and a canceller, both may crash, right or wrong amount | deliveries are paid; money of cancelled orders is accounted for |
| `pending_ends` | `MCOrderAndFees`: 2 finalisers, one crashes, right or wrong amount; then 2 holds, a finaliser and a canceller of the fee, a payment webhook that may be given up | books and provider agree; no order stays PENDING. An unpaid fee is the current hold's; deliveries are funded; only unwanted fees go back; the fee's refund implements `RefundContract`; paid fees are booked |
| `round_with_cancellers` | `MCSaleRoundCancellation`: 1 order, 2 administrators, 1 canceller, late payment, holds | a cancelled round keeps nobody's money; deliveries keep theirs |
| `round_ends` | `MCRoundAndSettlement`: 1 order, 2 administrators, one of them faulty, late payment; or 1 delivered order, one run of the refund, one cancellation | a cancellation that was begun ends, and nothing in the cancelled round waits for a retry. Payouts are for kept money; refunds reach the settlement; sellers' refunds need no recovery; delivered goods are not restocked; a started refund ends |

The remaining runs are expected to find a violation; they are the subject of the next section.
The state spaces have about 98,000 (`round_ends`) to 815,000 (`round_with_cancellers`) distinct
states.

Larger instances have been explored once and hold; they are not runs because they take minutes:
`refund`'s safety with three workers (70,000 states), `cancel_race` with two finalisers beside
the canceller (6.8 million), `round_ends`' round with two orders (254,000), the group purchase
of one order with two cancellers (1.3 million) and of two orders with one (16.7 million).

## Where code and documents disagree

Each has a run that ends in a counterexample; `PROJECT.json` quotes the documents.

- `customer_limit`: a lapsed hold no longer counts against the limit per customer, but its
  payment is still accepted without a new check. A customer who lets a hold lapse, makes another
  and pays both before the clean-up job comes has more than the limit.
- `completed_round`: `complete` does not look at a cancellation in progress and
  `finalizeCancellation` not at the status, so that a completed round may become a cancelled
  one.
- `reverted_cancellation`: `REFUND_FAILED` counts as a cancellation in progress
  (`order-cancellation-state.ts:17`) but not for finalisation, which accepts a PENDING order
  whose cancellation has begun and whose refund failed.
- `late_both_ways`: after a late payment found no room, its refund is claimed in a second
  transaction that does not look at the order; if another delivery of the webhook accepts the
  order in between, the accepted order is refunded.
- `partial_cancellation`: orders in delivery are looked for before the claim and not again. One
  that is dispatched right after the check stops the cancellation only after the orders before
  it were refunded, the partial cancellation the check is there to prevent. The order in
  delivery itself keeps its money (`DeliveredOrdersKeepTheirMoney`), and the cancellation goes
  on once it has arrived (`CancellationEnds`).
- `fee_kept`: a cancellation whose process dies after the payment was returned is resumed with
  its local part alone (`round-order-lifecycle.service.ts:350`), so the order's cancellation is
  completed while its redelivery fee stays paid, which `order-charge-payment.service.ts:416-420`
  says does not happen. The refund after delivery does return the fee on resumption
  (`RefundsReachTheBooks`).

The shop without rounds has five more, which `LegacyShop` contains; its properties are stated so
that they leave them out, and no run is spent on them:

- A group order that times out, or is cancelled for lack, never gives its quantity back,
  although `legacy-group-quantity.ts:3-6` says that a cancelled order does.
  `LegacyCountersMatchOrders` counts such orders.
- The run that gives a group purchase up refunds without marking the orders. If one of the
  refunds fails and the group then reaches its minimum, the refunded orders are confirmed and
  delivered, which `docs/specs/api/orders.md` (8A-2) excludes for cancellations.
  `LegacyRefundsStopOrders` leaves those refunds out.
- `refundByOrderId` returns without an error while another attempt holds the claim. A customer's
  cancellation that meets the refund for lack is completed, and that refund may still fail; the
  same document (8A) says there is no false CANCELLED. The claim on the payment remains, which
  is what the property asks for.
- A group order that is paid after its purchase was decided stays RECRUITING, for nobody decides
  again.
- A canceller that lost its claim on an order that timed out unpaid goes on to refund the
  order's late payment even after that was accepted. The property leaves orders that timed out
  aside.

One more behaviour is in the model but contradicts no document: a second delivery of a late
payment's webhook that meets the claim of the first is answered, which ends the redelivery; if
the first one's refund then fails, nobody repeats it. The operations runbook (line 199) says
that such refunds may not converge by themselves and leaves them to a person.

## Bounds

- *Orders, customers, items.* Conflicts over capacity need two orders and one resource with room
  for one; the takeover of a reservation under another customer's request id needs a second
  customer; a hold that lapses beside another one of the same customer needs two orders of one
  customer. `capacity` has the three orders that make all of these possible, one of which takes
  two units of the item so that the limit is met by one order and by two. `RoundLimits` offers
  limits below, at and above what the orders ask for, and the seller may switch between them.
  `StockBound` bounds restocking at two cards; with three the stock could not run out.
  `MaxHolds` is one there, so that the second hold is at the limit.
- *Workers.* Claims, leases and takeovers concern an owner and one other. A third worker adds
  nothing to a claim that names one token, and the safety properties of all these claims are
  proved for every number of workers.
- *Orders of a round's cancellation.* The loop over the orders needs two
  (`partial_cancellation`); each order's own interplay with other requests needs one, and the
  proof covers any number.
- *Holds.* Two (`Redelivery`'s `MaxHolds`), so that a charge may belong to an earlier hold than
  the order's.
- *Days, messages, sessions.* `LastDay` is two: a run may come back a day late; the last day
  stands for all that follow. `MaxMessages` is two, one repetition. Three logins with room for
  two sessions evict one; `MaxToken` is two, so that the token before and the one after a
  rotation meet, and the proof has any number.
- *The shop.* Two orders for one and two units compete for a day of two. With a second request
  at work only one order has been created, and a group purchase has one order (`ShopBound`): two
  orders share counters alone, and an order's claim needs two requests.
- *The refund inside an order's refunds.* One run of the refund after delivery and one of the
  cancellation are both the payment's workers. Settlements, payouts, reviews and reversals,
  which leave the payment alone, are explored as long as no refund began (`SaleBound`);
  `round_ends` has them in every order, and the refinement is proved without the bound.
- *Counters of attempts.* There are none: every step that may be repeated may be repeated for
  ever, and the state spaces are finite without bounds on time.
- The constants `Faulty`, `Crashing`, `LatePayers`, `Holdable` and `Droppable` say who may fail,
  which orders may pay late or be held, and which webhooks may be given up. They restrict a run
  to a question; in `refund`, `cancel_race` and `round_with_cancellers` everybody may fail.
- Deadlock is checked except where the system may stop: when an order is cancelled or delivered
  and its money settled, a round is finished and the window is over, all sessions have ended, or
  a message was answered.

## Fairness

Six liveness properties are checked, each under what the code's scheduling gives and no more. In
a run that composes specifications, fairness is asked of the one that is picked
(`ClaimsFairness`, `EndFairness`) or whose phase lasts (`PhaseFairness`); notifications,
sessions and the shop have none.

- `RetriedRefundIsRecorded`: somebody keeps trying, because cancellations are retried and webhooks
  redelivered; leases end with time; a provider call that could succeed again and again does
  some time. Strong fairness is asked of the steps that need the claim, because a takeover can
  disable them in between.
- `LastDayIsCompleted`: the scheduler calls the job on some instance that stays up, every day,
  of which the last stands for all later ones; leases end, runs end, and work that could be done
  and reported within its lease time after time is.
- `PendingOrdersEnd`: the clean-up job runs every minute, PortOne repeats its notification, and
  at least one finaliser stays up. Nothing is assumed of the one that crashes. With a canceller
  besides, which may start over and fail for ever, the property is not claimed.
- `PaidFeesAreBooked`: the job asks for pending charges every minute, every worker ends or dies,
  and a booking that can be made again and again is made. The webhook may be given up
  (`Droppable`); only for a charge that a failed attempt had closed does the property depend on
  it.
- `CancellationEnds`: the runbook (line 135) has the administrator send the request again when
  the cancellation stopped or its lease ended, and not while one is running; the fairness says
  so. The other administrator owes nothing. Orders on their way arrive. A request that is not in
  `Faulty` renews its claim in time. The completion of the round in the middle counts as an end
  (see `completed_round`).
- `StartedRefundsEnd`: seller or admin repeat a refund that stopped, as the screen asks them to,
  and an attempt that could succeed again and again does.

## The proofs

TLAPS proves these for every value of the constants that satisfies the assumptions named in the
modules. Each module has one inductive invariant per specification, lemmas that show what a kind
of step does, and one step of the proof per action.

**`QuantityTheorems`** has the facts about sums over finite sets that the ledgers need: a
quantity is a natural number, the sum over a set with one member more, `QuantityOfChange`, which
says how a sum changes when one reservation or order enters or leaves the set, and, to compare
sums over different documents, that sums over disjoint sets add up (`QuantityOfUnion`) and do not
depend on what the members are called (`QuantityOfRenamed`).

**`OrderCapacityProofs`** (assumptions `ConstantsAssumption`, `RequestAssumption`: customer and
request id identify an order, as the order id is their hash).

- `TypeCorrectness` and `Ownership`: types and `OrdersOwnTheirReservations` are proved as one
  inductive invariant, because what a handler moves is the reservation its order names, and what
  it moves by is the demand of the order that the reservation names: each needs the other to be
  what it should.
- `Ledger`: each transaction's effect on reservations and counters is one of three moves
  (`BecomeIsMove`, `AcquisitionIsMove`, `SettlementIsMove`), a move changes the sums by the
  demand it adds to the counters (`LedgerOfMove`, by `QuantityOfChange`), and the other steps
  move nothing.
- `NothingOversold`: from the ledger and the checks on acquisition; edits of limits need that
  nothing is reserved or ordered in an editable round.
- `ReservationsOnlyMoveForward`: all steps but a checkout's and a late payment's only let
  reservations age (`OthersAge`); those two write a document nobody used before.
- `LimitsPerCustomer`: reservations that age only leave the sums a limit bounds
  (`AgingKeepsLimits`), although those sums change with time and not only with a transaction; a
  checkout is admitted within the limits (`CheckoutKeepsLimits`), a late payment's reservation is
  not among those counted, and a limit is edited only while nobody has bought anything
  (`EditKeepsLimits`).
- `HeldOrders`: `HeldOrdersCounted` is inductive together with the fact that a redelivery fee
  belongs to an order on hold or back in preparation.
- `RoundStatusIsRight`: an editable round is unused by an induction of its own (`NextEditable`);
  a finished one has no hold by `Ownership` and no held order by `HeldOrders`.
- `Sells`: the refinement of `LimitedSale`. What the abstract shop adds up over orders is what
  the counters say (`TakenIsCounted`), because by `Ownership` following a reservation to its
  order is a bijection from the reservations that are held or consumed to the orders that have a
  share (`HoldersOwnReservations`) and by `Ledger` the counters are the sums over the former.
  With that each handler is a step of the shop: a checkout or a late payment gives
  (`AcquisitionGives`), a payment, time-out or cancellation settles (`SettlementSettles`), edits
  and restocking are new offers that by `NothingOversold` cover what was given (`EditsOffer`),
  the clock and the seller begin (`RefreshBegins`) and completion and cancellation finish
  (`EndFinishes`); deliveries, fees and lapsing holds change nothing (`DeliveryLeavesSale`).

**`ClaimProofs`** has four claims that end by themselves, and the order around the first.

- *The refund* (`WorkersAssumption`). `RefundInv` joins types with the path of a worker: an
  unclaimed payment is untouched, a worker that records a refund saw it returned, who may send
  has a key, recorded refunds happened, and all keys in use are the same. The last is inductive
  because keys are only moved and dropped after the first claim (`FewerKeys`), and only the
  first claim, before which there are none, mints one. Theorems: `RefundTypes`, `HonestBooks`,
  `SingleOperation`, and `ContractKept`: initial states map to initial states of
  `RefundContract`, and every step to one of its steps or to none.
- *The refund inside the refunds of its order* (`RefundersAssumption`). The payment's side makes
  only steps of `PaymentRefund` (`SaleStepRefunds`, `RefundedSaleRefunds`), so `RefundInv` holds
  of it. A worker is in the refund only while its run is (`RefundsHaveRuns`), and a claimed
  payment never looks untouched again nor a returned one paid (`PaymentMoves`); hence each step
  is one of `Settlement` or changes nothing it sees (`SaleStepSettles`). Theorems:
  `RefundedSaleSettles`, and `OwnRefundsAreExpected`: an unclaimed payment has met no worker, so
  the provider never reports a refund of the shop's that the books do not know of.
- *The job* (`JobAssumption`). `JobInv`: a run within its lease is the holder, and a holder
  works on a day that is not completed; a run that reports has done its work, and one of the
  digest that failed has said so (`ReportsAreTrue`). From these `OneTimelyRun` and
  `CompletedDaysAreFinal`:
  remembering only the last day is enough because nobody whose day is over still holds.
- *The notification* (`NotificationAssumption`). `NotificationInv`: the owner of a delivery
  knows the outcome it is about to record, and has sent at most once since it claimed.
  `RepeatsNeedSilence`, `AnswersAreFinal`.
- *The sessions* (`SessionAssumption`). `SessionInv`: every token a tab holds or asks with is
  either the session's, with all tabs settled on it, or the one before it while the grace period
  lasts (`TabsFollow`). `NoFalseAlarm`, `SessionsEndForGood`.

**`OrderPaymentProofs`** (`WorkersAssumption`, `RolesAssumption`). `OrderInv` says of the
documents that a payment leaves evidence that is never lost (`Evidence`: a booking, a claim, or
a notice that will come again), and that an order nobody marked has money nobody touches
(`UnmarkedIsQuiet`); and of each worker that its step fits the documents (`StepFits`,
`RefundFits`, `ServesFits`). Most steps move one worker and leave the documents, or mark the
order and move on; `QuietGo`, `QuietEnd`, `MarkGo` and `MarkThrow` deal with those. Theorems:
`OrderInvariant`, `OrderTypeCorrectness`, `HonestOrderBooks`, `PaidDeliveries`,
`NoMoneyForgotten`.

**`SaleRoundCancellationProofs`** (`CancellationAssumption`). That a request which lost the
round's claim does no harm rests on the mark on the order. `CancellationInv` says: a request
past its claim on an order finds the order marked (`WorkIsMarked`); money follows the order
(`MoneyFollows`: an order under way is paid unless marked, one on its way is paid and unmarked,
a cancelled one keeps no payment but a late one); a cancelled round has no order under way. The
actions are first shown to be moves of one order, of the round and of one request (`OrderMoves`,
`RoundMoves`, `WorkMoves`), and only the moves are shown to keep the invariant. Theorems:
`CancellationInvariant`, `TypeCorrectness`, `DeliveredAreNotRefunded`,
`CancelledRoundsAreSettled`, and, when there are no cancellers, `CancelledRoundsAreClosed`: in a
cancelled round nobody owns a claim any more, so no administrator's request marks an order
(`RoundClosed`). A canceller's own mark may be left in a cancelled round, to be finished by
repeating the request.

**`RedeliveryProofs`** (`RedeliveryAssumption`). The mark on the order again: as long as it is
not cancelled or being cancelled, no refund has begun and all money is there
(`UnmarkedIsUntouched`), and every worker beyond a look-up has seen the mark. The invariant also
shows that no charge is ever booked as unneeded, because an order cannot leave a hold whose
charge is unpaid; the code's branch for it is never taken. Theorems: `RedeliveryTypes`,
`PayableFeesAreCurrent`, `DeliveriesAreFunded`, `OnlyCancelledOrdersReturnFees`, and
`FeeContractKept`, the refinement of `RefundContract`.

**`SettlementProofs`** (`SettlementAssumption`). Payout and refund meet in the order document:
while the order is not marked, its money is all there and nobody is on his way to return it
(`MoneyMovesBehindTheMark`), and a payout asks for an unmarked order. Who closes the settlement
finds the order cancelled (`ClosersComeLast`). Theorems: `PayoutsAreSafe`, `BooksFollowRefunds`,
`NoRecoveryFromSellers`, `DeliveredGoodsStaySold`, and `OwnRefundsAreQuiet`, which supposes that
the provider's report finds the payment claimed; `OwnRefundsAreExpected` shows that it does.

**`LegacyShopProofs`** (`LegacyAssumption`). Each action on an order is a move: the order's
record and its money change, and each counter changes by the difference of what the two records
weigh (`SlotWeight`, `GroupWeight`). Moves keep the counters right (`CountersFollow`, by
`QuantityOfChange`). For the money, `OrderFits` relates the order's record to its payment,
`Keeps` says what a step on an order leaves to those who work on it (a begun order stays begun,
a stopped one stopped, a refund that was made stays made), and the callers' invariant follows
from it: what a caller is about to cancel was refunded. Theorems: `ShopInvariant`,
`LegacyCounters`, `LegacyRefunds`.

**The compositions.** What is proved of a component is proved of its own specification; three
runs check compositions. `ClaimsRunEachComponent` (in `LegacyShopProofs`), `PhasesRunBoth` (in
`OrderPaymentProofs`) and `EndsRunBoth` (in `SettlementProofs`) show that every behaviour of a
composition is one of each specification in it, so that each theorem holds of the run whose
property it states; `ClaimsRunSettles` adds that the run which picks an order's refunds is one
of `RefundedSale`. `ClaimsTypes` joins the types of the five specifications of
`MCClaimsAndLeases` in the same way.

Only model-checked are the six liveness properties, which need fairness and so ENABLED; every
other property that a run checks and that holds is a theorem. The types of `OrderPayment`,
`Redelivery`, `Settlement` and `SaleRoundCancellation`, `NoOversell` of `OrderCapacity` (which
the refinement of `LimitedSale` contains) and `OwnRefundsRaiseNoAlarm` of `Settlement` (which its
refinement by `RefundedSale` makes a matter of claims) are theorems and no properties of a run.

## Not modelled

- Parts of modelled handlers that no property here depends on: driver scope, delivery photos,
  notices to customers and their recipients, amounts, fees and lists. They forbid more or write
  documents that nobody modelled reads.
- Of notifications: templates, the provider's formats, the fall-back to SMS and `resendSms`. Of
  sessions: login itself, hashes and sealing, Firebase's sessions, and the suspension of a user
  by an admin, which deletes the sessions' document alone. Of the payment's intake: a refund
  entry point that no controller calls.
- Operation issues are modelled where they hold a payout. The others are records for operators,
  whose retries call the operations modelled.
- Of the shop without rounds: its redelivery fees, deliveries by hub, reviews.
- Catalogue, accounts and invitations, payout accounts, engagement, reviews, retention,
  administration and read models are single-document writes or reads. Market prices and AI texts
  are calls and formatting.
- Guards, web applications, shared packages, end-to-end suites and scripts hold no state the API
  relies on. They are most of the repository's lines, which is why the modelled lines are a
  small share of the whole: the state and the rules are in a few services of the API.

## Plan

Done: what is sold (`SaleRoundState`, `OrderCapacity`), what is given back (`RefundContract`,
`PaymentRefund`), what is paid for (`OrderPayment`), how a round ends (`SaleRoundCancellation`),
what comes after a failed delivery (`Redelivery`) and after a successful one (`Settlement`), the
claims that end by themselves (`JobLease`, `NotificationDelivery`, `RefreshSessions`), the shop
without rounds (`LegacyShop`); proofs of all the safety properties that the runs check; two abstract
specifications, of selling (`LimitedSale`) and of giving back (`RefundContract`), that the
detailed ones are proved to implement; and `Settlement`, proved to be implemented with the real
refund inside (`RefundedSale`).

Left, in this order: a composition of `LegacyShop` with `PaymentRefund` in place of the
shortened refund, and of `RefundedSale` with `Redelivery`'s refund of the fee; group buying's
notices under their claim; suspension of a user against refreshes under way.

## Running it

`tlc -config X.cfg MCModule` for a run and `tlapm Module.tla` for a module with proofs;
`PROJECT.json` lists which configuration belongs to which module, which source lines each
definition models, which fault breaks which property, and which theorems are proved.
