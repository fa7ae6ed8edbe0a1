# A TLA+ verification of dombi's order core

dombi is a Laravel application that takes orders for the outlets of a food
producer: customers order online, pay through the DOKU gateway, an outlet
prepares the goods, and they are collected or brought by a courier. This
directory models the parts of it where concurrent actors share state that must
not go wrong (stock, order status, delivery rows, payments, refunds,
settlements, messages, and the pages that act on them), checks the models with
TLC and proves their main invariants with TLAPS.

Paths are relative to the repository, which the project maps as `src/`: `app/`
is `src/app/`, `js/` is `src/resources/js/`.

## 1. Inventory

| Component | State | Operations | What must hold |
|---|---|---|---|
| Outlet inventory (`InventoryService`) | `outlet_inventories.current_stock`, `reserved_stock`, `products.center_stock`, `stock_movements` | reserve, release, complete, adjust, opname, restock, set centre stock | no figure negative, reservations within the shelf, movements explain figures |
| Order state machine (`OrderStatusService`, `OrderService`) | `orders.status`, `payment_status`, histories | create, transition with its side effects, reject, cancel, complete a pickup, complete from a payment, expire | transitions follow the graph, stock moves with the status, ended orders stay ended |
| Delivery (`DeliveryService`) | the one `deliveries` row of an order, `delivery_resolution_logs` | assign, reject, pick up, start, complete, fail, return, confirm the return, retry, return to preparation, cancel | row and order agree, no courier for an unpaid or dead order |
| Scheduled commands (`app/Console/Commands`) | none of their own, a run in progress | expire pending orders, resolve stale orders in five parts, confirm returns | what nobody acts on ends and frees its stock |
| Payment transitions (`CanonicalPaymentTransitionService`, projections) | `payment_attempts`, `orders.payment_status`, `fulfilment_claimed_*`, refund obligations | apply a normalised gateway event, claim or refund, project | an order is paid once, every surplus payment is owed back |
| DOKU client (`DokuService`, `ReconcileDokuPayment`) | `payment_attempts.creation_state`, `expires_at` | create a payment, reconcile an unknown one, expire it | a timed-out creation is neither lost nor doubled |
| Webhook ingress (`DokuWebhookIngressService`) | `payment_webhook_logs` with a claim of five minutes | log, claim, hand to the transition, finish, make retryable | nothing is acknowledged before it is recorded; a lost request is taken over |
| Payment outbox (`PaymentOutboxEvent`, `DispatchPaymentOutboxEvent`) | rows with a claim and a consumer claim | emit, claim, take, renew, deliver, complete, fail, retry | told at least once, by one worker at a time, never again once noted |
| Refunds (`RefundService`, `RefundObligationService`) | `refund_obligations`, the refund columns of `orders` | destination, start, reject, roll back, complete, review, recover | money goes back once, to the account the transfer began with |
| Restock, returns, exchanges | `restock_requests`, `return_requests` with items, `exchange_requests`, stock | request, approve, ship, receive, decide about an item, complete, cancel | no unit made or lost; nothing stuck on the way |
| Payment pages (`payment.tsx`, `confirm.tsx`, `doku-checkout.ts`) | React state of two pages, the overlay, requests in flight | submit, pay, retry, poll, give up, leave | a page that says it waits is asking; a result is never covered |
| Order and transfer pages | none that outlives a render | buttons | whoever is offered a step may take it; somebody is offered one |
| Favourites (`use-favorites.ts`, `FavoriteController`) | one store in the browser, the guest's copy, the rows | sign in and out, load, merge, toggle | what is shown is what the account holds |
| Inventory reconciliation (`InventoryReconcile`) | none, rewrites the stock figures | compute expected figures, `--fix` | a fix repairs |
| Offline sales (`OfflineSaleController`) | `offline_sales`, outlet stock | record, correct, delete | what orders have reserved stays; every sale is billed in its week |
| Settlements (`SettlementGeneratorService`, `SettlementPaymentService`) | `settlements`, `settlement_payments`, `settlement_payment_allocations`, `settlement_reconciliation_issues` | generate, sync adjustments, backfill; submit, verify one or several, reject, record | money is allocated once, oldest first, the right way; what is paid for stands |
| Checkout form, notifications, courier records, the other pages | forms, messages, statistics | | not part of the shared-state core |

**Interaction.** Controllers, the gateway's webhook, the queue and the scheduler
call services. A service method that touches an order opens a database
transaction, locks the outlet row (`Outlet::lockForSettlement`), then the order
row, then reads everything it decides on; it calls the other services inside
that transaction. `OrderStatusService::transition` is the hub: it calls
`InventoryService` (stock), closes the delivery row, asks `RefundService` for a
refund and records the sale with the settlement. `DeliveryService` and
`CanonicalPaymentTransitionService` call it. A payment event commits the
attempt, the order, an obligation and an outbox row together; a queued job tells
the listener afterwards. The exceptions to the pattern are where the trouble is:
writes of `orders.status` that do not go through `transition`
(`rejectAssignment`, `handleRetryDelivery`), the stalled-delivery part of
`orders:resolve-stale`, which holds no transaction over its two writes,
`persistCreationOutcome`, which releases stock without a status change, and
`ReturnService`, whose operations judge the model the route bound before their
transaction began.

**Hard behaviours.** Several kinds of actors interleave on one order; commands
select outside the lock and act later; the gateway repeats and reorders its
messages; a release of stock is owed or not depending on the path that led to a
status; one delivery row per order outlives its courier; claims run out under
workers that are still alive; browsers handle answers of requests that were sent
before the customer did something else. `PROJECT.json` lists them at their lines
under `hazards`.

## 2. Plan

Written, in this order:

1. `OutletInventory` - the stock figures on their own, with arbitrary callers.
2. `OrderLifecycle` - extends it with the callers the program has: the state
   machine, deliveries, scheduler and what the gateway may do to an order.
3. `CanonicalPayment` - the payment attempts of an order: creation with its
   unknown outcome, webhook and status sync in any order, verification, claim,
   refund obligation, projection. It shares `OrderStatusGraph`, the table of
   statuses and moves, with `OrderLifecycle`.
4. `PaymentPages` - the two pages on which a customer pays.
5. `OrderPages` - the buttons of the order pages over `OrderLifecycle`.
6. `Favorites` - the favourites' store against its server.
7. `StockTransfers`, `TransferPages` - restocks, returns and exchanges over
   `OutletInventory`, and the buttons that move them on.
8. `ReportedPayment` - the abstract promise about a success report; `Failures`,
   `WebhookIngress` and `PaymentOutbox`, composed in `PaymentMessaging`, which
   implements it.
9. `Refunds` - the refund's own state over `CanonicalPayment`.
10. `Settlements` - the weekly bills between owner and outlet, with the counter
   sales as further callers of the stock.
11. Proof modules for those that have theorems (section 5).

Left:

- `InventoryReconciliation` - `inventory:reconcile --fix` between other writers
  of stock: what it computes before it locks and what it writes after.

## 3. The modules

Operators marked `Mutant` are variants of the definition that follows them with
a plausible slip in it; nothing refers to them. They document what each
property is sensitive to (`mutants` in `PROJECT.json`).

### OutletInventory

One outlet's figures for each product, the centre's stock, and the sum of the
movements that `InventoryReconcile` counts (`journal`). `held[o][p]` is what the
movements that reference order `o` add to the reserved figure, so it can be
compared with the figure and with what the order lists; `sold` is the set of
orders with `order_completed` movements, which is what `completeOrderStock`
looks at before it deducts.

An operation is one step: each runs in one transaction behind the outlet or the
inventory row lock, and one that throws is a step that is not enabled. `Qty[o][p]`
stands for the order's lines, several lines of one product added up. Rows are
assumed to exist (`reserveStock` and `adjustStock` create an empty one).

| Operator | Code |
|---|---|
| `Reserve`, `CanReserve` | `reserveStock`: all lines or an exception |
| `Release`, `Releasable` | `releaseReservedStock`, with the clamp of a release that finds too little |
| `Consume`, `Sell`, `CanConsume` | `completeOrderStock`: skipped when already sold, otherwise checked and deducted |
| `AdjustStock`, `StockOpname`, `RestockOutlet`, `UpdateCenterStock` | the methods of these names |

The module has no run of its own: `OrderLifecycle`, `StockTransfers` and
`Settlements` extend it.

### OrderLifecycle

Adds status, payment status, the orders a refund was ever asked for, delivery
row, courier, return status, resolution log, progress of the stalled-delivery
command, the orders that ever failed and the number of refused payment
creations. `Transition(o, to, row)` is
`OrderStatusService::transition` with everything `handleSideEffects` does: guards
on graph, fulfilment type and payment; stock; refund request; closing of the
delivery row that the caller left at `row`. Every caller is an action of its own.
The stalled-delivery command is three steps, `SelectStalled`,
`FailStalledDelivery` and `FailStalledOrder`, and `StopCommand` is the process
ending in between. `FailStalledDelivery` has, like the code, no look at the
row's status.

What the gateway does is reduced to its effect on the order: an order is queued
by its first verified success, completed by a success that finds it confirmed,
preparing or ready (claim and `completeFromPayment`), and has its payment status
written by four more steps that nothing else follows:

| Action | Code |
|---|---|
| `PaymentOnDeadOrder` | a success for a dead order: the projection says paid, the sync and the manual command write `refund_pending` over it |
| `PaymentLapses` | the payment is taken back: the failed answer to an old inquiry overwrites a paid settlement (`reconcilePaymentAttempt`), or `OrderController::pay` resets the status without a lock after its remote call |
| `PaymentProjected` | `OrderPaymentProjectionService::recompute` after any event on another attempt |
| `RefundMoves` | `start`, `reject`, `rollback`, `complete` and a corrected destination, which do not look at the order's status |

They may come at any time, also in the kitchen and on the road; the attempts
and answers that have to come together for it are in `CanonicalPayment`
(`InquiryFailed`, `PayResets`) and `Refunds`. The payment status has four values:
`pending` for null, pending, failed or expired of an order that was never paid,
`lapsed` for the same written over `paid`, `paid`, and `refund_pending` for every
status of a refund; no guard of an order's step tells more apart.
`PaymentCreationRefused` releases the reservation
without asking for the status, as `persistCreationOutcome` does; whether
`createPayment` began on a still unpaid order is not kept, so the step may come
at any time after the order was placed, at most `MaxRefusals` times.

Whether a courier is active, online, or the one assigned is a refusal of the
call and not state: the call is simply not made. Cash, proof images, reasons,
histories and notifications are left out. Other writers of outlet stock
(offline sales, transfers, reconciliation fixes, products added with an initial
stock) are not callers in this model; `StaffStock` gives the figures the freedom
to move in between, and `StockTransfers` has the transfers with free orders.

### OrderPages

Which buttons the pages of courier, outlet, owner and customer offer, as
predicates over the state of `OrderLifecycle`, and which of its actions the
request behind a button is. A page shows what its last visit or poll returned
and keeps no state a button depends on; how old that answer is, is not modelled,
since the server checks again. The properties say that the conditions in
TypeScript and the guards in PHP, written twice, have not drifted apart. Two
things the pages do not ask for are named: the payment, which a step's guard
reads again (`NeedsOnlyPage`), and the provider of a `delivery_ojol` order, whose
courier no page can assign (`AwaitsProvider`).

### CanonicalPayment

One order and up to `MaxAttempts` payment attempts, which are numbered in the
order they are made (`attempt_number`). Where `OrderLifecycle` reduces payments
to what they do to an order, this module has the rows, the requests and the
gateway, and reduces the rest of the system to the moves of the order along
`OrderStatusGraph` (`OrderMoves`, `OrderJumps`).

| Operator | Code |
|---|---|
| `apply`, `Fulfil`, `ClaimOrRefund`, `Projected` | `CanonicalPaymentTransitionService::apply` and `claimOrRefund`, `OrderPaymentProjectionService::recompute`, in one transaction |
| `Webhook` | `handleNormalizedWebhook` |
| `SyncStatus`, in `PollStatus` and `PaySyncs` | `syncStatusFromDoku` from the gateway's answer on |
| `PreparePayment`, `StartCall`, `ExpireLease`, `Call...` | `preparePaymentAttempt`, `createPayment`, `persistCreationOutcome` |
| `ClaimInquiry`, `AnswerInquiry`, `Inquiry...` | `reconcileUnknownAttempt`: claim, request, result, in three transactions |
| `ExpireUnknown` | `expireUnknownAttemptIfDue` |
| `PaySyncs`, `PaySyncUnanswered`, `PayResets` | `OrderController::pay`, whose write of the payment status is a step of its own |
| `Die` | `transition` to a dead status with `RefundService::request` |
| `GatewayOpens`, `GatewayDecides` | the gateway (external): `said[a]` is everything it decided on an attempt |

Points where model and code need a word:

- No transaction spans a request to the gateway, so a request, its answer and
  what is written of it are separate steps, and anything may come in between. A
  request can arrive after its caller gave up (`call = "late"`).
- A webhook repeats anything the gateway ever decided, in any order. A sync
  answers with anything decided up to the answer, because the answer may be old
  by the time it is written; a 404 is read as `UNKNOWN`. An event that is older
  than the last one applied is ignored by the code; as the model lets every
  event be ignored or applied, it keeps no times.
- `matches` is the check of amount and currency that leads to `verified`.
  `payment_status` null and `pending` are one value, and the code never tells
  them apart.
- `PreparePayment` has no guard on the order: `pay` looks at the order before
  its requests and `preparePaymentAttempt` locks it later without a second look
  at the status.
- Deadlines, leases and intervals are not clocks: an attempt that has a deadline
  (`dated`) may reach it any time, a lease may lapse any time, and an attempt may
  be asked after again at once.
- `reviewed`, `regressed` and `unpaid` are history: they record that an attempt
  was settled without being verified, that a paid settlement was overwritten,
  and that `pay` reset the status of a paid order. Properties name these as
  their exceptions, so that they say what holds in spite of them.
- Left out: the older paths `handleWebhook`, `markOrderPaid` and
  `processPaymentStatusChange`, which the canonical service replaced; the
  reservation (`OrderLifecycle` has it); who may call `pay`; a dead order that
  resolving its failed row makes ready again.

### Refunds

Extends `CanonicalPayment` with what becomes of an obligation once it is owed:
its own state, its destination, the order's mark of the destination
(`refund_destination_status`), and a count of the transfers the owner made
(`sent`). Every operation of `RefundService` locks the outlet and the order, so
it is one step; it also writes `orders.payment_status`, which payment events go
on writing. `PaymentStep` is a step of the payments together with
`createForAttempt` for whatever it leaves owed.

| Operator | Code |
|---|---|
| `AllowedTransitions`, `Transition` | `RefundObligationService::transition`, which answers false to a step its table lacks; `rejected` and `refused` are its one `rejected` with and without a way back |
| `canonicalObligation` | the method of that name: of the reason in `orders.refund_reason`, which only `request()` writes |
| `submitDestination`, `start`, `reject`, `rollback`, `complete` | the methods of `RefundService` |
| `Recovery` | `PaymentRecoveryController`, on any obligation |
| `can_...`, `CardOffersDestination`, `TabOffers` | `RefundPayloadService` and the two pages that render it |

Left out: orders of before the obligations, for which every method has a second
branch; `startAndComplete` and `legacyRepair`, which nothing calls from a page.

### PaymentPages

One customer, one order, the payment page of the checkout and the confirmation
page. A request is an element of `Calls` or `Polls` with the page that sent it
(`kind`), whether that page is still mounted (`live`) and its answer; nothing
aborts a fetch, so an answer is handled after its page is gone, and answers
overtake one another. `openDokuCheckout` appends the overlay to the body, so it
is neither page's; `stray` records that its opener was gone by then. Actions are
named after the handlers (`submit`, `RetryPayment` for `handleRetryPayment`,
`handlePay`), effects after what they do. The server side is what
`CheckoutController::submit`, `OrderController::pay` and `paymentStatus` answer;
why a payment settles is `CanonicalPayment`. `lastUrl` and `overlay` hold the
number of the attempt a URL belongs to. React runs an answer and the effects it
leads to without anything in between, so they are one step.

### Favorites

The store of `use-favorites.ts`, which outlives the pages, the guest's copy in
the browser's storage, and the rows of the server. A run of `doInit` for an
account is an element of `Loads`, a click one of `Toggles`; both have their steps
at the server (`findFavorite` and then `deleteFavorite` or `createFavorite`,
which are two statements without a lock) and their handling in the store as it
is by then. Everybody may sign in or out at any time, here or in another tab
(`SessionChange`), and the page learns of it with a visit (`Mount`) or a partial
reload (`PropsChange`). `MCFavorites` adds the history variable `disturbed`.

### StockTransfers and TransferPages

Restock requests, returns and exchanges over `OutletInventory` with all its
other steps. A restock operation and the shipping, receiving and completing of
an exchange read their row again under a lock: one step each. The operations of
a return, and the review of an exchange, judge the model that the route bound:
`BindReturn` and `BindExchange` are the check, and the step of the operation's
name is the write, any time later and whatever has become of the row. A handler
is a request between the two. `overwritten` is history: some request wrote over
a row that was no longer what it saw. `TransferPages` has the conditions of the
buttons that move a document on, as `OrderPages` does for orders.

### PaymentMessaging and ReportedPayment

One success report of the gateway. `WebhookIngress` is
`DokuWebhookIngressService::receive` for several requests that carry the same
report: logged, claimed for five minutes, applied, finished by the request whose
token the log still carries. `PaymentOutbox` is one row of
`payment_outbox_events`: the job of `DispatchPaymentOutboxEvent` is a program
counter (`job[j].at`) over its statements, each of them one conditional UPDATE,
and time passes in `Tick`, which no job outlives by its timeout. `Failures` is
shared by both: an exception or a lost process at any statement. In
`PaymentMessaging` the transition that records the payment also emits the row.
The listener is external: being called is all that is known of it.

`ReportedPayment` is the abstract specification: what is acknowledged is
recorded, the outlet is told at least once and only of what is recorded, never
again once that is noted, and both happen in the end. `PaymentMessaging`
implements it with `told <- effects` and `noted <- consumer.status = "completed"`.

### Settlements

The weekly settlements of one outlet over `OutletInventory`. `books[w]`, `sales`
and `credit[w]` are the sources of week `w`: the completed orders with the
outlet's share and the costs, the counter sales, and the adjustments of
exchanges. `settlement[w]` is the weekly row, whose `bill` is a snapshot of the
sources; `payment` and `alloc` are the payments and what they put where;
`issue[w]` is an open reconciliation issue.

| Operator | Code |
|---|---|
| `Source`, `Recalculated`, `HasFinancialActivity` | `buildSourceSnapshot`, `Settlement::recalculateStatus`, `hasFinancialActivity` |
| `Generate`, `Sync` | `generateForOutletLocked`, `syncAdjustmentsLocked`, with the issue that `recordReconciliationIssue` opens or resolves |
| `CompleteOrder`, `CompleteFromPayment`, `Backfill` | an order's completion with and without the generator, `settlement:backfill` |
| `RecordSale`, `EditSale`, `DeleteSale` | `OfflineSaleController` |
| `CompleteExchange`, `CompleteReturn`, `Charge` | what exchanges, returns, couriers and refunds do to the figures of a week |
| `Unpaid`, `Path`, `FifoShare`, `Allocate` | the selection and allocation in `SettlementPaymentService` |
| `SubmitPayment`, `RecordPayment`, `RecordPayout` | the outlet's and the owner's payment controllers |
| `VerifyPayment`, `BulkVerify`, `RejectPayment` | the methods of `SettlementPaymentService` |

The handlers that write a settlement or a payment take
`Outlet::lockForSettlement` first, so each is one step, and `Generate` reads the
sources as the step leaves them, as the code does at the end of its transaction.

- Amounts are whole numbers; the code computes with floats of two decimals and
  compares snapshots exactly, which whole amounts do without rounding.
- The statuses generated, due today, overdue and partial are one, `open`: they
  differ by date and by a part paid, and no operation here asks which it is.
- The set of orders stands for the sales and delivery fee totals of a snapshot:
  two snapshots differ when the sets or the sums kept beside them do.
- The FIFO loop is written without a loop: what the older settlements take first
  is a total (`Before`), and a settlement's share is the rest, up to what it is
  owed. Settlements are ordered by their week, the code's `period_start`.
- A payment without a settlement (`NoWeek`) is one that was kept while an issue
  was in the way, or a payout.
- `dropped` is history: the last comparison of a week was a sync's, which saw an
  agreeing credit and not the figures that differed.
- Left out: orders that leave `completed` again (`RetryDelivery` of
  `OrderLifecycle`), `SettlementPaymentService::recordPayment` and
  `SettlementGeneratorService::backfill`, which nothing calls, the ledger
  `outlet_payables` but for the exchange adjustments (nothing else of it reaches
  a settlement), and everything that only reads.

## 4. Model checking

| Run | Instance | States | Shows |
|---|---|---|---|
| `order_lifecycle` | a delivery and a pickup order for the same product, one courier, one retry, a refused creation or a lapsed payment of at most one order at a time | 628,259 | the safety and action properties of orders, deliveries, stock and the pages' buttons |
| `order_liveness` | one delivery order, two retries, one refused creation, payments that lapse | 89,859 | every order settles under the scheduler's fairness |
| `canonical_payment` | two attempts, one reconciliation, a gateway that says success or failed, an order that is confirmed, prepared, handed over or cancelled | 562,525 | the money of an order is kept and owed back as it should be |
| `refunds` | one attempt, one reconciliation, every outcome and every move of the order, two accounts, the scheduler's fairness | 626,022 | money goes back once, refunds can move, an unknown creation gets an outcome |
| `payment_pages` | two attempts, two requests and one poll in flight | 264,293 | a page that waits is watching, and learns that it was paid |
| `favorites` | two products, two loads and one toggle in flight | 607,544 | the shown favourites are the account's |
| `transfers` | one product, one order, one restock, one return with its exchange, two requests under way | 864,360 | goods are neither made nor lost and always have a next step |
| `messaging` | two requests, two jobs, one failure | 347,750 | the webhook and the outbox implement `ReportedPayment` |
| `settlements` | two weeks, two payments of 1 or 3, one product, one order worth 3 to the outlet, two counter sales | 204,230 | bills, payments and allocations agree, and what is paid for stands |
| the other three | `FindingX.cfg` | small | each finds a statement of the repository violated, see section 6 |

Properties of `order_lifecycle`:

- `StockSound`: reservations stay within the shelf under all interleavings.
- `ReservationExact`: an order without a failed delivery, a resolution or a
  refused payment creation holds its lines exactly while its status says so.
  The exception in it is another order's double release, which takes units out
  of this one's share of the reserved figure.
- `NeverOversold`: without such trouble the shelf covers all open orders; the sum
  over them is the `Total` of `OutletInventory` (section 5).
- `DeliveryAgrees`: status and row tell the same story.
- `PaidBeforeDispatch`: no task of a courier for an order that was never paid
  for, is not queued yet or is dead. The payment may have been taken back since;
  a refund is under way on the road only for an order that a retry revived.
- `SoldMatchesCompleted`: goods are sold for exactly the completed orders.
- `OffersStand`: nobody is offered a step the server refuses for anything but a
  payment that was taken back, and goods that are gone.
- `SomebodyCanAct`: no paid order is left without a button that takes it further.
  The order that waits for a provider's courier is excepted; the run has no such
  order, the theorem has.
- `EndedStaysEnded`: an ended order is only reopened through a failed row.

Properties of `canonical_payment`:

- `WorkIsPaidFor`: an order past the customer's part has an attempt whose success
  the gateway reported with the right amount.
- `KeepsAPayment`: an order in the works does not owe back all its payments.
- `SurplusIsOwed`: at most one payment besides the claimant's is neither owed
  back nor was held for review. (The one left is the payment that queued the
  order; it is never recorded as the claimant.)
- `DeadOwesAll`: an ended order has as many obligations as it got payments.
- `ProjectionAgrees`: the payment status of a living order is `paid` exactly
  while an attempt bought it.
- `OpenedOnce`: no second request opens an attempt at the gateway.

The exceptions they name are what the code does. A late failed answer or the
deadline may overwrite a settlement that is already paid (`regressed`), `pay` may
write `pending` over `paid` (`unpaid`), and a duplicate that is owed back may
still claim a confirmed order when its success is repeated (the `claimant` in
`KeepsAPayment`).

Properties of `refunds`: `MoneyReturnsOnce` (`sent` counts transfers, whatever is
rolled back, reviewed and recovered in between), `TransferTargetStands` (the
account does not change under a transfer), `RefundCanMove` (service and pages
agree on a next step), and `UnknownResolves` of `CanonicalPayment`, which has
here every outcome and every move of the order.

Properties of `payment_pages`: `WaitingIsWatched`, `OverlayMeansPending`, and the
liveness property `PaidIsNoticed`. They speak about the pages' own word: a page
that gave up polling says so, and is excepted.

Properties of `favorites`: `CalmViewIsAccount` and `PromiseIsLive`. The first
excepts what the store cannot know: a session that changed elsewhere, a lost
answer, two requests in flight at once. Without each of these exceptions TLC
shows a divergence that the next load repairs.

Properties of `transfers`: `TransferKeepsUnits` (both shelves, what is under way
and what was thrown away add up before and after each step of a document),
`JournalMatchesStock`, `ExchangeFollowsReturn`, `GoodsCanMove`. All but the
journal end with the first request that overwrites what it did not see; section
6 says what then happens.

Properties of `messaging`: `OneDeliversAtATime`, `RepeatsNeedFailures`, and
`ImplementsReportedPayment`, liveness included.

Properties of `settlements`:

- `MoneySound`, an invariant of five named parts. `VerifiedIsAllocated` and
  `PaidIsAllocated`: the two sums of the allocations, by payment and by
  settlement, are the figures the rows carry. `NeverOvercollected`: no settlement
  takes more than it is owed, and none that has money on it shrinks.
  `PaysItsDirection`, `TargetStands`: owner and outlet may owe each other at the
  same time and a week's balance may turn; money that was sent does not end up on
  the other side of it.
- `OfflineIsBilled`: a counter sale, corrected or deleted in whatever week, shows
  in the bill of its own week or in an issue about it.
- `OldestFirst`, `BillStands`: action properties about what a payment pays first,
  and about what may no longer change once money is on its way.

`order_lifecycle`, `refunds`, `transfers` and `settlements` check their type
invariant too. Those of the other modules are theorems only (section 5).

**Bounds.** `MaxStock` bounds restocking; two units for two one-unit orders give
both scarcity (0 or 1 on the shelf) and plenty. `MaxReturned` bounds the
movements of confirmed returns, which would otherwise grow for ever; it is 0 in
`order_lifecycle`, where no property reads the journal and
`AutoConfirmReturn` leads to the same state without the movement, and 1
elsewhere. `CentreEmpty`, in the same run, leaves the centre's stock at 0: no step
of an order reads it, and `AdjustStock` fills the shelf just as well. `MaxRetries` and `MaxActive` are the program's configuration set to
small values. `MaxRefusals` bounds refused creations, and of the two orders only one
at a time has a refused or lapsed payment: what it does to the other order goes
through the shelf, and both kinds of order take the part. Two orders are enough for
the effects of one order on another: every operation reads and writes one order
and the shared figures, and the only count over orders is a courier's open rows.
One product in the lifecycle is enough because the lines of an order move
together.

Two attempts give the first payment and the duplicate, in either order;
`MaxAttempts` is three in the shipped configuration. `Outcomes` leaves `EXPIRED`
out of `canonical_payment`, which the code treats as `FAILED` but for the label;
`refunds` has it. `Moves` is the least that gives the order its situations: in
work, handed over, cancelled unpaid, cancelled paid; a failed delivery that is
tried again, the other half of `OrderJumps`, happens in `refunds`. `MaxInquiries` is 5 in the code; a
reconciliation may be claimed, answered and written at any time relative to all
other steps, so one shows the races. `OneAskedAfter`, a constraint, lets only one
of the two attempts be reconciled. `refunds` has one attempt: a refund follows
one obligation, and how a second payment becomes one is `canonical_payment`. The
theorems of section 5 do without these bounds.

In `payment_pages` two requests let a second press overtake the first; one poll
in flight is the least, and its answer may be as old as it likes. `favorites` has
two products so that a list is more than one fact; with its two loads and one
toggle every pair of requests overlaps. In `transfers` two requests under way are
what a race needs, `MaxStock` and `MaxHeld` bound restocks and repeated releases,
and one product suffices because lines move together; the handlers are
symmetric. In `messaging`, `Timeout` 1 and `Lease` 2 stand for 240 seconds and
five minutes, of which only the order matters; `MaxFailures` is 1, as one failure
leaves every kind of remainder behind and each further one a second of them; the
proofs have any number.

In `settlements` two weeks are what an order of weeks, a correction in a later
week and an allocation over more than one settlement need. The order is worth 3
to the outlet and a sale of two units costs it 2, so the balance of a week turns
either way and back; payments of 1 and 3 pay a part or all of a bill, or reach
the next. `MaxStock` and `MaxJournal` bound restocking and corrections,
`MaxCredit` and `MaxCost` exchanges and costs, and the constraint keeps an order
from being reserved twice or released beyond what it holds. Payments and sales
are symmetric.

Deadlock is checked in `order_lifecycle`, `order_liveness`, `transfers` and
`settlements`. The others may stop, and do when all is said: an ended order with refused attempts, a
paid page, a delivered row, a customer who does nothing.

**Fairness.** `SchedulerFairness` assumes what `routes/console.php` schedules:
expiry and the parts of `orders:resolve-stale` run again and again, so an order
that stays eligible is reached (weak fairness). The stalled-delivery command's
first write has strong fairness because a stopped run disables it and the next
run enables it again: not every run may stop before its first write. Its second
write is weakly fair, which does not save it when the process stops. Customers,
staff, couriers and the gateway get no fairness. `PaymentFairness` is the same for
`payments:reconcile-doku` and `payments:expire-unknown`, which run every minute:
an attempt that stays eligible is claimed or expired. It supposes that the
hundred attempts a run takes have room for it; what happens when they have not
is listed under `hazards`.

`Fairness` of `PaymentPages` is the interval's (`PollTick`, weak) and the
network's: a poll is served and its answer arrives now and then, although any
may be lost (strong). The customer owes nothing. `MessagingFairness` has the
gateway repeat a report until it is answered with 200, requests and jobs go on,
the command run every minute and time pass; failures are never owed.
It also assumes that claims are not overrun for ever (`Overrun`): a request of
more than five minutes or a queue that is always more than five minutes behind
would let each claim lapse before its owner gets to it, and nothing in the code
forbids that.

## 5. Proofs

All proofs hold for arbitrary sets of orders, products, couriers, requests, jobs
and documents and any limits, from the assumptions named in the modules:
quantities and typed-in figures are naturals (`QtyAssumption`,
`CountsAssumption`, `AmountsAssumption`), prices are naturals and shares whole
numbers (`PricesAssumption`, `FiguresAssumption`), there is a first week
(`WeeksAssumption`), each order has a fulfilment type, the special values differ
from the others, limits are naturals, and the job's timeout is below the lease
(`LeaseAssumption`).

**Totals** (`OutletInventoryProofs`). A sum over orders or documents is written
as a number of units: `Units(S, n)` is the set of pairs `<<x, 1>>`, ...,
`<<x, n[x]>>` for the `x` in `S`, and `Total(S, n)` its cardinality. That is the
same number as the fold that a program would write, and it can be reasoned about
without an induction over the set: what one thing adds, takes away or changes
(`TotalAdd`, `TotalRemove`, `TotalSame`, and `TotalMove` for all of them at once)
follows from the library's facts about cardinalities of finite sets. Every step
of the code touches one order or one document, so one use of these lemmas per
step is all that a proof needs. That the units are finitely many is part of the
invariants.

**Orders and stock** (`OutletInventoryProofs`, `OrderLifecycleProofs`)

- `StockInv` (= types and `StockSound`) is inductive on its own: each operation
  of `InventoryService` keeps it by its own guard, so `LifecycleStockSound` only
  needs that every step of the lifecycle is, on the stock, such an operation or
  a movement without a figure (`NextStock`).
- `LifecycleTypeOKHolds` adds the columns of order and delivery.
- `PaidBeforeDispatchHolds`: `PaidInv` joins the property with `RefundStory`, which
  says of an order whose refund was asked for that it is dead or that a resolution
  was logged and it was placed. A row opens only for a paid order, no step writes
  back that an order was never paid for, and the death of an order closes the row
  in the step that asks for the refund; `PaymentStepCases` reduces what gateway
  and refund may write, at any time, to one case.
- `DeliveryAgreesHolds` needs the strengthening `StallingTracksRow`: a row that
  the stalled-delivery command selected is never one that a courier has yet to
  fetch (a retry deletes the row it selected), and a row it failed stays failed
  until a resolution is logged. Without it the unguarded write could fail the
  row of a later courier's delivery.
- `SoldMatchesCompletedHolds`: `Consume` occurs only in steps to `completed`, and
  only `RetryDelivery`, which logs itself, leads out of it.
- `EndedStaysEndedHolds`, `StockMovesWithStatusHolds`: action properties from the
  typed states; the status graph has no loops and no edges out of ended states.
  The second, that what an order holds only changes when its status does, refused
  payment creations excepted, is a theorem without a run.
- `JournalMatchesStockHolds`, `LeavesShelfOnceHolds`: for `InventoryService`.
- `LifecycleImplementsService`: `OrderLifecycle` implements `OutletInventory`,
  with `journal <- current`. The refinement leaves out of the movements just the
  ones that explain no figure, those of a confirmed return, which is then a
  stutter; every other step is one operation of the service or a stutter. It
  rests on `NextStock` and `StockInv`. `LifecycleLeavesShelfOnce` carries the
  action property over to the callers.
- `ReservationExactHolds` and `NeverOversoldHolds`. A step is abstracted to what
  it does to one order's reservation (`ReservationStep`): it is made, freed,
  kept, or the order becomes one of the troubled (`NextReservation` shows it of
  every action). `LinesHeld`: an untroubled order holds nothing before it is
  placed, its lines while its status reserves, and between nothing and its lines
  afterwards. `ReservedIsPromised`: while every order is untroubled, an order
  holds nothing afterwards, and the reserved figure of each product is the total
  that the orders promised their goods ask for. No guard of the code reads that
  total: it is the reserved figure that the guards compare with the shelf, and
  the equality that makes this enough. With `StockSound` it gives `NeverOversold`.
- `SomebodyCanActHolds` needs `RowStory`: an open row has a courier, a closed one
  belongs to an order that ended accordingly, and nothing was paid for an order
  before it was placed (which takes `RefundStory`, as the refund writes the status
  of whatever order it finds). Without the first, a row at a courier could be one
  that no courier sees. The theorem is for every fulfilment type; a ready
  `delivery_ojol` order without a courier is excepted in the property, because the
  assign button it has is always refused.

**Payments** (`PaymentProofs`), for any number of attempts and
reconciliations, any outcomes and any moves of the order

- `OpenedOnceHolds` and `WorkIsPaidForHolds` rest on `AttemptInv`: attempts are
  numbered without gaps, nothing is known of one without a row, a request that
  is over left `initiated` behind, and a recorded success was said. The lapsed
  lease makes an attempt unknown in the same step, and nothing makes it
  `initiated` again. `WorkIsPaidForHolds` adds `PaidInv`, which carries a verified
  attempt from the payment status to the order's status.
- `MoneyCases` reduces the steps to the few that touch money; the lemmas from
  there on have one case for each.
- `ProjectionAgreesHolds` is inductive over `AttemptInv`.
- `SurplusIsOwedHolds`, `KeepsAPaymentHolds` and `DeadOwesAllHolds` rest on
  `DebtInv`, of three parts. `LedgerOK`: a pending order has neither payment nor
  debt, only a verified attempt claims an order and completes it, and a verified
  attempt stays paid unless it was overwritten. `SpareOK`: no two payments are
  unaccounted for, and an unclaimed order in the works has one it does not owe.
  `DeadDebtOK`: a living order owes duplicates only, so that when it dies the
  refund of its end stands for the one payment that was not owed. The last
  needs `ProjectionAgrees`: a refund is only asked for when the status is `paid`.
  `DeadOwesAllHolds` then maps every payment to an obligation of its own.

**Refunds** (`PaymentProofs`)

- `Accrues` is what a payment event does as far as refunds can tell: obligations
  and verified attempts only grow, a dead order stays dead, and an obligation of
  the order's end arises only for a verified attempt of a dead order.
  `PaymentAccrues` shows it of every step of `CanonicalPayment`.
- `RefundsInv` adds to the types that `sent[a]` is 1 exactly when the refund of
  `a` for the order's end is completed. `completed` has no way out of it in
  `AllowedTransitions`, so nothing is sent again: `MoneyReturnsOnceHolds`. It
  holds although `rollback` and the payment events let the order say anything.
- `TransferTargetStandsHolds`: only `submitDestination` writes a destination, and
  it asks for a state before the transfer.
- `RefundCanMoveHolds` needs `MarkOK`: the order's mark is `invalid` only while
  the obligation has a destination, with which the refund can be started.

**Transfers** (`StockTransfersProofs`)

- `TransfersInv` is `KindsInv` (types, and the journal), `Seen` (the status a
  request saw is the one its operation asks for) and, as long as nothing was
  overwritten, `AllFollow`: each exchange stands where its return lets it.
  A write that is not stale finds the row as `Seen` describes it, which is what
  makes the unlocked operations as good as locked ones up to there.
- `GoodsCanMoveHolds` follows from `AllFollow` and the pages' conditions.
- `TransferKeepsUnitsHolds` is about four totals: restocks and exchanges that are
  sent, goods of returns undecided and thrown away. A step changes one document
  (with a return, its exchange), so each total moves by what this document counts
  for (`SentMove`, `ReturnMove`), and `Balanced` says that the two shelves move by
  the opposite. Two facts make it true: nothing is decided about goods that are
  not at the centre (`AllUntouched`), so that receiving them makes them undecided
  and nothing else, and a completed return or exchange leaves nothing undecided
  but lines of no units. A bound request must besides have seen the item as it is
  (`Seen` for `storeItem`, whose check is what keeps goods from being stored
  twice).
- `OnlyReturnsOversell`: the counterexample of the run `stock_sound` is the only
  kind there is. Every step but the receiving of a return keeps `StockSound`.

**Settlements** (`SettlementsProofs`), for any number of weeks, orders, counter
sales and payments

- A step is reduced to what it does to bills and payments (`StepKinds`): it
  leaves both alone, generates a week (`Generates`), syncs one (`Adjusts`),
  enters a payment (`Enters`), or allocates one (`Pays`). Each part of the
  invariant then has five cases, where the model has sixteen actions.
- `SettlementsInv` is the types, `StockSound`, `OfflineIsBilled`, and `MoneyInv`:
  four of the parts of `MoneySound` with what they rest on; the fifth,
  `TargetStands`, follows (`MoneySoundHolds`).
  `StatusesFit`: direction and status of a settlement are those that its figures
  ask for. `UnverifiedIsUnallocated`: a payment that is not verified has put
  nothing anywhere. `ActivityExists` and `TargetsFit`: financial activity is only
  on a settlement that exists, and a named one is due in the payment's direction,
  from which `TargetStands` follows. `ColumnsFinite`: what the payments put on a
  settlement is finite even when the payments that may be made are not.
- `FifoTakesAll` is the arithmetic of the allocation: an amount up to what is
  owed is given out to the last unit. It is proved by counting instead of by an
  induction over the loop. The units owed are ranked, the older settlement's
  first; the rank is one to one between them and `1..Owed(C)`, and the shares are
  the units ranked up to the amount. `FifoShareBounds` adds that no settlement
  gets more than it is owed, and that a settlement which leaves something for the
  next has got all of it.
- `PaysOldestFirst`: a share of a younger settlement means that the older ones
  got what they were owed, and `Recalculated` then makes them paid.
- `BillStandsHolds`: whatever the property calls money is financial activity, so
  generator and sync leave the row as it is, and payments never write a bill.
- `OnePendingHolds`: at most one payment is pending, so a group in
  `bulkVerifyPayments` has at most one of this outlet, as `BulkVerify` supposes.
  It needs that only `SubmitPayment` makes a payment pending (`PendingSteps`).

**Messages** (`PaymentMessagingProofs`)

- `HolderOwns`: a job between taking and completing the consumer claim still
  owns it, and has held it no longer than it has run; with `Timeout < Lease` no
  other job can take it over (`OneDeliversAtATimeHolds`).
- `Counted`: every call of the listener is paid for by a failure, but for the one
  that is about to be noted or was (`RepeatsNeedFailuresHolds`).
- `Booked`, `JobHasRow`: an acknowledged or emitted report is recorded.
  With them every step maps to a step of `ReportedPayment` or a stutter
  (`MessagingImplementsReports`); its liveness stays with TLC.

**Favourites** (`FavoritesProofs`), for any set of products and any number of
requests in flight

- `FavoritesTypeOKHolds` and `PromiseIsLiveHolds` are inductive together
  (`PromiseInv`): a run that returns clears `initPromise` whichever run that holds,
  so what it holds is always the run that was started last.
- `CalmViewIsAccountHolds` is about `MCSpec`, whose history variable only watches
  (`HistoryWatches`). `CalmInv`: while the calm lasts, the customer is signed in
  and the page knows it, at most one request is in flight, and its story tells
  what is shown: a list that came is the account's (`LoadStory`), and a click in
  flight lets the shown set differ by its product only, with the step saying
  whether the account has that one (`ToggleStory`). The proof shows for each step
  that it ends the calm, begins it (`LoadStartsCalm`), or hands the story on.

**Pages** (`PaymentPagesProofs`): `WaitingIsWatched` and `OverlayMeansPending` are
inductive together with `Blank` (a page that is neither of the two shows and
polls nothing), `Owned` (an overlay whose opener was mounted goes with it) and
`Alive` (a request that is live was sent by the mounted page).

Only model-checked: liveness (`EveryOrderSettles`, `UnknownResolves`,
`PaidIsNoticed`, and the liveness of `ReportedPayment`), which is beyond TLAPS's
backends, and `OffersStand`, which is stated with ENABLED. Every other property
of a passing run is a theorem.

## 6. Where code and documents disagree

Each of these is a run that TLC ends with a counterexample; `findings` in
`PROJECT.json` quotes the line.

| Run | What happens |
|---|---|
| `released_once` | failed delivery, then cancelled: the reservation is released twice, the second time out of another order's |
| `completed_by_hand_over` | a success reported again while the outlet prepares the order completes it |
| `stock_sound` | receiving a return takes goods off the shelf that an order has reserved in the meantime |

Met while modelling, and not runs of their own:

*Stock and transfers*

- Two requests that receive one return, both past their check, each take its
  goods off the shelf (`overwritten`), while
  `tests/Feature/InventoryConservationTest.php:43` says "Return must preserve
  total inventory (center + outlet)." A cancellation that overtakes an approval
  in the same way leaves an approved exchange under a cancelled return.
- The outlet's form for an exchange lists returns that are `approved`
  (`Outlet/ExchangeController.php:47`), while `createRequest` demands
  `received_at_center`, as does the form's own text
  (`js/pages/outlet/exchanges/create.tsx:137`).
- `Owner/RestockController::show` declares a `JsonResponse` it does not import,
  so its JSON branch, which the restock dialog loads, raises a type error.
- `inventory:reconcile` lists the kinds of movement it counts
  (`InventoryReconcile.php:238`) without `offline_sale`, so that every counter
  sale looks to it like a loss, and `--fix` puts the goods back on the shelf.
- A confirmed return of a failed delivery writes a movement that
  `inventory:reconcile` counts although no figure changed.

*Orders*

- A retried delivery brings an order back to `ready_for_pickup` without a
  reservation, and one whose refund was already asked for as well.
- The stalled-delivery command that stops between its writes leaves the row
  failed and the order delivering, and does not select it again; one that is
  late fails the row of an order just completed, which a retry then reopens.
- A row that is `returned_to_outlet` stays, so that nobody can be assigned
  when the order is ready again.
- The outlet's page for a provider's courier looks at the row only, and offers
  its steps after the order ended.
- Assigning a courier is offered for `delivery_ojol` orders and always refused
  (`DeliveryService.php`, 59 and 90), and no page assigns a provider's courier:
  such an order has no button that takes it further once it is ready.
- The payment of an order in the kitchen or on the road can be taken back
  (`PaymentLapses`). Every step forward is then offered and refused: a courier who
  has fetched the order (`picked_up`) can neither deliver nor fail it, until some
  event projects the payment again.
- A retry can revive an order whose refund is under way; a later event makes it
  paid, and the refund's next step takes that away again.

*Payments and pages*

- The deadline of an unknown attempt, or an old failed answer, overwrites a
  settlement that a webhook has paid meanwhile.
- "Lanjutkan Pembayaran" on the confirmation page is refused with 409 as long as
  the attempt is open (`OrderController.php:305`), so an overlay that was closed
  there cannot be opened again.
- `useOrderPay` asks for no JSON, so `pay` answers it with a redirect to the
  gateway, which its fetch follows across origins
  (`js/hooks/use-order-actions.ts`, 12 to 25).
- Two submissions of one checkout at once can create two orders: the fingerprint
  is stored only after the order was made (`CheckoutController.php`, 534 to 590).
- Signing out while the favourites are being loaded leaves the store in user
  mode, as `init` returns early: the guest is shown the account's favourites
  until the next visit.

*Refunds*

- `rollback` asks for `pending`, which the table of
  `RefundObligationService.php:91` does not allow after `in_progress`, and ignores
  the answer (`RefundService.php:422`): the obligation stays in progress, while
  the owner is told that the refund is back in the queue.
- `docs/doku-payment.md:1002` promises a refund of a late payment. The obligation
  is recorded (`DeadOwesAll`), but a late or duplicate payment never sets
  `orders.refund_reason`, by which `canonicalObligation` and the pages select: no
  queue and no button shows it.
- A guest whose destination was rejected has no form to correct it, and neither
  has the owner (`RefundCanMove` excepts it).
- `can_reject` is offered without a destination, which `reject` then asks for.
- After death a repeated payment event writes `paid` or `pending` over
  `refund_pending`, `refund_in_progress` or `refunded` of the order.
- After a rejected refund was recovered, the customer's form is offered and
  refused, because the order's mark stays invalid.

*Settlements*

- `completeFromPayment` (`OrderStatusService.php`, 223 to 256) does not
  call the generator, which is "Called when an order is completed or an offline
  sale is recorded." (`SettlementGeneratorService.php:28`): the order is billed when
  something else generates its week.
- `syncAdjustmentsLocked` looks at the credit only (226 to 229) and, when it
  agrees, resolves the week's issue (348), also one about sales that are still
  not billed; `docs/RUNBOOK.md:155` says that an issue is kept when the sources
  differ.
- What a payment has over is to be saved as a second allocation to the last
  settlement it paid (`SettlementPaymentService.php`, 461 to 472), which the unique
  index of the migration `2026_07_22_000002` (line 17) refuses: the verification
  fails.
- Everything that ever touched a settlement freezes it (`BillStands`): a payment
  that names it and is rejected, or an exchange adjustment of any size. Sales of
  the rest of the week then end in an issue, for which there is no page
  (`docs/RUNBOOK.md:155` says so) and which blocks the payments.
- The adjustment of an exchange is booked in the week it is completed, while the
  settlement that is synced is the one of the week it was requested
  (`ExchangeService.php:315`).
- Refunds of a week without sales are deducted nowhere: the figures of such a
  week are zero, and without a settlement there is none.
- Costs that change after a week was generated reach its bill only when something
  else generates it; no operation on deliveries or refunds does.
- `settlement:backfill` skips weeks that have a settlement, so it does not repair
  one from which an order is missing.

## 7. Not modelled

See the components with status `not_modelled` or `partly` and their notes in
`PROJECT.json`.

- *Most of the frontend.* More than half of the implementation's lines are pages and
  components that render what the server sends. What they decide (buttons, polls,
  optimistic updates) is modelled where an order, a payment, a refund or stock
  depends on it; layout, wording, tables, charts, maps and form fields keep no
  state a property could be about, and modelling them would restate JSX. This is
  why the modules stand for a small share of all lines.
- *The writes of `inventory:reconcile --fix`*: left in the plan.
- *Reports on settlements*: aging, reconciliation, reminders, invoices and exports
  read what `Settlements` has and write nothing it depends on.
- *The checkout form*: prices, choice of the outlet, and the fingerprint that
  finds an order made before. `PaymentPages` has one order per checkout.
- *Refunds without an obligation*: orders of before the obligations existed.
- *A dead order that a retry makes ready again* is in `OrderLifecycle`, not in
  `CanonicalPayment`, where the dead stay dead; nor is a second tab of the owner
  with an old page, whose requests the server checks like any other.
- *Notifications, statistics, service levels, personnel records*: nothing modelled
  reads them.
