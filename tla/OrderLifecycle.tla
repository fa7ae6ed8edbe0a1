---------------------------- MODULE OrderLifecycle ----------------------------
(***************************************************************************)
(* The life of an order at an outlet: OrderStatusService's state machine,  *)
(* the courier's delivery of DeliveryService, the scheduled commands that  *)
(* resolve what was left lying, and what each of them does to the stock of *)
(* OutletInventory.                                                        *)
(*                                                                         *)
(* Customers, outlet staff, the owner, couriers, the payment gateway and   *)
(* the scheduler act concurrently.  Every service method locks the outlet  *)
(* and the order and is one step; the stalled-delivery command is not one  *)
(* transaction and is three steps.                                         *)
(***************************************************************************)
EXTENDS OutletInventory, OrderStatusGraph

CONSTANTS
  Fulfilment,   \* Fulfilment[o]: orders.fulfillment_type
  Couriers,     \* the outlet's own couriers
  External,     \* a courier of an outside provider
  Nobody,       \* no courier
  MaxActive,    \* delivery.capacity.max_active_deliveries
  MaxRetries,   \* delivery.max_retry_attempts
  MaxRefusals   \* bound: payment creations of one order that the gateway refuses

FulfilmentTypes == {"pickup", "delivery_dombi", "delivery_ojol"}

ASSUME FulfilmentAssumption == Fulfilment \in [Orders -> FulfilmentTypes]
ASSUME CourierAssumption == External # Nobody /\ {External, Nobody} \cap Couriers = {}
ASSUME LimitsAssumption == MaxActive \in Nat /\ MaxRetries \in Nat /\ MaxRefusals \in Nat

VARIABLES
  status,       \* orders.status, "absent" before checkout
  payment,      \* orders.payment_status, see PaymentStatuses
  refunding,    \* the orders that a refund was ever asked or queued for
  delivery,     \* deliveries.status of the order's row, "none" without a row
  courier,      \* deliveries.courier_id / courier_type
  returning,    \* deliveries.return_status
  resolutions,  \* the order's rows in delivery_resolution_logs
  stalling,     \* how far orders:resolve-stale got with the order's delivery
  failedOnce,   \* the orders with a failed_delivery row in order_status_histories
  refusals      \* the order's payment_attempts whose creation the gateway refused

orderVars == <<status, payment, refunding>>
deliveryVars == <<delivery, courier, returning>>
lifecycleVars ==
  <<stockVars, orderVars, deliveryVars, resolutions, stalling, failedOnce, refusals>>

-----------------------------------------------------------------------------
(* Sets of statuses.                                                       *)

\* The statuses InventoryReconcile expects to hold a reservation.
Reserving == {"pending_confirmation", "awaiting_preparation", "confirmed", "preparing",
              "ready_for_pickup", "picked_up", "delivering"}

\* The rows releaseDelivery still closes; getCourierActiveDeliveryCount counts
\* the same ones.
OpenDelivery == {"waiting_pickup", "picked_up", "delivering"}

DeliveryStatuses == OpenDelivery \cup {"none", "rejected_by_courier", "completed", "failed",
                                       "returned_to_outlet", "cancelled_and_released"}

\* What the guards and buttons tell apart.  "pending" is null, pending, failed or
\* expired of an order that was never paid, "lapsed" the same values written over
\* paid, and "refund_pending" stands for every status of a refund.
PaymentStatuses == {"pending", "paid", "lapsed", "refund_pending"}

IsDelivery(o) == Fulfilment[o] \in {"delivery_dombi", "delivery_ojol"}

-----------------------------------------------------------------------------
(* OrderStatusService::transition and its side effects.                    *)

CanTransition(o, to) ==
  /\ to \in TRANSITIONS[status[o]]
  /\ ~(Fulfilment[o] = "pickup" /\ to \in {"picked_up", "delivering"})
  /\ to \in NeedsPayment => payment[o] = "paid"

\* Mutant: an expired order keeps its reservation.
StockEffectKeepingExpired(o, to) ==
  CASE to \in (Dead \ {"expired"}) \cup {"failed_delivery"} -> Release(o)
    [] to = "completed" -> Consume(o)
    [] status[o] = "failed_delivery" /\ to = "preparing" -> Reserve(o)
    [] OTHER -> UNCHANGED stockVars

\* Mutant: a completed delivery releases the goods it should sell.
StockEffectReleasingSale(o, to) ==
  CASE to \in Dead \cup {"failed_delivery", "completed"} -> Release(o)
    [] status[o] = "failed_delivery" /\ to = "preparing" -> Reserve(o)
    [] OTHER -> UNCHANGED stockVars

\* handleSideEffects, the stock part.
StockEffect(o, to) ==
  CASE to \in Dead \cup {"failed_delivery"} -> Release(o)
    [] to = "completed" -> Consume(o)
    [] status[o] = "failed_delivery" /\ to = "preparing" -> Reserve(o)
    [] OTHER -> UNCHANGED stockVars

\* handleSideEffects asks for a refund of a paid order that died.
AfterRefundRequest(o, to) ==
  IF to \in Dead /\ payment[o] = "paid" THEN "refund_pending" ELSE payment[o]

\* What a payment status leaves behind for the refund: its reason, its destination.
AfterPayment(o, to) == IF to = "refund_pending" THEN refunding \cup {o} ELSE refunding

\* Mutant: the death of an order leaves its delivery open.
AfterReleaseNothing(to, row) == row

\* releaseDelivery closes what the death of the order leaves open; row is the
\* delivery status the caller wrote before.
AfterRelease(to, row) ==
  IF to \in Dead /\ row \in OpenDelivery THEN "cancelled_and_released" ELSE row

\* transition() for a caller that left the delivery row at row.
Transition(o, to, row) ==
  /\ CanTransition(o, to)
  /\ StockEffect(o, to)
  /\ status' = [status EXCEPT ![o] = to]
  /\ payment' = [payment EXCEPT ![o] = AfterRefundRequest(o, to)]
  /\ refunding' = AfterPayment(o, AfterRefundRequest(o, to))
  /\ delivery' = [delivery EXCEPT ![o] = AfterRelease(to, row)]
  /\ failedOnce' = IF to = "failed_delivery" THEN failedOnce \cup {o} ELSE failedOnce
  /\ UNCHANGED refusals

Move(o, to) == Transition(o, to, delivery[o])

-----------------------------------------------------------------------------
(* Customers, outlet and owner.                                            *)

\* createOrderWithReservation
PlaceOrder(o) ==
  /\ status[o] = "absent"
  /\ Reserve(o)
  /\ status' = [status EXCEPT ![o] = "pending_confirmation"]
  /\ UNCHANGED <<payment, refunding, deliveryVars, resolutions, stalling, failedOnce, refusals>>

\* Outlet\OrderController::updateStatus behind UpdateOrderStatusRequest, which
\* asks for a paid order even to cancel it.
OutletUpdateStatus(o) ==
  /\ payment[o] = "paid"
  /\ \E to \in {"confirmed", "preparing", "ready_for_pickup", "cancelled_by_outlet"} : Move(o, to)
  /\ UNCHANGED <<courier, returning, resolutions, stalling>>

RejectOrder(o) ==
  /\ status[o] = "pending_confirmation"
  /\ Release(o)
  /\ status' = [status EXCEPT ![o] = "rejected_by_outlet"]
  /\ payment' = [payment EXCEPT ![o] = AfterRefundRequest(o, "rejected_by_outlet")]
  /\ refunding' = AfterPayment(o, AfterRefundRequest(o, "rejected_by_outlet"))
  /\ UNCHANGED <<deliveryVars, resolutions, stalling, failedOnce, refusals>>

CancelByCustomer(o) ==
  /\ Move(o, "cancelled_by_customer")
  /\ UNCHANGED <<courier, returning, resolutions, stalling>>

OwnerCancel(o) ==
  /\ Move(o, "cancelled_by_outlet")
  /\ UNCHANGED <<courier, returning, resolutions, stalling>>

CompletePickup(o) ==
  /\ Fulfilment[o] = "pickup"
  /\ status[o] = "ready_for_pickup"
  /\ payment[o] = "paid"
  /\ status' = [status EXCEPT ![o] = "completed"]
  /\ Consume(o)
  /\ UNCHANGED <<payment, refunding, deliveryVars, resolutions, stalling, failedOnce, refusals>>

-----------------------------------------------------------------------------
(* The payment gateway, as claimOrRefund of                                *)
(* CanonicalPaymentTransitionService lets it act on an order.              *)

\* persistCreationOutcome: the gateway refuses to open the payment an unpaid
\* order asked for, and the reservation is released.  The order keeps its status,
\* and nothing tells whether it went on, or ended, while the call was out.
PaymentCreationRefused(o) ==
  /\ status[o] # "absent"
  /\ refusals[o] < MaxRefusals
  /\ Release(o)
  /\ refusals' = [refusals EXCEPT ![o] = @ + 1]
  /\ UNCHANGED <<orderVars, deliveryVars, resolutions, stalling, failedOnce>>

\* The first verified success of a pending order puts it in the queue.
PaymentQueuesOrder(o) ==
  /\ status[o] = "pending_confirmation"
  /\ status' = [status EXCEPT ![o] = "awaiting_preparation"]
  /\ payment' = [payment EXCEPT ![o] = "paid"]
  /\ UNCHANGED <<stockVars, refunding, deliveryVars, resolutions, stalling, failedOnce, refusals>>

\* A success reported again, or of a second attempt, claims an order that left
\* the queue and completes it (completeFromPayment, which has no payment guard).
PaymentCompletesOrder(o) ==
  /\ status[o] \in {"confirmed", "preparing", "ready_for_pickup"}
  /\ Consume(o)
  /\ status' = [status EXCEPT ![o] = "completed"]
  /\ payment' = [payment EXCEPT ![o] = "paid"]
  /\ UNCHANGED <<refunding, deliveryVars, resolutions, stalling, failedOnce, refusals>>

\* A write of orders.payment_status that no step of the order follows.
WritePayment(o, to) ==
  /\ payment' = [payment EXCEPT ![o] = to]
  /\ refunding' = AfterPayment(o, to)
  /\ UNCHANGED <<stockVars, status, deliveryVars, resolutions, stalling, failedOnce, refusals>>

\* A success for an order that died: the attempt gets a refund obligation and
\* the projection makes the order paid whatever it was.  The status sync and
\* the manual command then write refund_pending over it, the webhook does not.
PaymentOnDeadOrder(o) ==
  /\ status[o] \in Dead
  /\ \E to \in {"paid", "refund_pending"} : WritePayment(o, to)

\* The payment of an order is taken back, whatever became of the order: the
\* failed answer to an old inquiry overwrites the settlement that a webhook has
\* paid, and the projection follows it; or pay, whose sync was followed by that
\* webhook, resets the status without a lock (Customer\OrderController, 267).
\* CanonicalPayment has the attempts behind it (InquiryFailed, PayResets).
PaymentLapses(o) ==
  /\ payment[o] # "pending"
  /\ WritePayment(o, "lapsed")

\* recompute after any event on another attempt, or for a success reported again:
\* an order that left pending_confirmation has an attempt that paid for it.
PaymentProjected(o) ==
  /\ status[o] \notin Dead \cup {"absent", "pending_confirmation"}
  /\ WritePayment(o, "paid")

\* start, reject, rollback, complete and a corrected destination write the status
\* of the refund.  They look at what was left for it, never at the status of the
\* order, which a retry may have revived.
RefundMoves(o) ==
  /\ o \in refunding
  /\ WritePayment(o, "refund_pending")

-----------------------------------------------------------------------------
(* Couriers.                                                               *)

ActiveDeliveries(c) == {o \in Orders : courier[o] = c /\ delivery[o] \in OpenDelivery}

\* A new row; the rejected row it replaces is deleted.
NewDelivery(o, c) ==
  /\ delivery' = [delivery EXCEPT ![o] = "waiting_pickup"]
  /\ courier' = [courier EXCEPT ![o] = c]
  /\ returning' = [returning EXCEPT ![o] = "none"]
  /\ UNCHANGED <<stockVars, orderVars, resolutions, stalling, failedOnce, refusals>>

\* Mutant: a courier can be sent for an order that is still in the kitchen.
AssignCourierEarly(o, c, override) ==
  /\ Fulfilment[o] = "delivery_dombi"
  /\ payment[o] = "paid"
  /\ status[o] \in {"preparing", "ready_for_pickup"}
  /\ delivery[o] \in {"none", "rejected_by_courier"}
  /\ Cardinality(ActiveDeliveries(c)) < MaxActive \/ override
  /\ NewDelivery(o, c)

\* assignCourier.  Whether the courier is active, online and of this outlet is
\* not kept as state: the call is simply not made when it would be refused.
AssignCourier(o, c, override) ==
  /\ Fulfilment[o] = "delivery_dombi"
  /\ payment[o] = "paid"
  /\ status[o] = "ready_for_pickup"
  /\ delivery[o] \in {"none", "rejected_by_courier"}
  /\ Cardinality(ActiveDeliveries(c)) < MaxActive \/ override
  /\ NewDelivery(o, c)

\* assignEksternal inserts a row outright, and deliveries.order_id is unique.
AssignExternal(o) ==
  /\ IsDelivery(o)
  /\ payment[o] = "paid"
  /\ status[o] = "ready_for_pickup"
  /\ delivery[o] = "none"
  /\ NewDelivery(o, External)

\* Mutant: the guard of rejectAssignment against orders that ended is gone.
RejectAssignmentLate(o) ==
  /\ courier[o] \in Couriers
  /\ delivery[o] = "waiting_pickup"
  /\ delivery' = [delivery EXCEPT ![o] = "rejected_by_courier"]
  /\ status' = [status EXCEPT ![o] = "ready_for_pickup"]
  /\ UNCHANGED <<stockVars, payment, refunding, courier, returning, resolutions, stalling, failedOnce,
                 refusals>>

\* rejectAssignment writes ready_for_pickup straight to the order.
RejectAssignment(o) ==
  /\ courier[o] \in Couriers
  /\ delivery[o] = "waiting_pickup"
  /\ status[o] \notin Finalized
  /\ delivery' = [delivery EXCEPT ![o] = "rejected_by_courier"]
  /\ status' = [status EXCEPT ![o] = "ready_for_pickup"]
  /\ UNCHANGED <<stockVars, payment, refunding, courier, returning, resolutions, stalling, failedOnce,
                 refusals>>

\* DeliveryService::transition and transitionExternal: the row and the order
\* move together or not at all.
DeliveryMove(o, from, row, to) ==
  /\ delivery[o] = from
  /\ Transition(o, to, row)
  /\ UNCHANGED <<courier, returning, resolutions, stalling>>

ConfirmPickup(o) == DeliveryMove(o, "waiting_pickup", "picked_up", "picked_up")
StartDelivery(o) == DeliveryMove(o, "picked_up", "delivering", "delivering")
CompleteDelivery(o) == DeliveryMove(o, "delivering", "completed", "completed")
FailDelivery(o) == DeliveryMove(o, "delivering", "failed", "failed_delivery")

ReturnToOutlet(o) ==
  /\ courier[o] \in Couriers
  /\ delivery[o] = "failed"
  /\ returning[o] = "none"
  /\ returning' = [returning EXCEPT ![o] = "returning_to_outlet"]
  /\ UNCHANGED <<stockVars, orderVars, delivery, courier, resolutions, stalling, failedOnce, refusals>>

SetReturned(o) ==
  /\ returning[o] = "returning_to_outlet"
  /\ returning' = [returning EXCEPT ![o] = "returned_to_outlet"]
  /\ UNCHANGED <<orderVars, delivery, courier, resolutions, stalling, failedOnce, refusals>>

\* confirmReturn also writes a delivery_returned movement per line, although no
\* unit comes back to a stock figure.
ConfirmReturn(o) ==
  /\ SetReturned(o)
  /\ journal' = [p \in Products |-> journal[p] + Qty[o][p]]
  /\ UNCHANGED <<current, reserved, center, held, sold>>

\* deliveries:auto-confirm-return writes no movement.
AutoConfirmReturn(o) ==
  /\ SetReturned(o)
  /\ UNCHANGED stockVars

-----------------------------------------------------------------------------
(* Resolving a failed delivery.  Each resolution adds a row to the log that *)
(* bounds the retries; only the last two go through the status graph.       *)

LogResolution(o) == resolutions' = [resolutions EXCEPT ![o] = @ + 1]

\* handleRetryDelivery: whatever status the order has, it becomes
\* ready_for_pickup, the row is deleted (the stalled-delivery command that
\* selected it will not find it) and no stock is touched.
RetryDelivery(o) ==
  /\ delivery[o] = "failed"
  /\ resolutions[o] < MaxRetries
  /\ LogResolution(o)
  /\ status' = [status EXCEPT ![o] = "ready_for_pickup"]
  /\ delivery' = [delivery EXCEPT ![o] = "none"]
  /\ courier' = [courier EXCEPT ![o] = Nobody]
  /\ returning' = [returning EXCEPT ![o] = "none"]
  /\ stalling' = [stalling EXCEPT ![o] = IF @ = "selected" THEN "idle" ELSE @]
  /\ UNCHANGED <<stockVars, payment, refunding, failedOnce, refusals>>

ReturnToPreparation(o) ==
  /\ delivery[o] = "failed"
  /\ LogResolution(o)
  /\ Transition(o, "preparing", "returned_to_outlet")
  /\ UNCHANGED <<courier, returning, stalling>>

CancelAndRelease(o) ==
  /\ delivery[o] \in {"failed", "returned_to_outlet"}
  /\ LogResolution(o)
  /\ Transition(o, "cancelled_by_outlet", "cancelled_and_released")
  /\ UNCHANGED <<courier, returning, stalling>>

-----------------------------------------------------------------------------
(* The scheduler.                                                          *)

\* orders:expire-pending, once confirmation_expires_at has passed.
ExpireOrder(o) ==
  /\ Move(o, "expired")
  /\ UNCHANGED <<courier, returning, resolutions, stalling>>

\* Mutant: the part of the command for orders nobody fetched is missing.
CancelStaleKitchenOrder(o) ==
  /\ status[o] \in {"awaiting_preparation", "preparing"}
  /\ Move(o, "cancelled_by_outlet")
  /\ UNCHANGED <<courier, returning, resolutions, stalling>>

\* orders:resolve-stale selects by status and age, and transition() reads the
\* status again under the lock: an order that meanwhile moved on to another
\* cancellable status is cancelled all the same.
CancelStaleOrder(o) ==
  /\ status[o] \in {"awaiting_preparation", "preparing", "ready_for_pickup"}
  /\ Move(o, "cancelled_by_outlet")
  /\ UNCHANGED <<courier, returning, resolutions, stalling>>

ResolveStaleFailure(o) ==
  /\ status[o] = "failed_delivery"
  /\ IF delivery[o] = "none"
       THEN /\ Move(o, "cancelled_by_outlet")
            /\ UNCHANGED <<courier, returning, resolutions, stalling>>
       ELSE CancelAndRelease(o)

\* The last part of orders:resolve-stale, one run at a time (withoutOverlapping):
\* it selects the rows that have been delivering for too long, then reads each
\* row again and fails it without looking at its status, then moves the order;
\* every write is on its own and the process may stop between them.
SelectStalled ==
  /\ \A o \in Orders : stalling[o] = "idle"
  /\ \E S \in SUBSET {o \in Orders : delivery[o] = "delivering"} :
       /\ S # {}
       /\ stalling' = [o \in Orders |-> IF o \in S THEN "selected" ELSE "idle"]
  /\ UNCHANGED <<stockVars, orderVars, deliveryVars, resolutions, failedOnce, refusals>>

FailStalledDelivery(o) ==
  /\ stalling[o] = "selected"
  /\ \A q \in Orders : stalling[q] # "row_failed"
  /\ stalling' = [stalling EXCEPT ![o] = "row_failed"]
  /\ delivery' = [delivery EXCEPT ![o] = "failed"]
  /\ UNCHANGED <<stockVars, orderVars, courier, returning, resolutions, failedOnce, refusals>>

\* The order's transition, or the exception it throws, which is only logged.
FailStalledOrder(o) ==
  /\ stalling[o] = "row_failed"
  /\ stalling' = [stalling EXCEPT ![o] = "idle"]
  /\ \/ Move(o, "failed_delivery")
     \/ /\ ~CanTransition(o, "failed_delivery")
        /\ UNCHANGED <<stockVars, orderVars, delivery, failedOnce, refusals>>
  /\ UNCHANGED <<courier, returning, resolutions>>

StopCommand ==
  /\ \E o \in Orders : stalling[o] # "idle"
  /\ stalling' = [o \in Orders |-> "idle"]
  /\ UNCHANGED <<stockVars, orderVars, deliveryVars, resolutions, failedOnce, refusals>>

-----------------------------------------------------------------------------
Init ==
  /\ StockInit
  /\ status = [o \in Orders |-> "absent"]
  /\ payment = [o \in Orders |-> "pending"]
  /\ refunding = {}
  /\ delivery = [o \in Orders |-> "none"]
  /\ courier = [o \in Orders |-> Nobody]
  /\ returning = [o \in Orders |-> "none"]
  /\ resolutions = [o \in Orders |-> 0]
  /\ stalling = [o \in Orders |-> "idle"]
  /\ failedOnce = {}
  /\ refusals = [o \in Orders |-> 0]

OrderStep(o) ==
  \/ PlaceOrder(o) \/ OutletUpdateStatus(o) \/ RejectOrder(o)
  \/ CancelByCustomer(o) \/ OwnerCancel(o) \/ CompletePickup(o)

PaymentStep(o) ==
  \/ PaymentCreationRefused(o) \/ PaymentQueuesOrder(o)
  \/ PaymentCompletesOrder(o) \/ PaymentOnDeadOrder(o)
  \/ PaymentLapses(o) \/ PaymentProjected(o) \/ RefundMoves(o)

DeliveryStep(o) ==
  \/ \E c \in Couriers, override \in BOOLEAN : AssignCourier(o, c, override)
  \/ AssignExternal(o) \/ RejectAssignment(o)
  \/ ConfirmPickup(o) \/ StartDelivery(o) \/ CompleteDelivery(o) \/ FailDelivery(o)
  \/ ReturnToOutlet(o) \/ ConfirmReturn(o)

ResolutionStep(o) ==
  \/ RetryDelivery(o) \/ ReturnToPreparation(o) \/ CancelAndRelease(o)

SchedulerStep(o) ==
  \/ ExpireOrder(o) \/ CancelStaleOrder(o) \/ ResolveStaleFailure(o)
  \/ AutoConfirmReturn(o) \/ FailStalledDelivery(o) \/ FailStalledOrder(o)

StaffStock ==
  /\ \E p \in Products, n \in Counts : StaffStockStep(p, n)
  /\ UNCHANGED <<orderVars, deliveryVars, resolutions, stalling, failedOnce, refusals>>

Next ==
  \/ \E o \in Orders : \/ OrderStep(o) \/ PaymentStep(o) \/ DeliveryStep(o)
                       \/ ResolutionStep(o) \/ SchedulerStep(o)
  \/ SelectStalled
  \/ StopCommand
  \/ StaffStock

Spec == Init /\ [][Next]_lifecycleVars

\* The scheduler runs its commands every minute or day (routes/console.php).
\* People, couriers and the gateway owe the system nothing.  A run may be
\* stopped, yet not every run before it reaches its first write.
SchedulerFairness ==
  /\ \A o \in Orders : /\ WF_lifecycleVars(ExpireOrder(o))
                       /\ WF_lifecycleVars(CancelStaleOrder(o))
                       /\ WF_lifecycleVars(ResolveStaleFailure(o))
                       /\ SF_lifecycleVars(FailStalledDelivery(o))
                       /\ WF_lifecycleVars(FailStalledOrder(o))
  /\ WF_lifecycleVars(SelectStalled)

FairSpec == Spec /\ SchedulerFairness

-----------------------------------------------------------------------------
(* Properties.                                                             *)

\* Every column holds one of the values the code writes into it, or the one that
\* stands for several of them.
LifecycleTypeOK ==
  /\ StockTypeOK
  /\ status \in [Orders -> Statuses]
  /\ payment \in [Orders -> PaymentStatuses]
  /\ refunding \in SUBSET Orders
  /\ delivery \in [Orders -> DeliveryStatuses]
  /\ courier \in [Orders -> Couriers \cup {External, Nobody}]
  /\ returning \in [Orders -> {"none", "returning_to_outlet", "returned_to_outlet"}]
  /\ resolutions \in [Orders -> Nat]
  /\ stalling \in [Orders -> {"idle", "selected", "row_failed"}]
  /\ failedOnce \in SUBSET Orders
  /\ refusals \in [Orders -> Nat]

\* The orders whose payment was never refused and whose delivery never failed
\* or was resolved: the only places where a release is repeated or forgotten.
Untroubled == {o \in Orders \ failedOnce : resolutions[o] = 0 /\ refusals[o] = 0}

\* An untroubled order holds its lines while it is in a status that
\* InventoryReconcile expects to reserve, and nothing afterwards, as long as no
\* order's double release made another release fall short: reserveStock,
\* releaseReservedStock and completeOrderStock are called once each at most.
ReservationExact ==
  \A o \in Untroubled, p \in Products :
    /\ status[o] \in Reserving => held[o][p] = Qty[o][p]
    /\ status[o] \notin Reserving => \/ held[o][p] = 0
                                     \/ (Untroubled # Orders /\ held[o][p] \in 0..Qty[o][p])

\* The orders that were promised their goods, and what each asks for of p.
Promised == {o \in Orders : status[o] \in Reserving}
Asked(p) == [o \in Orders |-> Qty[o][p]]

\* As long as every order of the outlet is untroubled, the shelf covers all the orders
\* that were promised from it, so every one of them can be completed.
NeverOversold ==
  Untroubled = Orders =>
    \A p \in Products : Total(Promised, Asked(p)) <= current[p]

\* Order and delivery row tell the same story: an order is with a courier only
\* under an open row, and an open row belongs to an order that is ready or on
\* the road.  The two exceptions are the payment replay that completes an
\* order at the counter, and the stalled-delivery command, which fails the row
\* before the order and may be late for the order it finds.
DeliveryAgrees ==
  \A o \in Orders :
    /\ status[o] = "picked_up" <=> delivery[o] = "picked_up"
    /\ status[o] = "delivering" => delivery[o] \in {"delivering", "failed"}
    /\ delivery[o] = "delivering" => status[o] = "delivering" \/ resolutions[o] > 0
    /\ delivery[o] = "waiting_pickup" => status[o] \in {"ready_for_pickup", "completed"}
    /\ delivery[o] = "rejected_by_courier" =>
         status[o] \in {"ready_for_pickup", "completed", "cancelled_by_outlet"}

\* A courier only ever holds a task for an order that was paid for, that is in
\* the queue or further, and that is not dead: cancelling closes the open row in
\* the step that asks for the refund.  The payment may have been taken back since
\* the order was paid, but a refund is under way only for an order that died once
\* and was revived by a retry.
PaidBeforeDispatch ==
  \A o \in Orders :
    delivery[o] \in OpenDelivery =>
      /\ payment[o] # "pending"
      /\ payment[o] = "refund_pending" => resolutions[o] > 0
      /\ status[o] \notin Dead \cup {"absent", "pending_confirmation"}

\* Goods are sold for exactly the orders that were completed; only resolving a
\* failed row can take a sold order out of completed again.
SoldMatchesCompleted ==
  \A o \in Orders :
    /\ status[o] = "completed" => o \in sold
    /\ o \in sold => status[o] = "completed" \/ resolutions[o] > 0

\* An order that ended stays as it ended, unless a delivery row was left in
\* failed: that is the only thing a later step can pick up again.
EndedStaysEnded ==
  [][\A o \in Orders :
       status[o] \in Dead \cup {"completed"} /\ delivery[o] # "failed"
         => status'[o] = status[o]]_lifecycleVars

\* The stock of an order moves only with the order: a step that changes what an
\* order holds changes its status too, so no call is ever repeated on a status.
\* The refused payment is the one exception.
StockMovesWithStatus ==
  [][\A o \in Orders :
       held'[o] # held[o] => status'[o] # status[o] \/ refusals'[o] # refusals[o]]_lifecycleVars

\* Every order that was placed ends, or a courier has it and never says so, or
\* the scheduler was stopped between the two writes of a stalled delivery.
EveryOrderSettles ==
  \A o \in Orders :
    status[o] = "pending_confirmation" ~>
      \/ status[o] \in Dead \cup {"completed", "picked_up"}
      \/ status[o] = "delivering" /\ delivery[o] = "failed"

-----------------------------------------------------------------------------
(* What the code's comments and documents say and the code does not do.    *)

\* docs/PRODUCT_SCOPE.md, invariant 4: cancelling releases a reservation exactly once.
ReleasedOnce == \A o \in Orders, p \in Products : held[o][p] >= 0

\* CanonicalPaymentTransitionService: the outlet, not the gateway, completes an
\* order, and a repeated success stays without effect.
CompletedByHandOver ==
  \A o \in Orders : IsDelivery(o) /\ status[o] = "completed" => delivery[o] = "completed"
=============================================================================
