------------------------------- MODULE OrderPages -------------------------------
(***************************************************************************)
(* The buttons the courier's, the outlet's, the owner's and the customer's *)
(* order pages offer, over the state of OrderLifecycle.  A page renders    *)
(* what its last visit or poll returned and keeps no state of its own that *)
(* a button depends on, so what it offers is a predicate of the order; the *)
(* request behind a button is an action of OrderLifecycle.                 *)
(*                                                                         *)
(* The server guards every one of these requests again.  What can go wrong *)
(* is that the pages' conditions, written a second time in TypeScript,     *)
(* drift from the guards: a button whose request is always refused, or an  *)
(* order nobody has a button for.                                          *)
(***************************************************************************)
EXTENDS OrderLifecycle

-----------------------------------------------------------------------------
(* courier/deliveries/show.tsx, the page of the courier who has the row.   *)

\* Mutant: only the row is looked at.
canConfirmPickupByRow(o) == delivery[o] = "waiting_pickup"

\* Also canReject.
canConfirmPickup(o) == delivery[o] = "waiting_pickup" /\ status[o] = "ready_for_pickup"

canStartDelivery(o) == delivery[o] = "picked_up" /\ status[o] = "picked_up"

\* Also canFail.
canComplete(o) == delivery[o] = "delivering" /\ status[o] = "delivering"

canReturn(o) == delivery[o] = "failed" /\ returning[o] = "none"

\* The buttons of the action bar.
buildActions(o) ==
  {key \in {"pickup", "reject", "start", "complete", "fail", "return"} :
     CASE key \in {"pickup", "reject"}  -> canConfirmPickup(o)
       [] key = "start"                 -> canStartDelivery(o)
       [] key \in {"complete", "fail"}  -> canComplete(o)
       [] key = "return"                -> canReturn(o)}

CourierActs(o) == courier[o] \in Couriers /\ buildActions(o) \ {"reject", "return"} # {}

\* The requests behind them, after a confirmation or with a reason or proof.
postAction(o, key) ==
  \/ key = "pickup" /\ ConfirmPickup(o)
  \/ key = "start" /\ StartDelivery(o)
  \/ key = "return" /\ ReturnToOutlet(o)

SheetSubmit(o, key) ==
  \/ key = "complete" /\ CompleteDelivery(o)
  \/ key = "fail" /\ FailDelivery(o)
  \/ key = "reject" /\ RejectAssignment(o)

-----------------------------------------------------------------------------
(* outlet/deliveries/show.tsx: the outlet acts for a courier of a provider. *)

nextExternalActions ==
  [waiting_pickup |-> {"picked_up"},
   picked_up      |-> {"delivering"},
   delivering     |-> {"completed", "failed"},
   failed         |-> {"returned_to_outlet"}]

ExternalActions(o) ==
  IF courier[o] = External /\ delivery[o] \in DOMAIN nextExternalActions
  THEN nextExternalActions[delivery[o]] ELSE {}

\* transitionExternal
ExternalRequest(o, to) ==
  \/ to = "picked_up" /\ ConfirmPickup(o)
  \/ to = "delivering" /\ StartDelivery(o)
  \/ to = "completed" /\ CompleteDelivery(o)
  \/ to = "failed" /\ FailDelivery(o)
  \/ to = "returned_to_outlet" /\ ReturnToPreparation(o)

-----------------------------------------------------------------------------
(* outlet/orders/show.tsx                                                  *)

\* The statuses its buttons post, by updateStatus and handleCancel.
OutletPosts(o) ==
  CASE status[o] = "pending_confirmation" -> {"confirmed"}
    [] status[o] = "awaiting_preparation" -> {"preparing", "cancelled_by_outlet"}
    [] status[o] = "confirmed"            -> {"preparing", "cancelled_by_outlet"}
    [] status[o] = "preparing"            -> {"ready_for_pickup", "cancelled_by_outlet"}
    [] OTHER                              -> {}

OutletRejects(o) == status[o] = "pending_confirmation"

\* Mutant: no delivery row at all is asked for.
isReadyForPickupWithoutRow(o) ==
  status[o] = "ready_for_pickup" /\ delivery[o] = "none" /\ IsDelivery(o)

\* Assigning a courier, also on the owner's page and the assignment board.
isReadyForPickup(o) ==
  /\ status[o] = "ready_for_pickup"
  /\ delivery[o] \in {"none", "rejected_by_courier"}
  /\ IsDelivery(o)

\* The sheet behind it lists the outlet's own couriers, whom assignCourier refuses
\* for an order of a provider; no page names a provider's courier.
AssignsCourier(o) == isReadyForPickup(o) /\ Fulfilment[o] = "delivery_dombi"

\* An order that waits for a provider's courier, whom no page can name.
AwaitsProvider(o) == isReadyForPickup(o) /\ Fulfilment[o] = "delivery_ojol"

isReadyForCustomerPickup(o) == status[o] = "ready_for_pickup" /\ Fulfilment[o] = "pickup"

-----------------------------------------------------------------------------
(* owner/orders/show.tsx, owner/deliveries/show.tsx                        *)

canResolve(o) == delivery[o] \in {"failed", "returned_to_outlet"}

OwnerCancels(o) ==
  status[o] \in {"confirmed", "preparing", "ready_for_pickup", "failed_delivery"}

\* The options of the resolve sheet.  The request knows no "refund", and the
\* sheet knows no "returned_to_outlet".
resolutionOptions == {"retry_delivery", "refund", "cancelled_and_released"}

ResolutionRequest(o, resolution) ==
  \/ resolution = "retry_delivery" /\ RetryDelivery(o)
  \/ resolution = "cancelled_and_released" /\ CancelAndRelease(o)

-----------------------------------------------------------------------------
(* customer/orders/show.tsx, track.tsx                                     *)

CANCELLABLE_STATUSES == {"pending_confirmation", "awaiting_preparation"}

TERMINAL_STATUSES == Dead \cup {"completed", "failed_delivery"}

isCancellable(o) == status[o] \in CANCELLABLE_STATUSES

\* usePolling is enabled.
PagePolls(o) == status[o] \notin TERMINAL_STATUSES

-----------------------------------------------------------------------------
(* Properties.                                                             *)

\* A row that a failure left behind: the order was made ready again over it, or
\* the stalled-delivery command wrote to one of the two only.
LeftBehind(o) ==
  \/ delivery[o] \in {"failed", "returned_to_outlet"}
  \/ delivery[o] = "delivering" /\ status[o] # "delivering"

\* What a courier's step asks of the order besides what its page looks at is met.
NeedsOnlyPage(o, key) ==
  /\ key \in {"reject", "fail", "return"} \/ payment[o] = "paid"
  /\ key # "complete" \/ CanConsume(o) \/ o \in sold

\* Nobody is offered a step the server refuses ("offering an action the order
\* would reject ends in a failed request").  The courier's page decides on the row
\* and the order; through every interleaving they leave nothing else for the
\* service to refuse but a payment that was taken back, for the steps that need
\* one, and goods that are gone, for completing.  The same goes for staff and a
\* provider's row.  What the customer may press, and the resolve sheet but for the
\* refund it lists, is accepted whatever became of the payment.  Not excepted
\* anywhere is the order's end, but on the page of a provider's row, which does not
\* look at the order (PagePolls).
OffersStand ==
  \A o \in Orders :
    /\ courier[o] \in Couriers =>
         \A key \in buildActions(o) :
           NeedsOnlyPage(o, key) => ENABLED (postAction(o, key) \/ SheetSubmit(o, key))
    /\ isCancellable(o) => ENABLED CancelByCustomer(o)
    /\ OwnerCancels(o) => ENABLED OwnerCancel(o)
    /\ canResolve(o) /\ status[o] = "failed_delivery" =>
         \A resolution \in resolutionOptions \ {"refund"} :
           resolution = "cancelled_and_released" \/ resolutions[o] < MaxRetries =>
             ENABLED ResolutionRequest(o, resolution)
    /\ ~LeftBehind(o) /\ PagePolls(o) =>
         \A to \in ExternalActions(o) \ {"completed"} :
           to = "failed" \/ payment[o] = "paid" => ENABLED ExternalRequest(o, to)
    /\ payment[o] = "paid" =>
         /\ \A to \in OutletPosts(o) : CanTransition(o, to)
         /\ AssignsCourier(o) => \A c \in Couriers : ENABLED AssignCourier(o, c, TRUE)
         /\ isReadyForCustomerPickup(o) /\ CanConsume(o) => ENABLED CompletePickup(o)

\* No paid order is left without a button that takes it further, also when its
\* courier refused it or a failed delivery is tried again: the kitchen, the
\* counter, a courier, or the outlet for its provider's courier has one.  The gap
\* is the order that waits for a provider's courier: its button is there, and
\* every request behind it is refused.
SomebodyCanAct ==
  \A o \in Orders :
    payment[o] = "paid" /\ PagePolls(o) /\ ~LeftBehind(o) /\ ~AwaitsProvider(o) =>
      \/ OutletPosts(o) \ {"cancelled_by_outlet"} # {}
      \/ AssignsCourier(o) \/ isReadyForCustomerPickup(o)
      \/ CourierActs(o)
      \/ ExternalActions(o) # {}
=============================================================================
