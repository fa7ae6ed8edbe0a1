---------------------------- MODULE OrderStatusGraph ----------------------------
(***************************************************************************)
(* The statuses of an order and the moves between them, as                 *)
(* OrderStatusService declares them.  "absent" is an order before checkout. *)
(***************************************************************************)

TRANSITIONS ==
  [s \in {"pending_confirmation", "awaiting_preparation", "confirmed", "preparing",
          "ready_for_pickup", "picked_up", "delivering", "completed",
          "cancelled_by_customer", "cancelled_by_outlet", "rejected_by_outlet",
          "failed_delivery", "expired", "absent"} |->
     CASE s = "pending_confirmation" ->
            {"awaiting_preparation", "confirmed", "rejected_by_outlet",
             "cancelled_by_customer", "expired"}
       [] s = "awaiting_preparation" ->
            {"preparing", "cancelled_by_outlet", "cancelled_by_customer"}
       [] s = "confirmed"        -> {"preparing", "cancelled_by_outlet"}
       [] s = "preparing"        -> {"ready_for_pickup", "cancelled_by_outlet"}
       [] s = "ready_for_pickup" -> {"picked_up", "delivering", "cancelled_by_outlet"}
       [] s = "picked_up"        -> {"delivering"}
       [] s = "delivering"       -> {"completed", "failed_delivery"}
       [] s = "failed_delivery"  -> {"cancelled_by_outlet", "preparing"}
       [] OTHER                  -> {}]

Statuses == DOMAIN TRANSITIONS

Dead == {"cancelled_by_customer", "cancelled_by_outlet", "rejected_by_outlet", "expired"}

\* Order::HISTORY_STATUSES, isFinalized()
Finalized == Dead \cup {"completed", "failed_delivery"}

\* The statuses transition() lets only a paid order enter.
NeedsPayment == {"confirmed", "preparing", "ready_for_pickup", "picked_up",
                 "delivering", "completed"}
=============================================================================
