\* Two attempts of one order.  An order that ended, whose attempts the gateway
\* refused to open, is left alone by everybody: the system may stop.
SPECIFICATION PaymentSpec
CONSTANTS
  MaxAttempts = 2
  MaxInquiries = 1
  Outcomes = {"SUCCESS", "FAILED"}
  Moves = {"confirmed", "preparing", "ready_for_pickup", "cancelled_by_customer", "cancelled_by_outlet"}
CONSTRAINT OneAskedAfter
INVARIANTS
  WorkIsPaidFor
  KeepsAPayment
  SurplusIsOwed
  DeadOwesAll
  ProjectionAgrees
PROPERTIES
  OpenedOnce
CHECK_DEADLOCK FALSE
