\* One attempt, every outcome and every move of the order, and two accounts.  It
\* may stop: the order ended unpaid, with a refused attempt.
SPECIFICATION FairRefundsSpec
CONSTANTS
  MaxAttempts = 1
  MaxInquiries = 1
  Outcomes = {"SUCCESS", "FAILED", "EXPIRED"}
  Moves = {"confirmed", "preparing", "ready_for_pickup", "picked_up", "delivering", "completed",
           "failed_delivery", "cancelled_by_customer", "cancelled_by_outlet", "rejected_by_outlet",
           "expired"}
  Destinations = {BankAccount, EWallet}
  NoDestination = NoDestination
INVARIANTS
  RefundsTypeOK
  MoneyReturnsOnce
  RefundCanMove
PROPERTIES
  TransferTargetStands
  UnknownResolves
CHECK_DEADLOCK FALSE
