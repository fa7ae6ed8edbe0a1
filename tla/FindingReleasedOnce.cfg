SPECIFICATION Spec
CONSTANTS
  o1 = o1
  o2 = o2
  p1 = p1
  c1 = c1
  MaxStock = 2
  MaxReturned = 1
  Orders <- MCOrders
  Products <- MCProducts
  Qty <- MCQty
  Counts <- MCCounts
  Fulfilment <- MCFulfilment
  Couriers <- MCCouriers
  External = External
  Nobody = Nobody
  MaxActive = 1
  MaxRetries = 1
  MaxRefusals = 0
CONSTRAINT Bounded
INVARIANT ReleasedOnce
