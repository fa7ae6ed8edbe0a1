SPECIFICATION FairSpec
CONSTANTS
  o1 = o1
  o2 = o2
  p1 = p1
  c1 = c1
  MaxStock = 2
  MaxReturned = 1
  Orders <- MCOneOrder
  Products <- MCProducts
  Qty <- MCOneQty
  Counts <- MCCounts
  Fulfilment <- MCOneFulfilment
  Couriers <- MCCouriers
  External = External
  Nobody = Nobody
  MaxActive = 1
  MaxRetries = 2
  MaxRefusals = 1
CONSTRAINT Bounded
PROPERTY EveryOrderSettles
