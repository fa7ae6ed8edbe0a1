SPECIFICATION Spec
CONSTANTS
  o1 = o1
  o2 = o2
  p1 = p1
  c1 = c1
  MaxStock = 2
  MaxReturned = 0
  Orders <- MCOrders
  Products <- MCProducts
  Qty <- MCQty
  Counts <- MCCounts
  Fulfilment <- MCFulfilment
  Couriers <- MCCouriers
  External = External
  Nobody = Nobody
  MaxActive = 1
  MaxRetries = 1
  MaxRefusals = 1
CONSTRAINTS
  Bounded
  CentreEmpty
INVARIANTS
  LifecycleTypeOK
  StockSound
  ReservationExact
  NeverOversold
  DeliveryAgrees
  PaidBeforeDispatch
  SoldMatchesCompleted
  OffersStand
  SomebodyCanAct
PROPERTIES
  EndedStaysEnded
