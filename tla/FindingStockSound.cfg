SPECIFICATION TransfersSpec
CONSTANTS
  o1 = o1
  p1 = p1
  r1 = r1
  t1 = t1
  h1 = h1
  h2 = h2
  MaxStock = 2
  MaxHeld = 1
  Orders <- MCOrders
  Products <- MCProducts
  Qty <- MCQty
  Counts <- MCCounts
  Restocks <- MCRestocks
  Returns <- MCReturns
  Handlers <- MCHandlers
  Amounts <- MCAmounts
CONSTRAINT Bounded
INVARIANT StockSound
