SPECIFICATION SettlementsSpec
CONSTANTS
  o1 = o1
  p1 = p1
  s1 = s1
  s2 = s2
  y1 = y1
  y2 = y2
  MaxStock = 2
  MaxJournal = 4
  MaxCredit = 1
  MaxCost = 1
  MaxWeeks = 2
  Orders <- MCOrders
  Products <- MCProducts
  Qty <- MCQty
  Counts <- MCCounts
  Payments <- MCPayments
  Sales <- MCSales
  Share <- MCShare
  Price <- MCPrice
  Amounts <- MCAmounts
  Credits <- MCCredits
  Costs <- MCCosts
SYMMETRY RowSymmetry
CONSTRAINT Bounded
INVARIANTS
  SettlementsTypeOK
  MoneySound
  OfflineIsBilled
PROPERTIES
  OldestFirst
  BillStands
