------------------------- MODULE OutletInventoryProofs -------------------------
(***************************************************************************)
(* Proofs about the stock figures of OutletInventory.  StockInv is         *)
(* inductive: every operation's own guard keeps it, whatever the other     *)
(* operations did before.                                                  *)
(***************************************************************************)
EXTENDS OutletInventory, FiniteSetTheorems, TLAPS

-----------------------------------------------------------------------------
(* Totals.  A total is the number of units of a set of things, so what adding, *)
(* removing and revaluing one thing does to it follows from the cardinalities  *)
(* of finite sets, without an induction over the set.                          *)

\* Nothing has no units.
LEMMA TotalOfNone ==
  ASSUME NEW n
  PROVE  IsFiniteSet(Units({}, n)) /\ Total({}, n) = 0
  BY FS_EmptySet DEF Units, Total

\* The units of one thing.
LEMMA UnitsOfOne ==
  ASSUME NEW x, NEW k \in Nat
  PROVE  IsFiniteSet({x} \X (1..k)) /\ Cardinality({x} \X (1..k)) = k
<1>1. IsFiniteSet(1..k) /\ Cardinality(1..k) = k
  BY FS_Interval
<1>2. IsFiniteSet({x}) /\ Cardinality({x}) = 1
  BY FS_Singleton
<1> QED
  BY <1>1, <1>2, FS_Product

\* A thing that was not counted adds its units.
LEMMA TotalAdd ==
  ASSUME NEW S, NEW n, NEW x, x \notin S, n[x] \in Nat, IsFiniteSet(Units(S, n))
  PROVE  /\ IsFiniteSet(Units(S \cup {x}, n))
         /\ Total(S \cup {x}, n) = Total(S, n) + n[x]
<1> DEFINE X == {x} \X (1..n[x])
<1>1. Units(S \cup {x}, n) = Units(S, n) \cup X
  BY DEF Units
<1>2. Units(S, n) \cap X = {}
  BY DEF Units
<1>3. IsFiniteSet(X) /\ Cardinality(X) = n[x]
  BY UnitsOfOne
<1>4. Cardinality(Units(S, n)) \in Nat
  BY FS_CardinalityType
<1> HIDE DEF X
<1>5. Cardinality(Units(S, n) \cap X) = 0
  BY <1>2, FS_EmptySet
<1>6. /\ IsFiniteSet(Units(S, n) \cup X)
      /\ Cardinality(Units(S, n) \cup X) = Cardinality(Units(S, n)) + Cardinality(X) - 0
  BY <1>3, <1>5, FS_Union
<1>7. Cardinality(Units(S, n)) + Cardinality(X) - 0 = Cardinality(Units(S, n)) + n[x]
  BY <1>3, <1>4
<1>8. Total(S \cup {x}, n) = Total(S, n) + n[x]
  BY <1>1, <1>6, <1>7, Zenon DEF Total
<1> QED
  BY <1>1, <1>6, <1>8

\* A thing that was counted takes its units along.
LEMMA TotalRemove ==
  ASSUME NEW S, NEW n, NEW x \in S, n[x] \in Nat, IsFiniteSet(Units(S, n))
  PROVE  /\ IsFiniteSet(Units(S \ {x}, n))
         /\ Total(S, n) = Total(S \ {x}, n) + n[x]
         /\ Total(S \ {x}, n) \in Nat
<1>1. Units(S \ {x}, n) \subseteq Units(S, n)
  BY DEF Units
<1>2. IsFiniteSet(Units(S \ {x}, n))
  BY <1>1, FS_Subset
<1>3. (S \ {x}) \cup {x} = S /\ x \notin S \ {x}
  OBVIOUS
<1>4. Total(S, n) = Total(S \ {x}, n) + n[x]
  BY <1>2, <1>3, TotalAdd
<1>5. Total(S \ {x}, n) \in Nat
  BY <1>2, FS_CardinalityType DEF Total
<1> QED
  BY <1>2, <1>4, <1>5

\* Only the values of what is counted matter.
LEMMA TotalSame ==
  ASSUME NEW S, NEW n, NEW m, \A x \in S : m[x] = n[x]
  PROVE  Units(S, m) = Units(S, n) /\ Total(S, m) = Total(S, n)
  BY DEF Units, Total

\* What happens to one thing, entering, leaving or changing its value, changes a
\* total by that thing alone.
LEMMA TotalMove ==
  ASSUME NEW S, NEW n, NEW T, NEW m, NEW x, S \ {x} = T \ {x},
         \A y \in S \ {x} : m[y] = n[y], n[x] \in Nat, m[x] \in Nat,
         IsFiniteSet(Units(S, n))
  PROVE  /\ IsFiniteSet(Units(T, m))
         /\ Total(S, n) \in Nat
         /\ Total(T, m) = Total(S, n) - (IF x \in S THEN n[x] ELSE 0)
                                      + (IF x \in T THEN m[x] ELSE 0)
<1> DEFINE R == S \ {x}
<1>1. Total(S, n) \in Nat
  BY FS_CardinalityType DEF Total
<1>2. /\ IsFiniteSet(Units(R, n))
      /\ Total(R, n) \in Nat
      /\ Total(S, n) = Total(R, n) + (IF x \in S THEN n[x] ELSE 0)
  <2>1. CASE x \in S
    BY <2>1, TotalRemove
  <2>2. CASE x \notin S
    <3>1. R = S
      BY <2>2
    <3> HIDE DEF R
    <3> QED
      BY <1>1, <2>2, <3>1
  <2> QED
    BY <2>1, <2>2
<1>3. Units(R, m) = Units(R, n) /\ Total(R, m) = Total(R, n)
  BY TotalSame
<1>4. /\ IsFiniteSet(Units(T, m))
      /\ Total(T, m) = Total(R, n) + (IF x \in T THEN m[x] ELSE 0)
  <2>1. CASE x \in T
    <3>1. R \cup {x} = T /\ x \notin R
      BY <2>1
    <3> HIDE DEF R
    <3> QED
      BY <1>2, <1>3, <2>1, <3>1, TotalAdd
  <2>2. CASE x \notin T
    <3>1. R = T
      BY <2>2
    <3> HIDE DEF R
    <3> QED
      BY <1>2, <1>3, <2>2, <3>1
  <2> QED
    BY <2>1, <2>2
<1> HIDE DEF R
<1>5. Total(T, m) = Total(S, n) - (IF x \in S THEN n[x] ELSE 0)
                                + (IF x \in T THEN m[x] ELSE 0)
  BY <1>2, <1>4
<1> QED
  BY <1>1, <1>4, <1>5

-----------------------------------------------------------------------------
(* The stock figures.                                                      *)

StockInv == StockTypeOK /\ StockSound

\* A reservation takes at most what is available.
LEMMA ReserveKeepsStock ==
  ASSUME StockInv, NEW o \in Orders, Reserve(o)
  PROVE  StockInv'
<1>1. \A p \in Products : Qty[o][p] \in Nat
  BY QtyAssumption
<1>2. [p \in Products |-> held[o][p] + Qty[o][p]] \in [Products -> Int]
  BY <1>1 DEF StockInv, StockTypeOK
<1>3. StockTypeOK'
  BY <1>1, <1>2 DEF StockInv, StockTypeOK, Reserve
<1>4. StockSound'
  BY <1>1 DEF StockInv, StockTypeOK, StockSound, Reserve, CanReserve
<1> QED
  BY <1>3, <1>4 DEF StockInv

\* What a release takes is between zero and what is reserved: the clamp.
LEMMA ReleasableBounded ==
  ASSUME StockInv, NEW o \in Orders, NEW p \in Products
  PROVE  /\ Releasable(o, p) \in Int
         /\ 0 <= Releasable(o, p)
         /\ Releasable(o, p) <= reserved[p]
  BY QtyAssumption DEF StockInv, StockTypeOK, StockSound, Releasable

\* A release, repeated or not, never drives the reserved figure below zero.
LEMMA ReleaseKeepsStock ==
  ASSUME StockInv, NEW o \in Orders, Release(o)
  PROVE  StockInv'
<1>1. \A p \in Products : /\ Releasable(o, p) \in Int
                          /\ 0 <= Releasable(o, p)
                          /\ Releasable(o, p) <= reserved[p]
  BY ReleasableBounded
<1>2. [p \in Products |-> held[o][p] - Releasable(o, p)] \in [Products -> Int]
  BY <1>1 DEF StockInv, StockTypeOK
<1>3. StockTypeOK'
  BY <1>1, <1>2 DEF StockInv, StockTypeOK, Release
<1>4. StockSound'
  BY <1>1 DEF StockInv, StockTypeOK, StockSound, Release
<1> QED
  BY <1>3, <1>4 DEF StockInv

\* A sale takes the same units from both figures.
LEMMA ConsumeKeepsStock ==
  ASSUME StockInv, NEW o \in Orders, Consume(o)
  PROVE  StockInv'
<1>1. CASE UNCHANGED stockVars
  BY <1>1 DEF StockInv, StockTypeOK, StockSound, stockVars
<1>2. CASE Sell(o)
  <2>1. \A p \in Products : Qty[o][p] \in Nat
    BY QtyAssumption
  <2>2. [p \in Products |-> held[o][p] - Qty[o][p]] \in [Products -> Int]
    BY <2>1 DEF StockInv, StockTypeOK
  <2>3. held' \in [Orders -> [Products -> Int]] /\ sold' \in SUBSET Orders
    BY <1>2, <2>2 DEF StockInv, StockTypeOK, Sell
  <2>4. StockTypeOK'
    BY <1>2, <2>1, <2>3 DEF StockInv, StockTypeOK, Sell, CanConsume
  <2>5. StockSound'
    BY <1>2, <2>1 DEF StockInv, StockTypeOK, StockSound, Sell, CanConsume
  <2> QED
    BY <2>4, <2>5 DEF StockInv
<1> QED
  BY <1>1, <1>2 DEF Consume

\* Staff cannot set the shelf below the reservations, nor empty the centre
\* below zero.
LEMMA StaffKeepsStock ==
  ASSUME StockInv, NEW p \in Products, NEW n \in Counts, StaffStockStep(p, n)
  PROVE  StockInv'
<1>1. n \in Nat
  BY CountsAssumption
<1>2. CASE SetCurrent(p, n)
  BY <1>1, <1>2 DEF StockInv, StockTypeOK, StockSound, SetCurrent
<1>3. CASE RestockOutlet(p, n)
  BY <1>1, <1>3 DEF StockInv, StockTypeOK, StockSound, RestockOutlet
<1>4. CASE UpdateCenterStock(p, n)
  BY <1>1, <1>4 DEF StockInv, StockTypeOK, StockSound, UpdateCenterStock
<1> QED
  BY <1>2, <1>3, <1>4 DEF StaffStockStep, AdjustStock, StockOpname

\* The outlet opens with counted stock and nothing reserved.
LEMMA StockInitEstablishes ==
  ASSUME StockInit
  PROVE  StockInv
<1>1. \A p \in Products : current[p] \in Nat /\ center[p] \in Nat
  BY CountsAssumption DEF StockInit
<1>2. /\ current \in [Products -> Int]
      /\ center \in [Products -> Int]
  BY <1>1 DEF StockInit
<1> QED
  BY <1>1, <1>2 DEF StockInit, StockInv, StockTypeOK, StockSound

-----------------------------------------------------------------------------
\* StockTypeOK and StockSound hold of InventoryService whatever its callers do,
\* for every set of orders, products and quantities.
THEOREM StockAlwaysSound == StockSpec => []StockInv
<1>1. StockInit => StockInv
  BY StockInitEstablishes
<1>2. StockInv /\ [StockNext]_stockVars => StockInv'
  <2> SUFFICES ASSUME StockInv, [StockNext]_stockVars
               PROVE  StockInv'
    OBVIOUS
  <2>1. CASE \E o \in Orders : OrderStockStep(o)
    BY <2>1, ReserveKeepsStock, ReleaseKeepsStock, ConsumeKeepsStock DEF OrderStockStep
  <2>2. CASE \E p \in Products, n \in Counts : StaffStockStep(p, n)
    BY <2>2, StaffKeepsStock
  <2>3. CASE UNCHANGED stockVars
    BY <2>3 DEF StockInv, StockTypeOK, StockSound, stockVars
  <2> QED
    BY <2>1, <2>2, <2>3 DEF StockNext
<1> QED
  BY <1>1, <1>2, PTL DEF StockSpec

\* The reserved figure never exceeds the shelf and no figure is negative.
THEOREM StockSoundHolds == StockSpec => []StockSound
<1>1. StockInv => StockSound
  BY DEF StockInv
<1> QED
  BY <1>1, StockAlwaysSound, PTL

\* Every operation of InventoryService writes the movement that explains what
\* it did to the shelf: the counted movements sum up to the current figure.
THEOREM JournalMatchesStockHolds == StockSpec => []JournalMatchesStock
<1>1. StockInit => JournalMatchesStock
  BY DEF StockInit, JournalMatchesStock
<1>2. StockInv /\ JournalMatchesStock /\ [StockNext]_stockVars => JournalMatchesStock'
  <2> SUFFICES ASSUME StockInv, JournalMatchesStock, [StockNext]_stockVars
               PROVE  JournalMatchesStock'
    OBVIOUS
  <2> USE DEF JournalMatchesStock
  <2>1. ASSUME NEW o \in Orders, OrderStockStep(o)
        PROVE  JournalMatchesStock'
    BY <2>1 DEF OrderStockStep, Reserve, Release, Consume, Sell, stockVars
  <2>2. ASSUME NEW p \in Products, NEW n \in Counts, StaffStockStep(p, n)
        PROVE  JournalMatchesStock'
    <3>1. n \in Nat
      BY CountsAssumption
    <3> QED
      BY <2>2, <3>1 DEF StaffStockStep, AdjustStock, StockOpname, SetCurrent, RestockOutlet,
                        UpdateCenterStock, StockInv, StockTypeOK
  <2>3. CASE UNCHANGED stockVars
    BY <2>3 DEF stockVars
  <2> QED
    BY <2>1, <2>2, <2>3 DEF StockNext
<1> QED
  BY <1>1, <1>2, StockAlwaysSound, PTL DEF StockSpec

\* What LeavesShelfOnce asks of a step, for one product.
LeavesOnce(p) ==
  current'[p] < current[p] =>
    \/ \E o \in Orders \ sold : /\ sold' = sold \cup {o}
                                /\ current[p] - current'[p] = Qty[o][p]
    \/ sold' = sold /\ reserved' = reserved

\* Every operation of the service does.
LEMMA StockNextLeavesOnce ==
  ASSUME StockInv, StockNext, NEW p \in Products
  PROVE  LeavesOnce(p)
<1> USE DEF LeavesOnce
<1>0. ASSUME current' = current
      PROVE  LeavesOnce(p)
  <2>1. ~(current'[p] < current[p])
    BY <1>0 DEF StockInv, StockTypeOK
  <2> QED
    BY <2>1
<1>1. ASSUME NEW o \in Orders, Reserve(o) \/ Release(o)
      PROVE  LeavesOnce(p)
  <2>1. current' = current
    BY <1>1 DEF Reserve, Release
  <2> QED
    BY <1>0, <2>1
<1>2. ASSUME NEW o \in Orders, Consume(o)
      PROVE  LeavesOnce(p)
  <2>1. CASE UNCHANGED stockVars
    <3>1. current' = current
      BY <2>1 DEF stockVars
    <3> QED
      BY <1>0, <3>1
  <2>2. CASE o \notin sold /\ Sell(o)
    <3>1. Qty[o][p] \in Nat /\ current[p] \in Nat
      BY QtyAssumption DEF StockInv, StockTypeOK
    <3>2. current'[p] = current[p] - Qty[o][p]
      BY <2>2 DEF Sell
    <3>3. current[p] - current'[p] = Qty[o][p]
      BY <3>1, <3>2
    <3> QED
      BY <2>2, <3>3 DEF Sell
  <2> QED
    BY <1>2, <2>1, <2>2 DEF Consume
<1>3. ASSUME NEW q \in Products, NEW n \in Counts, StaffStockStep(q, n)
      PROVE  LeavesOnce(p)
  BY <1>3 DEF StaffStockStep, AdjustStock, StockOpname, SetCurrent, RestockOutlet,
              UpdateCenterStock
<1> QED
  BY <1>1, <1>2, <1>3 DEF StockNext, OrderStockStep

\* The units of an order leave the shelf at most once, however often
\* completeOrderStock is called for it.
THEOREM LeavesShelfOnceHolds == StockSpec => LeavesShelfOnce
<1>1. ASSUME StockInv, [StockNext]_stockVars
      PROVE  [\A p \in Products : LeavesOnce(p)]_stockVars
  BY <1>1, StockNextLeavesOnce
<1>2. [\A p \in Products : LeavesOnce(p)]_stockVars
      => [\A p \in Products : current'[p] < current[p] =>
            \/ \E o \in Orders \ sold : /\ sold' = sold \cup {o}
                                        /\ current[p] - current'[p] = Qty[o][p]
            \/ sold' = sold /\ reserved' = reserved]_stockVars
  BY DEF LeavesOnce
<1> QED
  BY <1>1, <1>2, StockAlwaysSound, PTL DEF StockSpec, LeavesShelfOnce
=============================================================================
