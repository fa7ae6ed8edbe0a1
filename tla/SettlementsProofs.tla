--------------------------- MODULE SettlementsProofs ---------------------------
(***************************************************************************)
(* Proofs about Settlements, for any number of weeks, orders, sales and    *)
(* payments and any prices, amounts and credits.                           *)
(***************************************************************************)
EXTENDS Settlements, OutletInventoryProofs

-----------------------------------------------------------------------------
(* Totals of finite sets, and first in, first out.                         *)

\* Finitely many things have finitely many units.
LEMMA UnitsFinite ==
  ASSUME NEW S, IsFiniteSet(S), NEW n, \A x \in S : n[x] \in Nat
  PROVE  IsFiniteSet(Units(S, n)) /\ Total(S, n) \in Nat
<1> DEFINE U(x) == {x} \X (1..n[x])
           T == {U(x) : x \in S}
           f == [x \in S |-> U(x)]
<1>1. f \in Surjection(S, T)
  BY DEF Surjection
<1>2. IsFiniteSet(T)
  <2> HIDE DEF f, T
  <2> QED
    BY <1>1, FS_Surjection
<1>3. \A t \in T : IsFiniteSet(t)
  <2>1. \A x \in S : IsFiniteSet(U(x))
    BY UnitsOfOne
  <2> HIDE DEF U
  <2> QED
    BY <2>1
<1>4. Units(S, n) = UNION T
  BY DEF Units
<1>5. IsFiniteSet(Units(S, n))
  <2> HIDE DEF T
  <2> QED
    BY <1>2, <1>3, <1>4, FS_UNION
<1> QED
  BY <1>5, FS_CardinalityType DEF Total

\* A part has no more units than the whole.
LEMMA TotalOfPart ==
  ASSUME NEW S, NEW n, IsFiniteSet(Units(S, n)), NEW R \in SUBSET S
  PROVE  IsFiniteSet(Units(R, n)) /\ Total(R, n) \in Nat /\ Total(R, n) <= Total(S, n)
<1>1. Units(R, n) \in SUBSET Units(S, n)
  BY DEF Units
<1> QED
  BY <1>1, FS_Subset, FS_CardinalityType DEF Total

\* A new value of one thing changes the whole by the difference.
LEMMA TotalChange ==
  ASSUME NEW S, NEW n, NEW m, NEW x \in S, \A y \in S \ {x} : m[y] = n[y],
         n[x] \in Nat, m[x] \in Nat, IsFiniteSet(Units(S, n))
  PROVE  IsFiniteSet(Units(S, m)) /\ Total(S, m) = Total(S, n) - n[x] + m[x]
<1> DEFINE R == S \ {x}
<1>1. /\ IsFiniteSet(Units(R, n)) /\ Total(R, n) \in Nat
      /\ Total(S, n) = Total(R, n) + n[x]
  BY TotalRemove
<1>2. Units(R, m) = Units(R, n) /\ Total(R, m) = Total(R, n)
  BY TotalSame
<1>3. R \cup {x} = S /\ x \notin R
  OBVIOUS
<1> HIDE DEF R
<1>4. IsFiniteSet(Units(S, m)) /\ Total(S, m) = Total(R, m) + m[x]
  BY <1>1, <1>2, <1>3, TotalAdd
<1> QED
  BY <1>1, <1>2, <1>4

\* The settlements of a bounded number of weeks are finitely many.
LEMMA WeeksFinite ==
  ASSUME NEW C \in SUBSET Weeks
  PROVE  IsFiniteSet(C)
<1>1. IsFiniteSet(Weeks)
  BY FS_Interval, WeeksAssumption DEF Weeks
<1> QED
  BY <1>1, FS_Subset

\* What is outstanding, as a function of weeks: the settlements themselves do not
\* matter to the lemmas on first in, first out.
OutstandingOK == Outstanding \in [Weeks -> Nat]

\* The units of a settlement come after those of all older ones, and within all
\* that is owed.
LEMMA BeforeGrows ==
  ASSUME OutstandingOK, NEW C \in SUBSET Weeks, NEW w \in C
  PROVE  /\ Before(C, w) \in Nat
         /\ Owed(C) \in Nat
         /\ Before(C, w) + Outstanding[w] <= Owed(C)
         /\ \A x \in C : w < x => Before(C, w) + Outstanding[w] <= Before(C, x)
<1> DEFINE older(x) == {v \in C : v < x}
<1>1. w \in Weeks /\ w \in Int /\ Outstanding[w] \in Nat /\ C \subseteq Int
  BY DEF OutstandingOK, Weeks
<1>2. \A D \in SUBSET C : IsFiniteSet(Units(D, Outstanding)) /\ Total(D, Outstanding) \in Nat
  BY WeeksFinite, UnitsFinite DEF OutstandingOK
<1>3. Total(older(w) \cup {w}, Outstanding) = Total(older(w), Outstanding) + Outstanding[w]
  <2>1. w \notin older(w) /\ older(w) \in SUBSET C
    BY <1>1
  <2> HIDE DEF older
  <2> QED
    BY <1>1, <1>2, <2>1, TotalAdd
<1>4. \A D \in SUBSET C : older(w) \cup {w} \subseteq D =>
        Total(older(w), Outstanding) + Outstanding[w] <= Total(D, Outstanding)
  <2> HIDE DEF older
  <2> QED
    BY <1>2, <1>3, TotalOfPart
<1>5. older(w) \cup {w} \subseteq C
  OBVIOUS
<1>6. \A x \in C : w < x => older(w) \cup {w} \subseteq older(x)
  <2> SUFFICES ASSUME NEW x \in C, w < x, NEW v \in C, v < w \/ v = w
               PROVE  v < x
    OBVIOUS
  <2>1. v \in Int /\ x \in Int
    BY <1>1
  <2> QED
    BY <1>1, <2>1
<1>7. \A x \in C : older(x) \in SUBSET C
  OBVIOUS
<1> HIDE DEF older
<1>8. \A x \in C : Before(C, x) = Total(older(x), Outstanding)
  BY DEF Before, Owed, older
<1> QED
  BY <1>2, <1>4, <1>5, <1>6, <1>7, <1>8 DEF Owed

\* A share is between nothing and what is outstanding, and only the settlements of
\* the path get one.
LEMMA FifoShareBounds ==
  ASSUME OutstandingOK, NEW C \in SUBSET Weeks, NEW a \in Nat
  PROVE  /\ FifoShare(C, a) \in [Weeks -> Nat]
         /\ \A w \in Weeks :
              /\ FifoShare(C, a)[w] <= Outstanding[w]
              /\ FifoShare(C, a)[w] > 0 <=> w \in Path(C, a)
              /\ w \in Path(C, a) => /\ w \in C
                                    /\ Before(C, w) + FifoShare(C, a)[w] <= a
                                    /\ \/ FifoShare(C, a)[w] = Outstanding[w]
                                       \/ Before(C, w) + FifoShare(C, a)[w] = a
<1>1. \A w \in C : Before(C, w) \in Nat
  BY BeforeGrows
<1>2. \A w \in Weeks : Outstanding[w] \in Nat
  BY DEF OutstandingOK
<1>3. ASSUME NEW w \in Weeks
      PROVE  /\ FifoShare(C, a)[w] \in Nat
             /\ FifoShare(C, a)[w] <= Outstanding[w]
             /\ FifoShare(C, a)[w] > 0 <=> w \in Path(C, a)
             /\ w \in Path(C, a) => /\ w \in C
                                   /\ Before(C, w) + FifoShare(C, a)[w] <= a
                                   /\ \/ FifoShare(C, a)[w] = Outstanding[w]
                                      \/ Before(C, w) + FifoShare(C, a)[w] = a
  <2>1. CASE w \in Path(C, a)
    <3>1. w \in C /\ Outstanding[w] > 0 /\ Before(C, w) < a
      BY <2>1 DEF Path
    <3>2. FifoShare(C, a)[w] =
            IF a - Before(C, w) < Outstanding[w] THEN a - Before(C, w) ELSE Outstanding[w]
      BY <2>1 DEF FifoShare
    <3> QED
      BY <1>1, <1>2, <2>1, <3>1, <3>2
  <2>2. CASE w \notin Path(C, a)
    <3>1. FifoShare(C, a)[w] = 0
      BY <2>2 DEF FifoShare
    <3> QED
      BY <1>2, <2>2, <3>1
  <2> QED
    BY <2>1, <2>2
<1>4. FifoShare(C, a) = [w \in Weeks |-> FifoShare(C, a)[w]]
  BY DEF FifoShare
<1> QED
  BY <1>3, <1>4

\* The shares of an amount that is owed add up to it.  Count the owed units in the
\* order in which they are paid: the rank of a unit is one to one with 1..Owed(C),
\* and the shares are the units of rank at most the amount.
LEMMA FifoTakesAll ==
  ASSUME OutstandingOK, NEW C \in SUBSET Weeks, NEW a \in Nat, a <= Owed(C)
  PROVE  Total(Weeks, FifoShare(C, a)) = a
<1> DEFINE U == Units(C, Outstanding)
           rank == [u \in U |-> Before(C, u[1]) + u[2]]
           taken == {u \in U : rank[u] <= a}
<1>1. \A w \in C : /\ w \in Int
                    /\ Before(C, w) \in Nat /\ Outstanding[w] \in Nat
                    /\ Before(C, w) + Outstanding[w] <= Owed(C)
                    /\ \A x \in C : w < x => Before(C, w) + Outstanding[w] <= Before(C, x)
  BY BeforeGrows DEF OutstandingOK, Weeks
<1>2. \A u \in U : /\ u[1] \in C /\ u[2] \in 1..Outstanding[u[1]] /\ u = <<u[1], u[2]>>
                    /\ rank[u] = Before(C, u[1]) + u[2]
  BY DEF Units
<1>3. IsFiniteSet(U) /\ Cardinality(U) = Owed(C) /\ Owed(C) \in Nat
  BY WeeksFinite, UnitsFinite DEF Owed, Total, OutstandingOK
<1>4. rank \in [U -> 1..Owed(C)]
  <2>1. \A u \in U : rank[u] \in 1..Owed(C)
    <3> HIDE DEF U, rank
    <3> QED
      BY <1>1, <1>2, <1>3
  <2>2. rank = [u \in U |-> rank[u]]
    OBVIOUS
  <2> HIDE DEF U, rank
  <2> QED
    BY <2>1, <2>2
<1>5. ASSUME NEW u \in U, NEW v \in U, rank[u] = rank[v]
      PROVE  u = v
  <2> HIDE DEF U, rank
  <2>1. ~(u[1] < v[1])
    BY <1>1, <1>2, <1>5
  <2>2. ~(v[1] < u[1])
    BY <1>1, <1>2, <1>5
  <2>3. u[1] = v[1]
    BY <1>1, <1>2, <2>1, <2>2
  <2>4. u[2] = v[2]
    BY <1>1, <1>2, <1>5, <2>3
  <2> QED
    BY <1>2, <2>3, <2>4
<1>6. rank \in Surjection(U, 1..Owed(C))
  <2> HIDE DEF U, rank
  <2>1. rank \in Injection(U, 1..Owed(C))
    BY <1>4, <1>5 DEF Injection, IsInjective
  <2>2. IsFiniteSet(1..Owed(C)) /\ Cardinality(1..Owed(C)) = Owed(C)
    BY <1>3, FS_Interval
  <2> QED
    BY <1>3, <2>1, <2>2, FS_Injection
<1>7. IsFiniteSet(taken) /\ Cardinality(taken) = a
  <2> DEFINE g == [u \in taken |-> rank[u]]
  <2> HIDE DEF U, rank
  <2>1. \A u \in taken : u \in U /\ g[u] = rank[u] /\ rank[u] \in 1..a
    BY <1>3, <1>4
  <2>2. g \in Injection(taken, 1..a)
    <3>1. g \in [taken -> 1..a]
      BY <2>1
    <3>2. \A u, v \in taken : g[u] = g[v] => u = v
      BY <1>5, <2>1
    <3> HIDE DEF g, taken
    <3> QED
      BY <3>1, <3>2 DEF Injection, IsInjective
  <2>3. \A k \in 1..a : \E u \in taken : g[u] = k
    <3> SUFFICES ASSUME NEW k \in 1..a
                 PROVE  \E u \in taken : g[u] = k
      OBVIOUS
    <3>1. k \in 1..Owed(C)
      BY <1>3
    <3>2. PICK u \in U : rank[u] = k
      BY <1>6, <3>1 DEF Surjection
    <3>3. u \in taken
      BY <3>2
    <3> QED
      BY <2>1, <3>2, <3>3
  <2>4. IsFiniteSet(taken)
    BY <1>3, FS_Subset
  <2>5. g \in Bijection(taken, 1..a)
    <3> HIDE DEF g, taken
    <3> QED
      BY <2>2, <2>3 DEF Bijection, Surjection, Injection
  <2>6. Cardinality(1..a) = a
    BY FS_Interval
  <2> HIDE DEF g, taken
  <2>7. Cardinality(1..a) = Cardinality(taken)
    BY <2>4, <2>5, FS_Bijection DEF ExistsBijection
  <2> QED
    BY <2>4, <2>6, <2>7
<1>8. taken = Units(Weeks, FifoShare(C, a))
  <2>1. ASSUME NEW w \in C, NEW i \in 1..Outstanding[w], Before(C, w) + i <= a
        PROVE  i \in 1..FifoShare(C, a)[w]
    <3>1. w \in Weeks /\ w \in Path(C, a)
      BY <1>1, <2>1 DEF Path
    <3> QED
      BY <1>1, <2>1, <3>1, FifoShareBounds
  <2>2. ASSUME NEW w \in Weeks, NEW i \in 1..FifoShare(C, a)[w]
        PROVE  w \in C /\ i \in 1..Outstanding[w] /\ Before(C, w) + i <= a
    <3>1. FifoShare(C, a)[w] \in Nat /\ FifoShare(C, a)[w] > 0
      BY FifoShareBounds
    <3>2. w \in C /\ Before(C, w) + FifoShare(C, a)[w] <= a
      BY <3>1, FifoShareBounds
    <3>3. FifoShare(C, a)[w] <= Outstanding[w]
      BY FifoShareBounds
    <3> QED
      BY <1>1, <3>1, <3>2, <3>3
  <2>3. ASSUME NEW u \in taken
        PROVE  u \in Units(Weeks, FifoShare(C, a))
    <3>1. /\ u = <<u[1], u[2]>> /\ u[1] \in C /\ u[2] \in 1..Outstanding[u[1]]
          /\ Before(C, u[1]) + u[2] <= a
      BY <1>2
    <3>2. u[2] \in 1..FifoShare(C, a)[u[1]] /\ u[1] \in Weeks
      BY <2>1, <3>1
    <3> QED
      BY <3>1, <3>2 DEF Units
  <2>4. ASSUME NEW u \in Units(Weeks, FifoShare(C, a))
        PROVE  u \in taken
    <3>1. /\ u = <<u[1], u[2]>> /\ u[1] \in Weeks /\ u[2] \in 1..FifoShare(C, a)[u[1]]
      BY DEF Units
    <3>2. /\ u[1] \in C /\ u[2] \in 1..Outstanding[u[1]] /\ Before(C, u[1]) + u[2] <= a
      BY <2>2, <3>1
    <3>3. u \in U
      BY <3>1, <3>2 DEF Units
    <3> QED
      BY <1>2, <3>2, <3>3
  <2> HIDE DEF taken
  <2> QED
    BY <2>3, <2>4
<1> HIDE DEF taken
<1> QED
  BY <1>7, <1>8 DEF Total

-----------------------------------------------------------------------------
(* The parts of a settlement.                                              *)

\* A settlement that exists has the status that its figures ask for.
StatusFits(s) ==
  s.status # "none" =>
    /\ s.direction = DirectionOf(Net(s.bill))
    /\ s.status = "paid" <=> (Due(s) = 0 \/ Credited(s) >= Due(s))

\* The figures of a settlement are numbers.
LEMMA Figures ==
  ASSUME NEW s \in SettlementRows
  PROVE  /\ Net(s.bill) \in Int /\ Due(s) \in Nat /\ Credited(s) \in Int
         /\ Left(s) \in Nat
         /\ DirectionOf(Net(s.bill)) \in {OwnerPays, OutletPays}
<1>1. Net(s.bill) \in Int /\ Credited(s) \in Int
  BY DEF SettlementRows, Bills, Net, Credited
<1>2. Due(s) \in Nat
  BY <1>1 DEF Due, Magnitude
<1> QED
  BY <1>1, <1>2 DEF Left, DirectionOf

\* Recalculating gives a settlement its status and touches none of its figures.
LEMMA RecalculatedFits ==
  ASSUME NEW s \in SettlementRows, s.direction = DirectionOf(Net(s.bill))
  PROVE  /\ Recalculated(s) \in SettlementRows
         /\ Recalculated(s).status # "none"
         /\ StatusFits(Recalculated(s))
         /\ Recalculated(s).bill = s.bill
         /\ Recalculated(s).adjustment = s.adjustment
         /\ Recalculated(s).paid = s.paid
         /\ Recalculated(s).direction = s.direction
<1> DEFINE r == Recalculated(s)
<1>1. Net(s.bill) \in Int /\ Due(s) \in Nat /\ Credited(s) \in Int
  BY Figures
<1>2. CASE Due(s) = 0
  <2>1. r = [s EXCEPT !.status = "paid"]
    BY <1>2 DEF Recalculated
  <2>2. r \in SettlementRows /\ r.status = "paid"
    BY <2>1 DEF SettlementRows
  <2>3. /\ r.bill = s.bill /\ r.adjustment = s.adjustment
        /\ r.paid = s.paid /\ r.direction = s.direction
    BY <2>1 DEF SettlementRows
  <2> HIDE DEF r
  <2>4. Due(r) = 0
    BY <1>2, <2>3 DEF Due
  <2> QED
    BY <2>2, <2>3, <2>4 DEF StatusFits, r
<1>3. CASE Due(s) # 0
  <2> DEFINE covered == Credited(s) >= Due(s)
             surplus == IF covered THEN Credited(s) - Due(s) ELSE 0
  <2>1. r = [s EXCEPT !.direction = DirectionOf(Net(s.bill)),
                      !.status = IF covered THEN "paid" ELSE "open",
                      !.overpaid = surplus]
    BY <1>3 DEF Recalculated
  <2>2. surplus \in Nat
    BY <1>1
  <2>3. r \in SettlementRows /\ r.status = IF covered THEN "paid" ELSE "open"
    <3> HIDE DEF surplus, covered
    <3> QED
      BY <2>1, <2>2 DEF SettlementRows
  <2>4. /\ r.bill = s.bill /\ r.adjustment = s.adjustment
        /\ r.paid = s.paid /\ r.direction = s.direction
    <3> HIDE DEF surplus, covered
    <3> QED
      BY <2>1 DEF SettlementRows
  <2> HIDE DEF r
  <2>5. Due(r) = Due(s) /\ Credited(r) = Credited(s)
    BY <2>4 DEF Due, Credited
  <2> QED
    BY <1>3, <2>3, <2>4, <2>5 DEF StatusFits, r
<1> QED
  BY <1>2, <1>3

\* What is outstanding is a number for every week.
LEMMA OutstandingTyped ==
  ASSUME SettlementsTypeOK
  PROVE  OutstandingOK
<1>1. \A w \in Weeks : Left(settlement[w]) \in Nat
  BY Figures DEF SettlementsTypeOK
<1> QED
  BY <1>1 DEF OutstandingOK, Outstanding

-----------------------------------------------------------------------------
(* What a step does to the bills and to the money.                         *)

\* The sources of the bills are what they should be, finitely many sales included.
SourcesOK ==
  /\ books \in [Weeks -> [orders : SUBSET Orders, share : Int, costs : Nat]]
  /\ sales \subseteq [id : Sales, week : Weeks, product : Products, units : Nat]
  /\ IsFiniteSet(sales)
  /\ credit \in [Weeks -> Int]

\* A week can then be billed, its counter sales included.
SourcesFit ==
  \A w \in Weeks : Source(w) \in Bills /\ Source(w).offline = OfflineTotal(w)

LEMMA SourcesTyped == SourcesOK => SourcesFit
<1> SUFFICES ASSUME SourcesOK, NEW w \in Weeks
             PROVE  Source(w) \in Bills /\ Source(w).offline = OfflineTotal(w)
  BY DEF SourcesFit
<1> DEFINE rows == CounterRows(w)
           price == [r \in rows |-> Price[r.product] * r.units]
<1>1. OfflineTotal(w) = Total(rows, price)
  BY DEF OfflineTotal
<1>2. IsFiniteSet(rows)
  BY FS_Subset DEF SourcesOK, CounterRows
<1>3. \A r \in rows : price[r] \in Nat
  <2> SUFFICES ASSUME NEW r \in rows
               PROVE  Price[r.product] * r.units \in Nat
    OBVIOUS
  <2>1. Price[r.product] \in Nat /\ r.units \in Nat
    BY PricesAssumption DEF SourcesOK, CounterRows
  <2> QED
    BY <2>1
<1>4. OfflineTotal(w) \in Nat
  <2> HIDE DEF rows, price
  <2> QED
    BY <1>1, <1>2, <1>3, UnitsFinite
<1>5. CASE NothingSold(w)
  <2>1. rows = {}
    BY <1>5 DEF NothingSold
  <2>2. OfflineTotal(w) = 0
    BY <1>1, <2>1, TotalOfNone
  <2>3. Source(w) = Nothing
    BY <1>5 DEF Source
  <2> QED
    BY <2>2, <2>3 DEF Nothing, Bills
<1>6. CASE ~NothingSold(w)
  <2>1. Source(w) = [orders |-> books[w].orders, share |-> books[w].share,
                     offline |-> OfflineTotal(w), costs |-> books[w].costs]
    BY <1>6 DEF Source
  <2>2. books[w] \in [orders : SUBSET Orders, share : Int, costs : Nat]
    BY DEF SourcesOK
  <2> QED
    BY <1>4, <2>1, <2>2 DEF Bills
<1> QED
  BY <1>5, <1>6

\* Only the sales of one week change.
SalesOfOtherWeeksStay(w) == \A v \in Weeks \ {w} : CounterRows(v)' = CounterRows(v)

\* A payment names no settlement, or one that is due in its direction.
TargetFits(r) ==
  r.target # NoWeek => Exists(r.target) /\ settlement[r.target].direction = r.direction

\* Payment p gets a row, and no other payment does.
Becomes(p, row) ==
  /\ payment[p].status # "verified"
  /\ row \in PaymentRows /\ TargetFits(row)
  /\ payment' = [payment EXCEPT ![p] = row]

\* The five kinds of steps: the money and the bills are left alone, the bill of a
\* week is generated, its adjustment is synchronised, a payment is handed in or
\* rejected, or a payment is verified and allocated.
KeepsBills == UNCHANGED <<sales, billVars, payVars>>

Generates(w) == SalesOfOtherWeeksStay(w) /\ Generate(w) /\ UNCHANGED payVars

Adjusts(w) == UNCHANGED sales /\ Sync(w) /\ UNCHANGED payVars

Enters(p) ==
  /\ UNCHANGED <<sales, billVars, alloc>>
  /\ \E row : Becomes(p, row) /\ row.status \in {"pending", "rejected"}

Pays(p, d, a) ==
  /\ d \in {OwnerPays, OutletPays} /\ a \in Nat /\ a <= Owed(Unpaid(d))
  /\ \E row : /\ Becomes(p, row)
              /\ row.status = "verified" /\ row.direction = d /\ row.amount = a
  /\ Allocate(p, Unpaid(d), a)

StepKind ==
  \/ KeepsBills
  \/ \E w \in Weeks : Generates(w) \/ Adjusts(w)
  \/ \E p \in Payments : Enters(p) \/ \E d, a : Pays(p, d, a)

-----------------------------------------------------------------------------
(* The stock and the sources of the bills.                                 *)

\* What the sales at the counter need to know of the rest.
BooksInv == SettlementsTypeOK /\ StockSound /\ IsFiniteSet(sales)

\* What every step keeps of it, the settlements apart.
BooksStay == StockInv /\ SourcesOK /\ week \in Weeks

\* A step that leaves stock, week and sources alone keeps them.
LEMMA IdleBooks ==
  ASSUME BooksInv, UNCHANGED <<stockVars, week, sourceVars>>
  PROVE  BooksStay'
  BY DEF BooksInv, BooksStay, SettlementsTypeOK, StockInv, StockTypeOK, StockSound, SourcesOK,
         stockVars, sourceVars

\* Units that leave the shelf are available, and units may always come back.
LEMMA ShelfKeepsStock ==
  ASSUME StockInv, NEW p \in Products, NEW d \in Int, current[p] + d >= reserved[p],
         Shelf(p, d), journal' \in [Products -> Int]
  PROVE  StockInv'
<1>1. reserved[p] \in Nat /\ current[p] \in Nat
  BY DEF StockInv, StockTypeOK
<1>2. current' \in [Products -> Nat]
  <2>1. current[p] + d \in Nat
    BY <1>1
  <2> QED
    BY <2>1 DEF Shelf, StockInv, StockTypeOK
<1>3. StockTypeOK'
  BY <1>2 DEF Shelf, StockInv, StockTypeOK
<1>4. StockSound'
  <2> SUFFICES ASSUME NEW x \in Products
               PROVE  reserved'[x] <= current'[x]
    BY DEF StockSound
  <2>1. reserved' = reserved /\ current' = [current EXCEPT ![p] = @ + d]
    BY DEF Shelf
  <2>2. current'[x] = IF x = p THEN current[p] + d ELSE current[x]
    BY <2>1 DEF StockInv, StockTypeOK
  <2> QED
    BY <1>1, <2>1, <2>2 DEF StockInv, StockSound
<1> QED
  BY <1>3, <1>4 DEF StockInv

\* A week with an order more is a week.
LEMMA MoreCompleted ==
  ASSUME NEW b \in [orders : SUBSET Orders, share : Int, costs : Nat],
         NEW o \in Orders, NEW n \in Int
  PROVE  [b EXCEPT !.orders = @ \cup {o}, !.share = @ + n]
           \in [orders : SUBSET Orders, share : Int, costs : Nat]
<1> DEFINE T == [orders : SUBSET Orders, share : Int, costs : Nat]
<1>1. b.orders \cup {o} \in SUBSET Orders /\ b.share + n \in Int
  OBVIOUS
<1>2. \A c \in T, O \in SUBSET Orders : [c EXCEPT !.orders = O] \in T
  OBVIOUS
<1>3. \A c \in T, x \in Int : [c EXCEPT !.share = x] \in T
  OBVIOUS
<1> QED
  BY <1>1, <1>2, <1>3

\* An order that is completed takes its units and adds its share.
LEMMA CompleteKeepsBooks ==
  ASSUME BooksInv, NEW o \in Orders, Complete(o)
  PROVE  BooksStay'
<1>1. StockInv'
  <2>1. StockInv /\ Consume(o)
    BY DEF BooksInv, SettlementsTypeOK, StockInv, Complete, Consume
  <2> QED
    BY <2>1, ConsumeKeepsStock
<1>2. books' \in [Weeks -> [orders : SUBSET Orders, share : Int, costs : Nat]]
  <2>1. books[week] \in [orders : SUBSET Orders, share : Int, costs : Nat]
    BY DEF BooksInv, SettlementsTypeOK
  <2>2. Share[o] \in Int
    BY PricesAssumption
  <2>3. books' = [books EXCEPT ![week] =
                    [books[week] EXCEPT !.orders = @ \cup {o}, !.share = @ + Share[o]]]
    BY DEF Complete
  <2> DEFINE more == [books[week] EXCEPT !.orders = @ \cup {o}, !.share = @ + Share[o]]
  <2>4. more \in [orders : SUBSET Orders, share : Int, costs : Nat]
    BY <2>1, <2>2, MoreCompleted
  <2> HIDE DEF more
  <2>5. books' = [books EXCEPT ![week] = more]
    BY <2>3 DEF more
  <2> QED
    BY <2>4, <2>5 DEF BooksInv, SettlementsTypeOK
<1> QED
  BY <1>1, <1>2 DEF BooksStay, SourcesOK, BooksInv, SettlementsTypeOK, Complete

\* A counter sale takes available units and adds a row.
LEMMA RecordKeepsBooks ==
  ASSUME BooksInv, NEW p \in Products, NEW q \in Counts, RecordSale(p, q)
  PROVE  BooksStay'
<1>1. q \in Nat
  BY CountsAssumption
<1>2. StockInv'
  <2>1. current[p] \in Nat /\ reserved[p] \in Nat
    BY DEF BooksInv, SettlementsTypeOK, StockTypeOK
  <2>2. current[p] + (-q) >= reserved[p] /\ -q \in Int
    BY <1>1, <2>1 DEF RecordSale
  <2>3. StockInv /\ journal' \in [Products -> Int] /\ Shelf(p, -q)
    BY DEF RecordSale, BooksInv, SettlementsTypeOK, StockInv, StockTypeOK
  <2> QED
    BY <2>2, <2>3, ShelfKeepsStock
<1>3. PICK id \in Sales :
        sales' = sales \cup {[id |-> id, week |-> week, product |-> p, units |-> q]}
  BY DEF RecordSale
<1>4. IsFiniteSet(sales')
  BY <1>3, FS_AddElement DEF BooksInv
<1>5. sales' \subseteq [id : Sales, week : Weeks, product : Products, units : Nat]
  BY <1>1, <1>3 DEF BooksInv, SettlementsTypeOK
<1> QED
  BY <1>2, <1>4, <1>5 DEF BooksStay, SourcesOK, BooksInv, SettlementsTypeOK, RecordSale

\* A sale is deleted and its units come back.
LEMMA DeleteKeepsBooks ==
  ASSUME BooksInv, NEW r \in sales, DeleteSale(r)
  PROVE  BooksStay'
<1>1. r.product \in Products /\ r.units \in Nat
  BY DEF BooksInv, SettlementsTypeOK
<1>2. StockInv'
  <2>1. /\ current[r.product] \in Nat /\ reserved[r.product] \in Nat
        /\ reserved[r.product] <= current[r.product]
    BY <1>1 DEF BooksInv, SettlementsTypeOK, StockTypeOK, StockSound
  <2>2. current[r.product] + r.units >= reserved[r.product] /\ r.units \in Int
    BY <1>1, <2>1
  <2>3. StockInv /\ Shelf(r.product, r.units)
    BY DEF DeleteSale, BooksInv, SettlementsTypeOK, StockInv
  <2>4. journal' \in [Products -> Int]
    BY <1>1 DEF DeleteSale, BooksInv, SettlementsTypeOK, StockTypeOK
  <2> QED
    BY <1>1, <2>2, <2>3, <2>4, ShelfKeepsStock
<1>3. sales' \subseteq sales
  BY DEF DeleteSale
<1>4. IsFiniteSet(sales')
  BY <1>3, FS_Subset DEF BooksInv
<1> QED
  BY <1>2, <1>3, <1>4 DEF BooksStay, SourcesOK, BooksInv, SettlementsTypeOK, DeleteSale

\* A sale is corrected, within what is available and its own units.
LEMMA EditKeepsBooks ==
  ASSUME BooksInv, NEW r \in sales, NEW n \in Counts, EditSale(r, n)
  PROVE  BooksStay'
<1>1. /\ r \in [id : Sales, week : Weeks, product : Products, units : Nat]
      /\ r.product \in Products /\ r.units \in Nat /\ n \in Nat
  BY CountsAssumption DEF BooksInv, SettlementsTypeOK
<1>2. StockInv'
  <2>1. current[r.product] \in Nat /\ reserved[r.product] \in Nat
    BY <1>1 DEF BooksInv, SettlementsTypeOK, StockTypeOK
  <2>2. current[r.product] + (r.units - n) >= reserved[r.product] /\ r.units - n \in Int
    BY <1>1, <2>1 DEF EditSale
  <2>3. StockInv /\ Shelf(r.product, r.units - n)
    BY DEF EditSale, BooksInv, SettlementsTypeOK, StockInv
  <2>4. journal' \in [Products -> Int]
    <3>1. journal[r.product] + r.units - n \in Int
      BY <1>1 DEF BooksInv, SettlementsTypeOK, StockTypeOK
    <3> QED
      BY <3>1 DEF EditSale, BooksInv, SettlementsTypeOK, StockTypeOK
  <2> QED
    BY <1>1, <2>2, <2>3, <2>4, ShelfKeepsStock
<1>3. sales' = (sales \ {r}) \cup {[r EXCEPT !.units = n]}
  BY DEF EditSale
<1>4. IsFiniteSet(sales')
  <2>1. IsFiniteSet(sales \ {r})
    BY FS_Subset DEF BooksInv
  <2> QED
    BY <1>3, <2>1, FS_AddElement
<1>5. sales' \subseteq [id : Sales, week : Weeks, product : Products, units : Nat]
  BY <1>1, <1>3 DEF BooksInv, SettlementsTypeOK
<1> QED
  BY <1>2, <1>4, <1>5 DEF BooksStay, SourcesOK, BooksInv, SettlementsTypeOK, EditSale

\* The weeks that have passed are weeks.
LEMMA PassedWeeks ==
  ASSUME BooksInv, NEW w \in 1..week
  PROVE  w \in Weeks
  BY WeeksAssumption DEF BooksInv, SettlementsTypeOK, Weeks

\* Costs, exchanges, returns and the backfill.
LEMMA AdjustKeepsBooks ==
  ASSUME BooksInv, AdjustStep
  PROVE  BooksStay'
<1>1. PICK w \in Weeks : \/ \E c \in Costs : Charge(w, c)
                         \/ \E d \in Credits : CompleteExchange(w, d)
                         \/ CompleteReturn(w)
                         \/ Backfill(w)
  BY PassedWeeks DEF AdjustStep
<1>2. ASSUME NEW c \in Costs, Charge(w, c)
      PROVE  BooksStay'
  <2>1. c \in Nat
    BY FiguresAssumption
  <2>2. [books[w] EXCEPT !.costs = c] \in [orders : SUBSET Orders, share : Int, costs : Nat]
    BY <2>1 DEF BooksInv, SettlementsTypeOK
  <2>3. books' \in [Weeks -> [orders : SUBSET Orders, share : Int, costs : Nat]]
    BY <1>2, <2>2 DEF Charge, BooksInv, SettlementsTypeOK
  <2> QED
    BY <1>2, <2>3 DEF Charge, BooksInv, BooksStay, SettlementsTypeOK, StockInv, StockTypeOK,
                      StockSound, SourcesOK, stockVars
<1>3. ASSUME NEW d \in Credits, CompleteExchange(w, d)
      PROVE  BooksStay'
  <2>1. d \in Int
    BY FiguresAssumption
  <2>2. credit' \in [Weeks -> Int]
    BY <1>3, <2>1 DEF CompleteExchange, BooksInv, SettlementsTypeOK
  <2> QED
    BY <1>3, <2>2 DEF CompleteExchange, BooksInv, BooksStay, SettlementsTypeOK, StockInv,
                      StockTypeOK, StockSound, SourcesOK, stockVars
<1>4. CASE CompleteReturn(w) \/ Backfill(w)
  BY <1>4, IdleBooks DEF CompleteReturn, Backfill
<1> QED
  BY <1>1, <1>2, <1>3, <1>4

\* Payments touch none of it.
LEMMA PaymentKeepsBooks ==
  ASSUME BooksInv, NEW p \in Payments, PaymentStep(p)
  PROVE  BooksStay'
<1>1. UNCHANGED <<stockVars, week, sourceVars>>
  BY DEF PaymentStep, SubmitPayment, RecordPayment, RecordPayout, RecordVerified, Allocate,
         BulkVerify, VerifyPayment, RejectPayment
<1> QED
  BY <1>1, IdleBooks

\* Every step keeps the stock sound and the sources of the bills in order.
LEMMA NextKeepsBooks ==
  ASSUME BooksInv, [SettlementsNext]_settlementsVars
  PROVE  BooksStay'
<1>1. CASE UNCHANGED settlementsVars
  BY <1>1, IdleBooks DEF settlementsVars
<1>2. CASE NextWeek
  <2>1. week' \in Weeks
    BY <1>2, WeeksAssumption DEF NextWeek, BooksInv, SettlementsTypeOK, Weeks
  <2> QED
    BY <1>2, <2>1 DEF NextWeek, BooksInv, BooksStay, SettlementsTypeOK, StockInv, StockTypeOK,
                      StockSound, SourcesOK, stockVars, sourceVars
<1>3. CASE StockMoves
  <2>1. StockInv
    BY DEF BooksInv, SettlementsTypeOK, StockInv
  <2>2. StockInv'
    BY <1>3, <2>1, ReserveKeepsStock, ReleaseKeepsStock, StaffKeepsStock DEF StockMoves
  <2> QED
    BY <1>3, <2>2 DEF StockMoves, BooksInv, BooksStay, SettlementsTypeOK, SourcesOK, sourceVars
<1>4. CASE SaleStep
  BY <1>4, CompleteKeepsBooks, RecordKeepsBooks, DeleteKeepsBooks, EditKeepsBooks
     DEF SaleStep, CompleteOrder, CompleteFromPayment
<1>5. CASE AdjustStep
  BY <1>5, AdjustKeepsBooks
<1>6. CASE \E p \in Payments : PaymentStep(p)
  BY <1>6, PaymentKeepsBooks
<1> QED
  BY <1>1, <1>2, <1>3, <1>4, <1>5, <1>6 DEF SettlementsNext

-----------------------------------------------------------------------------
(* The inductive invariant.                                                *)

StatusesFit == \A w \in Weeks : StatusFits(settlement[w])

\* Money, and what announces it, is only where there is a settlement.
ActivityExists == \A w \in Weeks : HasFinancialActivity(w) => Exists(w)

UnverifiedIsUnallocated ==
  \A p \in Payments : payment[p].status # "verified" => \A w \in Weeks : alloc[p][w] = 0

TargetsFit == \A p \in Payments : TargetFits(payment[p])

\* What the payments put on settlement w.
Column(w) == [p \in Payments |-> alloc[p][w]]

\* Payments may be infinitely many; those that were verified are not.
ColumnsFinite == \A w \in Weeks : IsFiniteSet(Units(Payments, Column(w)))

MoneyInv ==
  /\ StatusesFit
  /\ ActivityExists
  /\ UnverifiedIsUnallocated
  /\ TargetsFit
  /\ ColumnsFinite
  /\ VerifiedIsAllocated
  /\ PaidIsAllocated
  /\ NeverOvercollected
  /\ PaysItsDirection

SettlementsInv == BooksInv /\ OfflineIsBilled /\ MoneyInv

\* An unpaid settlement is there and is due in the direction asked for.
LEMMA UnpaidFits ==
  ASSUME NEW d, NEW w \in Unpaid(d)
  PROVE  w \in Weeks /\ Exists(w) /\ settlement[w].status = "open" /\ settlement[w].direction = d
  BY DEF Unpaid, Exists

\* A form that is handed in announces a payment or makes one.
LEMMA EnterBecomes ==
  ASSUME NEW p \in Payments, NEW status \in {"pending", "verified"},
         NEW d \in {OwnerPays, OutletPays}, NEW a \in Amounts,
         NEW w, w = NoWeek \/ w \in Unpaid(d), Enter(p, status, d, w, a)
  PROVE  \E row : /\ Becomes(p, row)
                  /\ row.status = status /\ row.direction = d /\ row.amount = a
<1> DEFINE row == [status |-> status, direction |-> d, target |-> w, amount |-> a]
<1>1. a \in Nat
  BY AmountsAssumption
<1>2. row \in PaymentRows
  BY <1>1, UnpaidFits DEF PaymentRows
<1>3. TargetFits(row)
  BY UnpaidFits DEF TargetFits
<1>4. payment[p].status # "verified" /\ payment' = [payment EXCEPT ![p] = row]
  BY DEF Enter
<1>5. row.status = status /\ row.direction = d /\ row.amount = a
  OBVIOUS
<1> HIDE DEF row
<1> QED
  BY <1>2, <1>3, <1>4, <1>5 DEF Becomes

\* The outlet's transfer, blocked or not.
LEMMA SubmitEnters ==
  ASSUME NEW p \in Payments, NEW a \in Amounts, SubmitPayment(p, a)
  PROVE  Enters(p)
<1>1. UNCHANGED <<sales, billVars, alloc>>
  BY DEF SubmitPayment, sourceVars
<1>2. \E w : (w = NoWeek \/ w \in Unpaid(OutletPays)) /\ Enter(p, "pending", OutletPays, w, a)
  BY DEF SubmitPayment, Oldest
<1>3. \E row : Becomes(p, row) /\ row.status = "pending"
  BY <1>2, EnterBecomes
<1> QED
  BY <1>1, <1>3 DEF Enters

\* What the owner enters.
LEMMA RecordPays ==
  ASSUME NEW p \in Payments, NEW a \in Amounts, RecordPayment(p, a) \/ RecordPayout(p, a)
  PROVE  \E d : Pays(p, d, a)
<1>1. \E d \in {OwnerPays, OutletPays} : \E w :
         (w = NoWeek \/ w \in Unpaid(d)) /\ RecordVerified(p, d, a, w)
  BY DEF RecordPayment, RecordPayout, Oldest
<1>2. PICK d \in {OwnerPays, OutletPays} : \E w :
         (w = NoWeek \/ w \in Unpaid(d)) /\ RecordVerified(p, d, a, w)
  BY <1>1
<1>3. \E row : Becomes(p, row) /\ row.status = "verified" /\ row.direction = d /\ row.amount = a
  BY <1>2, EnterBecomes DEF RecordVerified
<1>4. a \in Nat
  BY AmountsAssumption
<1> QED
  BY <1>2, <1>3, <1>4 DEF Pays, RecordVerified

\* What the owner verifies: the row keeps its direction, settlement and amount.
LEMMA VerifyPays ==
  ASSUME SettlementsInv, NEW p \in Payments, VerifyPayment(p)
  PROVE  Pays(p, payment[p].direction, payment[p].amount)
<1> DEFINE row == [payment[p] EXCEPT !.status = "verified"]
<1>1. payment[p] \in PaymentRows
  BY DEF SettlementsInv, BooksInv, SettlementsTypeOK
<1>2. /\ row \in PaymentRows /\ row.status = "verified"
      /\ row.direction = payment[p].direction /\ row.target = payment[p].target
      /\ row.amount = payment[p].amount
  BY <1>1 DEF PaymentRows
<1>3. payment' = [payment EXCEPT ![p] = row]
  BY DEF VerifyPayment
<1> HIDE DEF row
<1>4. TargetFits(row)
  BY <1>2 DEF SettlementsInv, MoneyInv, TargetsFit, TargetFits
<1>5. payment[p].status # "verified"
  BY DEF VerifyPayment, Verifiable
<1>6. payment[p].direction \in {OwnerPays, OutletPays} /\ payment[p].amount \in Nat
  BY <1>1 DEF PaymentRows
<1> QED
  BY <1>2, <1>3, <1>4, <1>5, <1>6 DEF Pays, Becomes, VerifyPayment

\* What the owner rejects.
LEMMA RejectEnters ==
  ASSUME SettlementsInv, NEW p \in Payments, RejectPayment(p)
  PROVE  Enters(p)
<1> DEFINE row == [payment[p] EXCEPT !.status = "rejected"]
<1>1. payment[p] \in PaymentRows
  BY DEF SettlementsInv, BooksInv, SettlementsTypeOK
<1>2. /\ row \in PaymentRows /\ row.status = "rejected"
      /\ row.direction = payment[p].direction /\ row.target = payment[p].target
  BY <1>1 DEF PaymentRows
<1>3. payment' = [payment EXCEPT ![p] = row]
  BY DEF RejectPayment
<1> HIDE DEF row
<1>4. TargetFits(row)
  BY <1>2 DEF SettlementsInv, MoneyInv, TargetsFit, TargetFits
<1>5. payment[p].status # "verified"
  BY DEF RejectPayment
<1> QED
  BY <1>2, <1>3, <1>4, <1>5 DEF Enters, Becomes, RejectPayment, sourceVars

\* Rows of one week come and go with sales of that week.
LEMMA SalesOfOneWeek ==
  ASSUME NEW w, \A r \in sales \cup sales' : r.week # w => (r \in sales <=> r \in sales')
  PROVE  SalesOfOtherWeeksStay(w)
  BY DEF SalesOfOtherWeeksStay, CounterRows

\* Sales generate the week that they change.
LEMMA SaleKinds ==
  ASSUME SettlementsInv, SaleStep
  PROVE  KeepsBills \/ \E w \in Weeks : Generates(w)
<1>0. week \in Weeks
  BY DEF SettlementsInv, BooksInv, SettlementsTypeOK
<1>1. ASSUME NEW o \in Orders, CompleteOrder(o)
      PROVE  Generates(week)
  <2>1. sales' = sales
    BY <1>1 DEF CompleteOrder, Complete
  <2> QED
    BY <1>1, <2>1, SalesOfOneWeek DEF Generates, CompleteOrder, Complete
<1>2. ASSUME NEW o \in Orders, CompleteFromPayment(o)
      PROVE  KeepsBills
  BY <1>2 DEF KeepsBills, CompleteFromPayment, Complete
<1>3. ASSUME NEW p \in Products, NEW q \in Counts, RecordSale(p, q)
      PROVE  Generates(week)
  <2>1. PICK id \in Sales :
          sales' = sales \cup {[id |-> id, week |-> week, product |-> p, units |-> q]}
    BY <1>3 DEF RecordSale
  <2>2. SalesOfOtherWeeksStay(week)
    BY <2>1, SalesOfOneWeek
  <2> QED
    BY <1>3, <2>2 DEF Generates, RecordSale
<1>4. ASSUME NEW r \in sales
      PROVE  r \in [id : Sales, week : Weeks, product : Products, units : Nat]
  BY DEF SettlementsInv, BooksInv, SettlementsTypeOK
<1>5. ASSUME NEW r \in sales, DeleteSale(r)
      PROVE  Generates(r.week)
  <2>1. SalesOfOtherWeeksStay(r.week)
    BY <1>5, SalesOfOneWeek DEF DeleteSale
  <2> QED
    BY <1>5, <2>1 DEF Generates, DeleteSale
<1>6. ASSUME NEW r \in sales, NEW n \in Counts, EditSale(r, n)
      PROVE  Generates(r.week)
  <2>1. [r EXCEPT !.units = n].week = r.week
    BY <1>4
  <2>2. SalesOfOtherWeeksStay(r.week)
    BY <1>6, <2>1, SalesOfOneWeek DEF EditSale
  <2> QED
    BY <1>6, <2>2 DEF Generates, EditSale
<1> QED
  BY <1>0, <1>1, <1>2, <1>3, <1>4, <1>5, <1>6 DEF SaleStep

\* Every step is of one of the five kinds.
LEMMA StepKinds ==
  ASSUME SettlementsInv, [SettlementsNext]_settlementsVars
  PROVE  StepKind
<1>1. CASE UNCHANGED settlementsVars
  BY <1>1 DEF settlementsVars, sourceVars, StepKind, KeepsBills
<1>2. CASE NextWeek \/ StockMoves
  BY <1>2 DEF NextWeek, StockMoves, sourceVars, StepKind, KeepsBills
<1>3. CASE SaleStep
  BY <1>3, SaleKinds DEF StepKind
<1>4. CASE AdjustStep
  <2>1. PICK w \in Weeks : \/ \E c \in Costs : Charge(w, c)
                           \/ \E d \in Credits : CompleteExchange(w, d)
                           \/ CompleteReturn(w)
                           \/ Backfill(w)
    BY <1>4, PassedWeeks DEF AdjustStep, SettlementsInv
  <2>2. CASE \E c \in Costs : Charge(w, c)
    BY <2>2 DEF Charge, StepKind, KeepsBills
  <2>3. CASE \E d \in Credits : CompleteExchange(w, d)
    BY <2>3 DEF CompleteExchange, StepKind, Adjusts
  <2>4. CASE CompleteReturn(w)
    BY <2>4 DEF CompleteReturn, StepKind, Adjusts, sourceVars
  <2>5. CASE Backfill(w)
    <3>1. sales' = sales
      BY <2>5 DEF Backfill, sourceVars
    <3>2. SalesOfOtherWeeksStay(w)
      BY <3>1, SalesOfOneWeek
    <3> QED
      BY <2>5, <3>2 DEF Backfill, StepKind, Generates
  <2> QED
    BY <2>1, <2>2, <2>3, <2>4, <2>5
<1>5. CASE \E p \in Payments : PaymentStep(p)
  BY <1>5, SubmitEnters, RecordPays, VerifyPays, RejectEnters
     DEF PaymentStep, BulkVerify, StepKind
<1> QED
  BY <1>1, <1>2, <1>3, <1>4, <1>5 DEF SettlementsNext

-----------------------------------------------------------------------------
(* Bills.                                                                  *)

\* A settlement on which there is nothing yet gets new figures, all of which fit.
Rebills(w) ==
  /\ ~HasFinancialActivity(w)
  /\ \E r \in SettlementRows : /\ settlement' = [settlement EXCEPT ![w] = r]
                               /\ r.status # "none" /\ r.paid = settlement[w].paid
                               /\ StatusFits(r)

\* The settlement that the generator writes for week w.
Billed(w) ==
  Recalculated([settlement[w] EXCEPT !.bill = Source(w)', !.adjustment = credit'[w],
                                     !.direction = DirectionOf(Net(Source(w)'))])

\* It fits the sources, and the money is as it was.
LEMMA BilledFits ==
  ASSUME SettlementsInv, BooksStay', NEW w \in Weeks
  PROVE  /\ Billed(w) \in SettlementRows /\ Billed(w).status # "none"
         /\ Billed(w).paid = settlement[w].paid /\ StatusFits(Billed(w))
         /\ Billed(w).bill = Source(w)' /\ Source(w)'.offline = OfflineTotal(w)'
<1> DEFINE b == Source(w)'
           d == DirectionOf(Net(b))
           t == [settlement[w] EXCEPT !.bill = b, !.adjustment = credit'[w]]
           s == [t EXCEPT !.direction = d]
<1>1. SourcesOK'
  BY DEF BooksStay
<1>2. SourcesFit'
  BY <1>1, SourcesTyped, PTL
<1>3. b \in Bills /\ b.offline = OfflineTotal(w)' /\ credit'[w] \in Int
  BY <1>1, <1>2 DEF SourcesFit, SourcesOK
<1>4. settlement[w] \in SettlementRows
  BY DEF SettlementsInv, BooksInv, SettlementsTypeOK
<1>5. d \in {OwnerPays, OutletPays}
  BY DEF DirectionOf
<1>6. Billed(w) = Recalculated(s)
  BY DEF Billed
<1> HIDE DEF b
<1>7. s.direction = DirectionOf(Net(s.bill))
      /\ s \in SettlementRows /\ s.bill = b /\ s.paid = settlement[w].paid
  <2>1. d = DirectionOf(Net(b))
    OBVIOUS
  <2> HIDE DEF d
  <2>2. t \in SettlementRows /\ t.bill = b /\ t.paid = settlement[w].paid
    BY <1>3, <1>4 DEF SettlementRows
  <2> HIDE DEF t
  <2> QED
    BY <1>5, <2>1, <2>2 DEF SettlementRows
<1> HIDE DEF s, d, t
<1> QED
  BY <1>3, <1>6, <1>7, RecalculatedFits DEF b

\* Generating the bill of a week changes no other settlement, and none with money.
LEMMA GenerateRebills ==
  ASSUME SettlementsInv, BooksStay', NEW w \in Weeks, Generate(w)
  PROVE  UNCHANGED settlement \/ Rebills(w)
<1>1. \/ UNCHANGED settlement
      \/ /\ Exists(w) => ~HasFinancialActivity(w)
         /\ settlement' = [settlement EXCEPT ![w] = Billed(w)]
  BY DEF Generate, billVars, Billed
<1>2. (Exists(w) => ~HasFinancialActivity(w)) => ~HasFinancialActivity(w)
  BY DEF SettlementsInv, MoneyInv, ActivityExists
<1> QED
  BY <1>1, <1>2, BilledFits DEF Rebills

\* The settlement that a sync writes for week w, and what it keeps.
Synced(w) == Recalculated([settlement[w] EXCEPT !.adjustment = credit'[w]])

LEMMA SyncedFits ==
  ASSUME SettlementsInv, BooksStay', NEW w \in Weeks, Exists(w)
  PROVE  /\ Synced(w) \in SettlementRows /\ Synced(w).status # "none"
         /\ Synced(w).paid = settlement[w].paid /\ StatusFits(Synced(w))
         /\ Synced(w).bill = settlement[w].bill
<1> DEFINE s == [settlement[w] EXCEPT !.adjustment = credit'[w]]
<1>1. credit'[w] \in Int
  BY DEF BooksStay, SourcesOK
<1>2. settlement[w] \in SettlementRows
  BY DEF SettlementsInv, BooksInv, SettlementsTypeOK
<1>3. /\ s \in SettlementRows /\ s.bill = settlement[w].bill /\ s.paid = settlement[w].paid
      /\ s.direction = settlement[w].direction
  BY <1>1, <1>2 DEF SettlementRows
<1> HIDE DEF s
<1>4. s.direction = DirectionOf(Net(s.bill))
  BY <1>3 DEF SettlementsInv, MoneyInv, StatusesFit, StatusFits, Exists
<1>5. Synced(w) = Recalculated(s)
  BY DEF Synced, s
<1> QED
  BY <1>3, <1>4, <1>5, RecalculatedFits

\* Nor does synchronising the adjustment of a week.
LEMMA SyncRebills ==
  ASSUME SettlementsInv, BooksStay', NEW w \in Weeks, Sync(w)
  PROVE  UNCHANGED settlement \/ Rebills(w)
<1>1. \/ UNCHANGED settlement
      \/ /\ Exists(w) /\ ~HasFinancialActivity(w)
         /\ settlement' = [settlement EXCEPT ![w] = Synced(w)]
  BY DEF Sync, billVars, Synced
<1> QED
  BY <1>1, SyncedFits DEF Rebills

\* What every settlement is after a step that bills a week again.
LEMMA AfterRebills ==
  ASSUME SettlementsInv, NEW w \in Weeks, Rebills(w), NEW v \in Weeks
  PROVE  /\ settlement' \in [Weeks -> SettlementRows]
         /\ settlement'[v].paid = settlement[v].paid
         /\ Exists(v) \/ v = w => Exists(v)'
         /\ StatusFits(settlement[v]) => StatusFits(settlement'[v])
         /\ v # w => settlement'[v] = settlement[v]
         /\ v = w => /\ settlement[v].paid = 0
                     /\ \A p \in Payments : payment[p].target # v /\ alloc[p][v] = 0
<1>1. settlement \in [Weeks -> SettlementRows]
  BY DEF SettlementsInv, BooksInv, SettlementsTypeOK
<1>2. PICK r \in SettlementRows : /\ settlement' = [settlement EXCEPT ![w] = r]
                                  /\ r.status # "none" /\ r.paid = settlement[w].paid
                                  /\ StatusFits(r)
  BY DEF Rebills
<1>3. settlement'[v] = IF v = w THEN r ELSE settlement[v]
  BY <1>1, <1>2
<1>4. v = w => /\ settlement[v].paid = 0
               /\ \A p \in Payments : payment[p].target # v /\ alloc[p][v] = 0
  BY DEF Rebills, HasFinancialActivity
<1>5. settlement' \in [Weeks -> SettlementRows]
  BY <1>1, <1>2
<1> QED
  BY <1>2, <1>3, <1>4, <1>5 DEF Exists

-----------------------------------------------------------------------------
(* Money.                                                                  *)

\* What a payment of amount a in direction d puts on the settlements.
Given(d, a) == FifoShare(Unpaid(d), a)

\* What a settlement gets is open in that direction and still due.
LEMMA GivenFits ==
  ASSUME SettlementsInv, NEW d, NEW a \in Nat, NEW v \in Weeks
  PROVE  /\ Given(d, a) \in [Weeks -> Nat]
         /\ Given(d, a)[v] > 0 =>
              /\ v \in Path(Unpaid(d), a)
              /\ settlement[v].status = "open" /\ settlement[v].direction = d
              /\ Credited(settlement[v]) + Given(d, a)[v] <= Due(settlement[v])
<1>1. SettlementsTypeOK
  BY DEF SettlementsInv, BooksInv
<1>2. Unpaid(d) \in SUBSET Weeks
  BY DEF Unpaid
<1>3. Given(d, a) \in [Weeks -> Nat]
  BY <1>1, <1>2, OutstandingTyped, FifoShareBounds DEF Given
<1>4. ASSUME Given(d, a)[v] > 0
      PROVE  /\ v \in Path(Unpaid(d), a)
             /\ settlement[v].status = "open" /\ settlement[v].direction = d
             /\ Credited(settlement[v]) + Given(d, a)[v] <= Due(settlement[v])
  <2>1. v \in Path(Unpaid(d), a) /\ v \in Unpaid(d) /\ Given(d, a)[v] <= Outstanding[v]
    BY <1>1, <1>2, <1>4, OutstandingTyped, FifoShareBounds DEF Given
  <2>2. Credited(settlement[v]) \in Int /\ Due(settlement[v]) \in Nat
    BY <1>1, Figures DEF SettlementsTypeOK
  <2>3. Outstanding[v] = IF Due(settlement[v]) > Credited(settlement[v])
                         THEN Due(settlement[v]) - Credited(settlement[v]) ELSE 0
    BY DEF Outstanding, Left
  <2>4. Given(d, a)[v] \in Nat
    BY <1>3
  <2>5. Credited(settlement[v]) + Given(d, a)[v] <= Due(settlement[v])
    BY <1>4, <2>1, <2>2, <2>3, <2>4
  <2> QED
    BY <2>1, <2>5, UnpaidFits
<1> QED
  BY <1>3, <1>4

\* What every settlement is after a payment: its paid figure grows by its share, its
\* status follows, and the rest stands.
LEMMA AfterPays ==
  ASSUME SettlementsInv, NEW p \in Payments, NEW d, NEW a, Pays(p, d, a), NEW v \in Weeks
  PROVE  /\ settlement' \in [Weeks -> SettlementRows]
         /\ settlement'[v].paid = settlement[v].paid + Given(d, a)[v]
         /\ settlement'[v].bill = settlement[v].bill
         /\ settlement'[v].adjustment = settlement[v].adjustment
         /\ settlement'[v].direction = settlement[v].direction
         /\ Exists(v)' <=> Exists(v)
         /\ StatusFits(settlement'[v])
         /\ Given(d, a)[v] = 0 => settlement'[v] = settlement[v]
<1> DEFINE more(w) == [settlement[w] EXCEPT !.paid = @ + Given(d, a)[w]]
<1>0. a \in Nat
  BY DEF Pays
<1>1. settlement' = [w \in Weeks |-> IF Given(d, a)[w] > 0 THEN Recalculated(more(w))
                                     ELSE settlement[w]]
  BY DEF Pays, Allocate, Given
<1>2. ASSUME NEW w \in Weeks
      PROVE  settlement[w] \in SettlementRows /\ Given(d, a)[w] \in Nat
  BY <1>0, GivenFits DEF SettlementsInv, BooksInv, SettlementsTypeOK
<1>3. ASSUME NEW w \in Weeks
      PROVE  /\ more(w) \in SettlementRows /\ more(w).paid = settlement[w].paid + Given(d, a)[w]
             /\ more(w).bill = settlement[w].bill
             /\ more(w).adjustment = settlement[w].adjustment
             /\ more(w).direction = settlement[w].direction
  BY <1>2 DEF SettlementRows
<1>4. ASSUME NEW w \in Weeks, Given(d, a)[w] > 0
      PROVE  Exists(w) /\ settlement[w].direction = DirectionOf(Net(settlement[w].bill))
  BY <1>0, <1>4, GivenFits DEF SettlementsInv, MoneyInv, StatusesFit, StatusFits, Exists
<1> HIDE DEF more
<1>5. ASSUME NEW w \in Weeks, Given(d, a)[w] > 0
      PROVE  LET r == Recalculated(more(w))
             IN  /\ r \in SettlementRows /\ r.status # "none" /\ StatusFits(r)
                 /\ r.bill = settlement[w].bill /\ r.adjustment = settlement[w].adjustment
                 /\ r.direction = settlement[w].direction
                 /\ r.paid = settlement[w].paid + Given(d, a)[w]
  <2>1. more(w).direction = DirectionOf(Net(more(w).bill))
    BY <1>3, <1>4, <1>5
  <2> QED
    BY <1>3, <2>1, RecalculatedFits
<1>6. settlement' \in [Weeks -> SettlementRows]
  BY <1>1, <1>2, <1>5
<1>7. CASE Given(d, a)[v] > 0
  <2>1. settlement'[v] = Recalculated(more(v))
    BY <1>1, <1>7
  <2> QED
    BY <1>2, <1>4, <1>5, <1>6, <1>7, <2>1 DEF Exists
<1>8. CASE Given(d, a)[v] = 0
  <2>1. settlement'[v] = settlement[v]
    BY <1>1, <1>8
  <2>2. settlement[v].paid \in Nat
    BY <1>2 DEF SettlementRows
  <2> QED
    BY <1>6, <1>8, <2>1, <2>2 DEF SettlementsInv, MoneyInv, StatusesFit, Exists
<1> QED
  BY <1>2, <1>7, <1>8

\* Money and bills that stand keep everything said about them.
LEMMA IdleMoney ==
  ASSUME SettlementsInv, UNCHANGED <<settlement, payVars>>
  PROVE  MoneyInv'
<1>1. UNCHANGED <<settlement, payment, alloc>>
  BY DEF payVars
<1>2. StatusesFit' /\ ActivityExists'
  BY <1>1 DEF SettlementsInv, MoneyInv, StatusesFit, ActivityExists, HasFinancialActivity, Exists
<1>3. UnverifiedIsUnallocated' /\ TargetsFit'
  BY <1>1 DEF SettlementsInv, MoneyInv, UnverifiedIsUnallocated, TargetsFit, TargetFits, Exists
<1>4. ColumnsFinite' /\ PaidIsAllocated'
  BY <1>1 DEF SettlementsInv, MoneyInv, ColumnsFinite, Column, PaidIsAllocated
<1>5. VerifiedIsAllocated' /\ NeverOvercollected' /\ PaysItsDirection'
  BY <1>1 DEF SettlementsInv, MoneyInv, VerifiedIsAllocated, NeverOvercollected, PaysItsDirection
<1> QED
  BY <1>2, <1>3, <1>4, <1>5 DEF MoneyInv

\* A bill is only written anew where there is no money.
LEMMA RebillMoney ==
  ASSUME SettlementsInv, NEW w \in Weeks, Rebills(w), UNCHANGED payVars
  PROVE  MoneyInv'
<1>1. UNCHANGED <<payment, alloc>>
  BY DEF payVars
<1>2. \A v \in Weeks : /\ settlement'[v].paid = settlement[v].paid
                       /\ Exists(v) \/ v = w => Exists(v)'
                       /\ StatusFits(settlement'[v])
                       /\ v # w => settlement'[v] = settlement[v]
                       /\ v = w => /\ settlement[v].paid = 0
                                   /\ \A p \in Payments : payment[p].target # v /\ alloc[p][v] = 0
  BY AfterRebills DEF SettlementsInv, MoneyInv, StatusesFit
<1>3. StatusesFit'
  BY <1>2 DEF StatusesFit
<1>4. ActivityExists'
  <2> SUFFICES ASSUME NEW v \in Weeks, HasFinancialActivity(v)'
               PROVE  Exists(v)'
    BY DEF ActivityExists
  <2>1. CASE v = w
    BY <1>2, <2>1
  <2>2. CASE v # w
    <3>1. HasFinancialActivity(v)
      BY <1>1, <1>2, <2>2 DEF HasFinancialActivity
    <3> QED
      BY <1>2, <3>1 DEF SettlementsInv, MoneyInv, ActivityExists
  <2> QED
    BY <2>1, <2>2
<1>5. TargetsFit'
  <2>1. \A p \in Payments : payment[p].target \in Weeks \cup {NoWeek}
    BY DEF SettlementsInv, BooksInv, SettlementsTypeOK, PaymentRows
  <2>2. ASSUME NEW p \in Payments, NEW t \in Weeks, payment[p].target = t
        PROVE  Exists(t)' /\ settlement'[t].direction = payment[p].direction
    <3>1. t # w
      BY <1>2, <2>2
    <3>2. Exists(t) /\ settlement[t].direction = payment[p].direction
      <4>1. t # NoWeek
        BY DEF Weeks, NoWeek
      <4> QED
        BY <2>2, <4>1 DEF SettlementsInv, MoneyInv, TargetsFit, TargetFits
    <3> QED
      BY <1>2, <3>1, <3>2
  <2> QED
    BY <1>1, <2>1, <2>2 DEF TargetsFit, TargetFits, Exists
<1>6. UnverifiedIsUnallocated' /\ ColumnsFinite' /\ VerifiedIsAllocated'
  BY <1>1 DEF SettlementsInv, MoneyInv, UnverifiedIsUnallocated, ColumnsFinite, Column,
              VerifiedIsAllocated
<1>7. PaidIsAllocated'
  BY <1>1, <1>2 DEF SettlementsInv, MoneyInv, PaidIsAllocated
<1>8. NeverOvercollected'
  <2> SUFFICES ASSUME NEW v \in Weeks, settlement'[v].paid > 0
               PROVE  Credited(settlement'[v]) <= Due(settlement'[v])
    BY DEF NeverOvercollected
  <2>1. v # w
    BY <1>2
  <2> QED
    BY <1>2, <2>1 DEF SettlementsInv, MoneyInv, NeverOvercollected
<1>9. PaysItsDirection'
  <2> SUFFICES ASSUME NEW p \in Payments, NEW v \in Weeks, alloc[p][v] > 0
               PROVE  settlement'[v].direction = payment[p].direction
    BY <1>1 DEF PaysItsDirection
  <2>1. v # w
    BY <1>2
  <2> QED
    BY <1>2, <2>1 DEF SettlementsInv, MoneyInv, PaysItsDirection
<1> QED
  BY <1>3, <1>4, <1>5, <1>6, <1>7, <1>8, <1>9 DEF MoneyInv

\* The payments after one got a new row.
LEMMA AfterBecomes ==
  ASSUME SettlementsInv, NEW p \in Payments, NEW row, Becomes(p, row), NEW q \in Payments
  PROVE  /\ payment' \in [Payments -> PaymentRows]
         /\ payment'[q] = IF q = p THEN row ELSE payment[q]
         /\ TargetFits(payment'[q])
         /\ payment[q].target \in Weeks \cup {NoWeek} /\ payment'[q].target \in Weeks \cup {NoWeek}
<1>1. payment \in [Payments -> PaymentRows] /\ row \in PaymentRows
  BY DEF SettlementsInv, BooksInv, SettlementsTypeOK, Becomes
<1>2. payment' \in [Payments -> PaymentRows] /\ payment'[q] = IF q = p THEN row ELSE payment[q]
  BY <1>1 DEF Becomes
<1>3. TargetFits(payment'[q])
  BY <1>2 DEF SettlementsInv, MoneyInv, TargetsFit, Becomes
<1>4. \A r \in PaymentRows : r.target \in Weeks \cup {NoWeek}
  BY DEF PaymentRows
<1>5. payment[q] \in PaymentRows /\ payment'[q] \in PaymentRows
  BY <1>1, <1>2
<1> QED
  BY <1>2, <1>3, <1>4, <1>5

\* A payment on its way, or turned away, moves no money.
LEMMA EnterMoney ==
  ASSUME SettlementsInv, NEW p \in Payments, Enters(p)
  PROVE  MoneyInv'
<1>1. UNCHANGED <<settlement, alloc>>
  BY DEF Enters, billVars
<1>2. PICK row : Becomes(p, row) /\ row.status \in {"pending", "rejected"}
  BY DEF Enters
<1>3. \A q \in Payments : /\ payment'[q] = IF q = p THEN row ELSE payment[q]
                          /\ TargetFits(payment'[q])
                          /\ payment'[q].target \in Weeks \cup {NoWeek}
  BY <1>2, AfterBecomes
<1>4. payment[p].status # "verified" /\ \A w \in Weeks : alloc[p][w] = 0
  BY <1>2 DEF Becomes, SettlementsInv, MoneyInv, UnverifiedIsUnallocated
<1>5. StatusesFit' /\ ColumnsFinite' /\ PaidIsAllocated' /\ NeverOvercollected'
  BY <1>1 DEF SettlementsInv, MoneyInv, StatusesFit, ColumnsFinite, Column, PaidIsAllocated,
              NeverOvercollected
<1>6. ActivityExists'
  <2> SUFFICES ASSUME NEW w \in Weeks, HasFinancialActivity(w)'
               PROVE  Exists(w)
    BY <1>1 DEF ActivityExists, Exists
  <2>1. CASE \E q \in Payments : payment'[q].target = w
    <3>1. w # NoWeek
      BY DEF Weeks, NoWeek
    <3> QED
      BY <1>3, <2>1, <3>1 DEF TargetFits
  <2>2. CASE HasFinancialActivity(w)
    BY <2>2 DEF SettlementsInv, MoneyInv, ActivityExists
  <2> QED
    BY <1>1, <2>1, <2>2 DEF HasFinancialActivity
<1>7. UnverifiedIsUnallocated'
  BY <1>1, <1>3, <1>4 DEF SettlementsInv, MoneyInv, UnverifiedIsUnallocated
<1>8. TargetsFit'
  BY <1>1, <1>3 DEF TargetsFit, TargetFits, Exists
<1>9. VerifiedIsAllocated'
  <2> SUFFICES ASSUME NEW q \in Payments
               PROVE  Total(Weeks, alloc[q]) =
                        IF payment'[q].status = "verified" THEN payment'[q].amount ELSE 0
    BY <1>1 DEF VerifiedIsAllocated
  <2>1. Total(Weeks, alloc[q]) = IF payment[q].status = "verified" THEN payment[q].amount ELSE 0
    BY DEF SettlementsInv, MoneyInv, VerifiedIsAllocated
  <2> QED
    BY <1>2, <1>3, <1>4, <2>1
<1>10. PaysItsDirection'
  <2> SUFFICES ASSUME NEW q \in Payments, NEW w \in Weeks, alloc[q][w] > 0
               PROVE  settlement[w].direction = payment'[q].direction
    BY <1>1 DEF PaysItsDirection
  <2>1. q # p
    BY <1>4
  <2> QED
    BY <1>3, <2>1 DEF SettlementsInv, MoneyInv, PaysItsDirection
<1> QED
  BY <1>5, <1>6, <1>7, <1>8, <1>9, <1>10 DEF MoneyInv

\* The column of a settlement grows by the share of the payment.
LEMMA ColumnGrows ==
  ASSUME SettlementsInv, NEW p \in Payments, NEW w \in Weeks, NEW x \in [Weeks -> Nat],
         alloc[p][w] = 0, alloc' = [alloc EXCEPT ![p] = x]
  PROVE  /\ IsFiniteSet(Units(Payments, Column(w))')
         /\ Total(Payments, Column(w)') = settlement[w].paid + x[w]
<1> DEFINE n == Column(w)
           m == Column(w)'
<1>1. alloc \in [Payments -> [Weeks -> Nat]]
  BY DEF SettlementsInv, BooksInv, SettlementsTypeOK
<1>2. n[p] = 0 /\ m[p] = x[w] /\ x[w] \in Nat
  BY <1>1 DEF Column
<1>3. \A q \in Payments \ {p} : m[q] = n[q]
  BY <1>1 DEF Column
<1>4. IsFiniteSet(Units(Payments, n)) /\ settlement[w].paid = Total(Payments, n)
  BY DEF SettlementsInv, MoneyInv, ColumnsFinite, PaidIsAllocated, Column
<1> HIDE DEF n, m
<1>5. /\ IsFiniteSet(Units(Payments, m))
      /\ Total(Payments, m) = Total(Payments, n) - n[p] + m[p]
  <2>1. n[p] \in Nat /\ m[p] \in Nat
    BY <1>2
  <2> QED
    BY <1>3, <1>4, <2>1, TotalChange
<1>6. Total(Payments, m) = settlement[w].paid + x[w]
  <2>1. settlement[w].paid \in Nat
    BY DEF SettlementsInv, BooksInv, SettlementsTypeOK, SettlementRows
  <2> QED
    BY <1>2, <1>4, <1>5, <2>1
<1> QED
  BY <1>5, <1>6 DEF m

\* Money that arrives is on the settlements that were due, all of it.
LEMMA PayMoney ==
  ASSUME SettlementsInv, NEW p \in Payments, NEW d, NEW a, Pays(p, d, a)
  PROVE  MoneyInv'
<1> DEFINE x == Given(d, a)
<1>1. a \in Nat /\ a <= Owed(Unpaid(d)) /\ alloc' = [alloc EXCEPT ![p] = x]
  BY DEF Pays, Allocate, Given
<1>2. PICK row : /\ Becomes(p, row) /\ row.status = "verified"
                 /\ row.direction = d /\ row.amount = a
  BY DEF Pays
<1>3. \A q \in Payments : /\ payment'[q] = IF q = p THEN row ELSE payment[q]
                          /\ TargetFits(payment'[q])
                          /\ payment'[q].target \in Weeks \cup {NoWeek}
  BY <1>2, AfterBecomes
<1>4. payment[p].status # "verified" /\ \A w \in Weeks : alloc[p][w] = 0
  BY <1>2 DEF Becomes, SettlementsInv, MoneyInv, UnverifiedIsUnallocated
<1>5. \A w \in Weeks : /\ x \in [Weeks -> Nat]
                       /\ x[w] > 0 =>
                            /\ settlement[w].status = "open" /\ settlement[w].direction = d
                            /\ Credited(settlement[w]) + x[w] <= Due(settlement[w])
  BY <1>1, GivenFits
<1>6. \A w \in Weeks : /\ settlement'[w].paid = settlement[w].paid + x[w]
                       /\ settlement'[w].bill = settlement[w].bill
                       /\ settlement'[w].adjustment = settlement[w].adjustment
                       /\ settlement'[w].direction = settlement[w].direction
                       /\ Exists(w)' <=> Exists(w)
                       /\ StatusFits(settlement'[w])
                       /\ x[w] = 0 => settlement'[w] = settlement[w]
  BY AfterPays
<1>7. Total(Weeks, x) = a
  <2>1. OutstandingOK /\ Unpaid(d) \in SUBSET Weeks
    BY OutstandingTyped DEF SettlementsInv, BooksInv, Unpaid
  <2> QED
    BY <1>1, <2>1, FifoTakesAll DEF Given
<1>8. alloc \in [Payments -> [Weeks -> Nat]]
  BY DEF SettlementsInv, BooksInv, SettlementsTypeOK
<1>9. x \in [Weeks -> Nat]
  BY <1>1, GivenFits, WeeksAssumption DEF SettlementsInv, BooksInv, SettlementsTypeOK
<1> HIDE DEF x
<1>10. \A q \in Payments : alloc'[q] = IF q = p THEN x ELSE alloc[q]
  BY <1>1, <1>8
<1>11. StatusesFit'
  BY <1>6 DEF StatusesFit
<1>12. ActivityExists'
  <2> SUFFICES ASSUME NEW w \in Weeks, HasFinancialActivity(w)'
               PROVE  Exists(w)
    BY <1>6 DEF ActivityExists
  <2>1. CASE \E q \in Payments : payment'[q].target = w
    <3>1. w # NoWeek
      BY DEF Weeks, NoWeek
    <3> QED
      BY <1>3, <2>1, <3>1 DEF TargetFits
  <2>2. CASE x[w] > 0
    BY <1>5, <2>2 DEF Exists
  <2>3. CASE x[w] = 0 /\ ~\E q \in Payments : payment'[q].target = w
    <3>1. HasFinancialActivity(w)
      BY <1>4, <1>6, <1>10, <2>3 DEF HasFinancialActivity
    <3> QED
      BY <3>1 DEF SettlementsInv, MoneyInv, ActivityExists
  <2> QED
    BY <1>9, <2>1, <2>2, <2>3
<1>13. UnverifiedIsUnallocated'
  BY <1>2, <1>3, <1>10 DEF SettlementsInv, MoneyInv, UnverifiedIsUnallocated
<1>14. TargetsFit'
  <2>1. ASSUME NEW q \in Payments, NEW t \in Weeks, payment'[q].target = t
        PROVE  Exists(t)' /\ settlement'[t].direction = payment'[q].direction
    <3>1. t # NoWeek
      BY DEF Weeks, NoWeek
    <3> QED
      BY <1>3, <1>6, <2>1, <3>1 DEF TargetFits
  <2> QED
    BY <1>3, <2>1 DEF TargetsFit, TargetFits, Exists
<1>15. ColumnsFinite' /\ PaidIsAllocated'
  <2>1. \A w \in Weeks : /\ IsFiniteSet(Units(Payments, Column(w))')
                         /\ Total(Payments, Column(w)') = settlement[w].paid + x[w]
    BY <1>1, <1>4, <1>9, ColumnGrows
  <2> QED
    BY <1>6, <2>1 DEF ColumnsFinite, PaidIsAllocated, Column, Units
<1>16. VerifiedIsAllocated'
  <2> SUFFICES ASSUME NEW q \in Payments
               PROVE  Total(Weeks, alloc'[q]) =
                        IF payment'[q].status = "verified" THEN payment'[q].amount ELSE 0
    BY DEF VerifiedIsAllocated
  <2>1. CASE q = p
    BY <1>2, <1>3, <1>7, <1>10, <2>1
  <2>2. CASE q # p
    <3>1. payment'[q] = payment[q] /\ alloc'[q] = alloc[q]
      BY <1>3, <1>10, <2>2
    <3> QED
      BY <3>1 DEF SettlementsInv, MoneyInv, VerifiedIsAllocated
  <2> QED
    BY <2>1, <2>2
<1>17. NeverOvercollected'
  <2> SUFFICES ASSUME NEW w \in Weeks, settlement'[w].paid > 0
               PROVE  Credited(settlement'[w]) <= Due(settlement'[w])
    BY DEF NeverOvercollected
  <2>1. CASE x[w] > 0
    <3>1. settlement[w] \in SettlementRows /\ x[w] \in Nat
      BY <1>9 DEF SettlementsInv, BooksInv, SettlementsTypeOK
    <3>2. settlement[w].paid \in Nat /\ settlement[w].adjustment \in Int
      BY <3>1 DEF SettlementRows
    <3>3. Credited(settlement'[w]) = Credited(settlement[w]) + x[w]
      BY <1>6, <3>1, <3>2 DEF Credited
    <3>4. Due(settlement'[w]) = Due(settlement[w])
      BY <1>6 DEF Due
    <3> QED
      BY <1>5, <2>1, <3>3, <3>4
  <2>2. CASE x[w] = 0
    <3>1. settlement'[w] = settlement[w]
      BY <1>6, <2>2
    <3> QED
      BY <3>1 DEF SettlementsInv, MoneyInv, NeverOvercollected
  <2> QED
    BY <1>9, <2>1, <2>2
<1>18. PaysItsDirection'
  <2> SUFFICES ASSUME NEW q \in Payments, NEW w \in Weeks, alloc'[q][w] > 0
               PROVE  settlement'[w].direction = payment'[q].direction
    BY DEF PaysItsDirection
  <2>1. CASE q = p
    BY <1>2, <1>3, <1>5, <1>6, <1>10, <2>1
  <2>2. CASE q # p
    <3>1. payment'[q] = payment[q] /\ alloc[q][w] > 0
      BY <1>3, <1>10, <2>2
    <3> QED
      BY <1>6, <3>1 DEF SettlementsInv, MoneyInv, PaysItsDirection
  <2> QED
    BY <2>1, <2>2
<1> QED
  BY <1>11, <1>12, <1>13, <1>14, <1>15, <1>16, <1>17, <1>18 DEF MoneyInv

-----------------------------------------------------------------------------
(* Types and counter sales.                                                *)

\* A step of any kind keeps the types.
LEMMA TypesStay ==
  ASSUME SettlementsInv, BooksStay', StepKind
  PROVE  SettlementsTypeOK'
<1>1. SettlementsTypeOK
  BY DEF SettlementsInv, BooksInv
<1>2. /\ StockTypeOK' /\ week' \in Weeks
      /\ books' \in [Weeks -> [orders : SUBSET Orders, share : Int, costs : Nat]]
      /\ sales' \subseteq [id : Sales, week : Weeks, product : Products, units : Nat]
      /\ credit' \in [Weeks -> Int]
  BY DEF BooksStay, StockInv, SourcesOK
<1> DEFINE Rest == /\ settlement' \in [Weeks -> SettlementRows]
                   /\ issue' \in [Weeks -> BOOLEAN] /\ dropped' \in [Weeks -> BOOLEAN]
                   /\ payment' \in [Payments -> PaymentRows]
                   /\ alloc' \in [Payments -> [Weeks -> Nat]]
<1>3. ASSUME KeepsBills
      PROVE  Rest
  BY <1>1, <1>3 DEF KeepsBills, billVars, payVars, SettlementsTypeOK
<1>4. ASSUME NEW w \in Weeks, Generates(w) \/ Adjusts(w)
      PROVE  Rest
  <2>1. settlement' \in [Weeks -> SettlementRows]
    <3>1. UNCHANGED settlement \/ Rebills(w)
      BY <1>4, GenerateRebills, SyncRebills DEF Generates, Adjusts
    <3> QED
      BY <1>1, <3>1, AfterRebills DEF SettlementsTypeOK
  <2>2. /\ issue' = issue \/ \E b \in BOOLEAN : issue' = [issue EXCEPT ![w] = b]
        /\ dropped' = dropped \/ \E b \in BOOLEAN : dropped' = [dropped EXCEPT ![w] = b]
    <3>1. CASE Generate(w)
      BY <3>1, Zenon DEF Generate, billVars
    <3>2. CASE Sync(w)
      <4>1. CreditDiffers(w)' \in BOOLEAN /\ (FiguresDiffer(w)' /\ ~issue'[w]) \in BOOLEAN
        BY Zenon DEF CreditDiffers
      <4> QED
        BY <3>2, <4>1, Zenon DEF Sync, billVars
    <3> QED
      BY <1>4, <3>1, <3>2 DEF Generates, Adjusts
  <2>3. issue' \in [Weeks -> BOOLEAN] /\ dropped' \in [Weeks -> BOOLEAN]
    BY <1>1, <2>2 DEF SettlementsTypeOK
  <2> QED
    BY <1>1, <1>4, <2>1, <2>3 DEF Generates, Adjusts, payVars, SettlementsTypeOK
<1>5. ASSUME NEW p \in Payments, Enters(p)
      PROVE  Rest
  <2>1. payment' \in [Payments -> PaymentRows]
    BY <1>5, AfterBecomes DEF Enters
  <2> QED
    BY <1>1, <1>5, <2>1 DEF Enters, billVars, SettlementsTypeOK
<1>6. ASSUME NEW p \in Payments, NEW d, NEW a, Pays(p, d, a)
      PROVE  Rest
  <2>1. payment' \in [Payments -> PaymentRows]
    BY <1>6, AfterBecomes DEF Pays
  <2>2. 1 \in Weeks
    BY WeeksAssumption DEF Weeks
  <2>3. settlement' \in [Weeks -> SettlementRows]
    BY <1>6, <2>2, AfterPays
  <2>4. a \in Nat /\ alloc' = [alloc EXCEPT ![p] = Given(d, a)] /\ UNCHANGED <<issue, dropped>>
    BY <1>6 DEF Pays, Allocate, Given
  <2>5. Given(d, a) \in [Weeks -> Nat]
    BY <2>2, <2>4, GivenFits
  <2> QED
    BY <1>1, <2>1, <2>3, <2>4, <2>5 DEF SettlementsTypeOK
<1> QED
  BY <1>2, <1>3, <1>4, <1>5, <1>6 DEF StepKind, SettlementsTypeOK

\* The counter sales of a week are billed, or there is an issue about them.
OfflineFits(w) ==
  /\ CounterRows(w) # {} => Exists(w)
  /\ Exists(w) /\ settlement[w].bill.offline # OfflineTotal(w) => issue[w] \/ dropped[w]

\* They stay so as long as neither they nor the bill change.
LEMMA OfflineSame ==
  ASSUME NEW v \in Weeks, OfflineFits(v), CounterRows(v)' = CounterRows(v),
         Exists(v)' <=> Exists(v), settlement'[v].bill = settlement[v].bill,
         issue'[v] = issue[v], dropped'[v] = dropped[v]
  PROVE  OfflineFits(v)'
<1>1. OfflineTotal(v)' = OfflineTotal(v)
  BY DEF OfflineTotal
<1> QED
  BY <1>1 DEF OfflineFits

\* Generating the bill of a week takes them in.
LEMMA GenerateFits ==
  ASSUME SettlementsInv, BooksStay', NEW w \in Weeks, Generate(w)
  PROVE  OfflineFits(w)'
<1>1. Source(w)'.offline = OfflineTotal(w)'
  BY BilledFits
<1>2. /\ settlement \in [Weeks -> SettlementRows]
      /\ issue \in [Weeks -> BOOLEAN] /\ dropped \in [Weeks -> BOOLEAN]
  BY DEF SettlementsInv, BooksInv, SettlementsTypeOK
<1>3. CASE ~Exists(w) /\ NothingSold(w)' /\ UNCHANGED billVars
  BY <1>3 DEF OfflineFits, NothingSold, Exists, billVars
<1>4. CASE /\ Exists(w) /\ UNCHANGED settlement
           /\ issue' = [issue EXCEPT ![w] = (FiguresDiffer(w) \/ CreditDiffers(w))']
  <2>1. issue'[w] <=> (FiguresDiffer(w) \/ CreditDiffers(w))'
    BY <1>2, <1>4, Zenon
  <2>2. settlement'[w].bill.offline # OfflineTotal(w)' => FiguresDiffer(w)'
    BY <1>1 DEF FiguresDiffer
  <2> QED
    BY <1>4, <2>1, <2>2 DEF OfflineFits, Exists
<1>5. CASE settlement' = [settlement EXCEPT ![w] = Billed(w)]
  <2>1. settlement'[w].status # "none" /\ settlement'[w].bill = Source(w)'
    BY <1>2, <1>5, BilledFits
  <2> QED
    BY <1>1, <2>1 DEF OfflineFits, Exists
<1> QED
  BY <1>3, <1>4, <1>5 DEF Generate, Billed

\* Every step keeps the counter sales billed, or an issue about them.
LEMMA OfflineStays ==
  ASSUME SettlementsInv, BooksStay', StepKind
  PROVE  OfflineIsBilled'
<1>1. /\ settlement \in [Weeks -> SettlementRows]
      /\ issue \in [Weeks -> BOOLEAN] /\ dropped \in [Weeks -> BOOLEAN]
  BY DEF SettlementsInv, BooksInv, SettlementsTypeOK
<1>2. \A v \in Weeks : OfflineFits(v)
  BY DEF SettlementsInv, OfflineIsBilled, OfflineFits
<1>3. CASE KeepsBills
  BY <1>2, <1>3, OfflineSame DEF KeepsBills, billVars, CounterRows, Exists, OfflineIsBilled,
                                 OfflineFits
<1>4. ASSUME NEW w \in Weeks, Generates(w), NEW v \in Weeks
      PROVE  OfflineFits(v)'
  <2>1. CASE v = w
    BY <1>4, <2>1, GenerateFits DEF Generates
  <2>2. CASE v # w
    <3>1. settlement'[v] = settlement[v]
      BY <1>4, <2>2, GenerateRebills, AfterRebills DEF Generates
    <3>2. issue'[v] = issue[v] /\ dropped'[v] = dropped[v]
      BY <1>1, <1>4, <2>2 DEF Generates, Generate, billVars
    <3>3. CounterRows(v)' = CounterRows(v)
      BY <1>4, <2>2 DEF Generates, SalesOfOtherWeeksStay
    <3> QED
      BY <1>2, <3>1, <3>2, <3>3, OfflineSame DEF Exists
  <2> QED
    BY <2>1, <2>2
<1>5. ASSUME NEW w \in Weeks, Adjusts(w), NEW v \in Weeks
      PROVE  OfflineFits(v)'
  <2>1. CounterRows(v)' = CounterRows(v)
    BY <1>5 DEF Adjusts, CounterRows
  <2>2. /\ settlement'[v].bill = settlement[v].bill
        /\ Exists(v)' <=> Exists(v)
    <3>1. CASE UNCHANGED settlement
      BY <3>1 DEF Exists
    <3>2. CASE Exists(w) /\ settlement' = [settlement EXCEPT ![w] = Synced(w)]
      BY <1>1, <3>2, SyncedFits DEF Exists
    <3> QED
      BY <1>5, <3>1, <3>2 DEF Adjusts, Sync, billVars, Synced
  <2>3. CASE issue'[v] = issue[v] /\ dropped'[v] = dropped[v]
    BY <1>2, <2>1, <2>2, <2>3, OfflineSame
  <2>4. CASE ~(issue'[v] = issue[v] /\ dropped'[v] = dropped[v])
    <3>1. /\ v = w /\ UNCHANGED settlement
          /\ dropped' = [dropped EXCEPT ![w] = FiguresDiffer(w)' /\ ~issue'[w]]
      BY <1>1, <1>5, <2>4 DEF Adjusts, Sync, billVars
    <3>2. dropped'[w] <=> FiguresDiffer(w)' /\ ~issue'[w]
      BY <1>1, <3>1, Zenon
    <3>3. Source(w)'.offline = OfflineTotal(w)'
      BY BilledFits
    <3>4. settlement'[w].bill.offline # OfflineTotal(w)' => FiguresDiffer(w)'
      BY <3>3 DEF FiguresDiffer
    <3>5. CounterRows(w)' # {} => Exists(w)'
      BY <1>2, <2>1, <2>2, <3>1 DEF OfflineFits
    <3> QED
      BY <3>1, <3>2, <3>4, <3>5 DEF OfflineFits
  <2> QED
    BY <2>3, <2>4
<1>6. ASSUME NEW p \in Payments, Enters(p)
      PROVE  OfflineIsBilled'
  BY <1>2, <1>6, OfflineSame DEF Enters, billVars, CounterRows, Exists, OfflineIsBilled,
                                 OfflineFits
<1>7. ASSUME NEW p \in Payments, NEW d, NEW a, Pays(p, d, a), NEW v \in Weeks
      PROVE  OfflineFits(v)'
  <2>1. /\ CounterRows(v)' = CounterRows(v)
        /\ issue'[v] = issue[v] /\ dropped'[v] = dropped[v]
    BY <1>7 DEF Pays, Allocate, CounterRows, sourceVars
  <2>2. settlement'[v].bill = settlement[v].bill /\ (Exists(v)' <=> Exists(v))
    BY <1>7, AfterPays
  <2> QED
    BY <1>2, <2>1, <2>2, OfflineSame
<1>8. (\A v \in Weeks : OfflineFits(v)') => OfflineIsBilled'
  BY DEF OfflineIsBilled, OfflineFits
<1> QED
  BY <1>3, <1>4, <1>5, <1>6, <1>7, <1>8 DEF StepKind

-----------------------------------------------------------------------------
(* The invariant is inductive.                                             *)

\* A step of any kind keeps the money straight.
LEMMA MoneyStays ==
  ASSUME SettlementsInv, BooksStay', StepKind
  PROVE  MoneyInv'
<1>1. ASSUME NEW w \in Weeks, Generates(w) \/ Adjusts(w)
      PROVE  MoneyInv'
  <2>1. UNCHANGED payVars
    BY <1>1 DEF Generates, Adjusts
  <2>2. UNCHANGED settlement \/ Rebills(w)
    BY <1>1, GenerateRebills, SyncRebills DEF Generates, Adjusts
  <2> QED
    BY <2>1, <2>2, IdleMoney, RebillMoney
<1>2. CASE KeepsBills
  BY <1>2, IdleMoney DEF KeepsBills, billVars
<1> QED
  BY <1>1, <1>2, EnterMoney, PayMoney DEF StepKind

\* Nothing that has no units has any.
LEMMA TotalOfZero ==
  ASSUME NEW S, NEW n, \A x \in S : n[x] = 0
  PROVE  IsFiniteSet(Units(S, n)) /\ Total(S, n) = 0
<1>1. Units(S, n) = {}
  BY DEF Units
<1> QED
  BY <1>1, FS_EmptySet DEF Total

\* At the start there is no settlement and no money.
LEMMA InitEstablishes ==
  ASSUME SettlementsInit
  PROVE  SettlementsInv
<1>1. StockInv
  BY StockInitEstablishes DEF SettlementsInit
<1>2. /\ \A w \in Weeks : settlement[w] = NoSettlement
      /\ \A p \in Payments : payment[p] = NoPayment /\ \A w \in Weeks : alloc[p][w] = 0
  BY DEF SettlementsInit
<1>3. BooksInv
  <2>1. 1 \in Weeks
    BY WeeksAssumption DEF Weeks
  <2>2. NoSettlement \in SettlementRows /\ NoPayment \in PaymentRows
    BY DEF NoSettlement, SettlementRows, Nothing, Bills, NoPayment, PaymentRows
  <2>3. SettlementsTypeOK
    BY <1>1, <2>1, <2>2 DEF SettlementsInit, SettlementsTypeOK, StockInv
  <2> QED
    BY <1>1, <2>3, FS_EmptySet DEF BooksInv, SettlementsInit, StockInv
<1>4. OfflineIsBilled
  BY <1>2 DEF OfflineIsBilled, SettlementsInit, CounterRows, Exists, NoSettlement
<1>5. StatusesFit /\ NeverOvercollected
  BY <1>2 DEF StatusesFit, StatusFits, NeverOvercollected, NoSettlement
<1>6. ActivityExists
  <2> SUFFICES ASSUME NEW w \in Weeks
               PROVE  ~HasFinancialActivity(w)
    BY DEF ActivityExists
  <2>1. w # NoWeek
    BY DEF Weeks, NoWeek
  <2> QED
    BY <1>2, <2>1 DEF HasFinancialActivity, NoSettlement, NoPayment
<1>7. UnverifiedIsUnallocated /\ TargetsFit /\ PaysItsDirection
  BY <1>2 DEF UnverifiedIsUnallocated, TargetsFit, TargetFits, PaysItsDirection, NoPayment
<1>8. VerifiedIsAllocated
  BY <1>2, TotalOfZero DEF VerifiedIsAllocated, NoPayment
<1>9. ColumnsFinite /\ PaidIsAllocated
  <2>1. ASSUME NEW w \in Weeks
        PROVE  IsFiniteSet(Units(Payments, Column(w))) /\ Total(Payments, Column(w)) = 0
    <3>1. \A p \in Payments : Column(w)[p] = 0
      BY <1>2 DEF Column
    <3> QED
      BY <3>1, TotalOfZero
  <2>2. \A w \in Weeks : settlement[w].paid = 0
    BY <1>2 DEF NoSettlement
  <2> QED
    BY <2>1, <2>2 DEF ColumnsFinite, PaidIsAllocated, Column
<1> QED
  BY <1>3, <1>4, <1>5, <1>6, <1>7, <1>8, <1>9 DEF SettlementsInv, MoneyInv

\* The invariant of the settlements, for any number of weeks, orders, sales and
\* payments.
THEOREM SettlementsAlwaysSound == SettlementsSpec => []SettlementsInv
<1>1. SettlementsInit => SettlementsInv
  BY InitEstablishes
<1>2. SettlementsInv /\ [SettlementsNext]_settlementsVars => SettlementsInv'
  <2> SUFFICES ASSUME SettlementsInv, [SettlementsNext]_settlementsVars
               PROVE  SettlementsInv'
    OBVIOUS
  <2>1. BooksStay' /\ StepKind
    BY NextKeepsBooks, StepKinds DEF SettlementsInv
  <2>2. SettlementsTypeOK' /\ OfflineIsBilled' /\ MoneyInv'
    BY <2>1, TypesStay, OfflineStays, MoneyStays
  <2> QED
    BY <2>1, <2>2 DEF SettlementsInv, BooksInv, BooksStay, StockInv, SourcesOK
<1> QED
  BY <1>1, <1>2, PTL DEF SettlementsSpec

-----------------------------------------------------------------------------
(* The properties.                                                         *)

\* Every figure of the settlements and payments has its type: none of the paid and
\* outstanding amounts is ever negative.
THEOREM SettlementsTyped == SettlementsSpec => []SettlementsTypeOK
<1>1. SettlementsInv => SettlementsTypeOK
  BY DEF SettlementsInv, BooksInv
<1> QED
  BY <1>1, SettlementsAlwaysSound, PTL

\* Counter sales, their corrections and deletions leave the reservations of the
\* orders on the shelf.
THEOREM CounterStockSound == SettlementsSpec => []StockSound
<1>1. SettlementsInv => StockSound
  BY DEF SettlementsInv, BooksInv
<1> QED
  BY <1>1, SettlementsAlwaysSound, PTL

\* A verified payment is on the settlements to the last unit, whatever happened
\* between the transfer and its verification.
THEOREM VerifiedIsAllocatedHolds == SettlementsSpec => []VerifiedIsAllocated
<1>1. SettlementsInv => VerifiedIsAllocated
  BY DEF SettlementsInv, MoneyInv
<1> QED
  BY <1>1, SettlementsAlwaysSound, PTL

\* The paid figure of a settlement is the sum of its allocations.
THEOREM PaidIsAllocatedHolds == SettlementsSpec => []PaidIsAllocated
<1>1. SettlementsInv => PaidIsAllocated
  BY DEF SettlementsInv, MoneyInv
<1> QED
  BY <1>1, SettlementsAlwaysSound, PTL

\* No settlement with money on it has more than it is due.
THEOREM NeverOvercollectedHolds == SettlementsSpec => []NeverOvercollected
<1>1. SettlementsInv => NeverOvercollected
  BY DEF SettlementsInv, MoneyInv
<1> QED
  BY <1>1, SettlementsAlwaysSound, PTL

\* Money goes, and stays, the way the settlement it pays is due.
THEOREM PaysItsDirectionHolds == SettlementsSpec => []PaysItsDirection
<1>1. SettlementsInv => PaysItsDirection
  BY DEF SettlementsInv, MoneyInv
<1> QED
  BY <1>1, SettlementsAlwaysSound, PTL

\* Counter sales are billed, or there is an issue about them that no sync dropped.
THEOREM OfflineIsBilledHolds == SettlementsSpec => []OfflineIsBilled
<1>1. SettlementsInv => OfflineIsBilled
  BY DEF SettlementsInv
<1> QED
  BY <1>1, SettlementsAlwaysSound, PTL

\* A payment on its way finds the settlement that it names as it was.
THEOREM TargetStandsHolds == SettlementsSpec => []TargetStands
<1>1. SettlementsInv => TargetStands
  BY DEF SettlementsInv, MoneyInv, TargetsFit, TargetFits, TargetStands
<1> QED
  BY <1>1, SettlementsAlwaysSound, PTL

\* Money given is money booked, in the sense of all five parts.
THEOREM MoneySoundHolds == SettlementsSpec => []MoneySound
  BY VerifiedIsAllocatedHolds, PaidIsAllocatedHolds, NeverOvercollectedHolds,
     PaysItsDirectionHolds, TargetStandsHolds, PTL DEF MoneySound

\* What OldestFirst asks of a step, for two weeks.
OlderIsPaid(v, w) ==
  /\ v < w
  /\ settlement'[w].paid > settlement[w].paid
  /\ settlement[v].status = "open"
  /\ settlement[v].direction = settlement[w].direction
  => settlement'[v].status = "paid"

\* A payment fills an older settlement of its direction before it reaches one.
LEMMA PaysOldestFirst ==
  ASSUME SettlementsInv, NEW p \in Payments, NEW d, NEW a, Pays(p, d, a),
         NEW v \in Weeks, NEW w \in Weeks
  PROVE  OlderIsPaid(v, w)
<1> SUFFICES ASSUME v < w, settlement'[w].paid > settlement[w].paid,
                    settlement[v].status = "open",
                    settlement[v].direction = settlement[w].direction
             PROVE  settlement'[v].status = "paid"
  BY DEF OlderIsPaid
<1> DEFINE C == Unpaid(d)
<1>1. a \in Nat /\ OutstandingOK /\ C \in SUBSET Weeks
  BY OutstandingTyped DEF Pays, SettlementsInv, BooksInv, Unpaid
<1>2. Given(d, a) \in [Weeks -> Nat]
  BY <1>1, GivenFits
<1>3. settlement[v] \in SettlementRows /\ settlement[w] \in SettlementRows
  BY DEF SettlementsInv, BooksInv, SettlementsTypeOK
<1>4. Given(d, a)[w] > 0
  <2>1. settlement'[w].paid = settlement[w].paid + Given(d, a)[w]
    BY AfterPays
  <2>2. settlement[w].paid \in Nat /\ Given(d, a)[w] \in Nat
    BY <1>2, <1>3 DEF SettlementRows
  <2> QED
    BY <2>1, <2>2
<1>5. w \in Path(C, a) /\ settlement[w].direction = d
  BY <1>1, <1>4, GivenFits
<1>6. v \in C /\ w \in C /\ Before(C, w) < a
  BY <1>5 DEF Path, Unpaid
<1>7. /\ Due(settlement[v]) \in Nat /\ Credited(settlement[v]) \in Int
      /\ Credited(settlement[v]) < Due(settlement[v])
  <2>1. Due(settlement[v]) \in Nat /\ Credited(settlement[v]) \in Int
    BY <1>3, Figures
  <2> QED
    BY <2>1 DEF SettlementsInv, MoneyInv, StatusesFit, StatusFits
<1>8. Outstanding[v] = Due(settlement[v]) - Credited(settlement[v]) /\ Outstanding[v] > 0
  BY <1>7 DEF Outstanding, Left
<1>9. /\ Before(C, v) \in Nat /\ Before(C, w) \in Nat
      /\ Before(C, v) + Outstanding[v] <= Before(C, w)
  BY <1>1, <1>6, BeforeGrows
<1> HIDE DEF C
<1>10. Given(d, a)[v] = Outstanding[v]
  <2>1. v \in Path(C, a)
    BY <1>1, <1>6, <1>7, <1>8, <1>9 DEF Path
  <2>2. /\ Given(d, a)[v] <= Outstanding[v]
        /\ \/ Given(d, a)[v] = Outstanding[v]
           \/ Before(C, v) + Given(d, a)[v] = a
    BY <1>1, <2>1, FifoShareBounds DEF Given, C
  <2>3. Given(d, a)[v] \in Nat
    BY <1>2
  <2> QED
    BY <1>1, <1>6, <1>7, <1>8, <1>9, <2>2, <2>3
<1>11. /\ settlement'[v].paid = settlement[v].paid + Given(d, a)[v]
       /\ settlement'[v].bill = settlement[v].bill
       /\ settlement'[v].adjustment = settlement[v].adjustment
       /\ Exists(v)' <=> Exists(v)
       /\ StatusFits(settlement'[v])
  BY AfterPays
<1>12. Credited(settlement'[v]) = Due(settlement'[v]) /\ Due(settlement'[v]) \in Nat
  <2>1. settlement[v].paid \in Nat /\ settlement[v].adjustment \in Int
    BY <1>3 DEF SettlementRows
  <2>2. Credited(settlement'[v]) = Credited(settlement[v]) + Given(d, a)[v]
    BY <1>2, <1>11, <2>1 DEF Credited
  <2>3. Due(settlement'[v]) = Due(settlement[v])
    BY <1>11 DEF Due
  <2> QED
    BY <1>7, <1>8, <1>10, <2>2, <2>3
<1>13. settlement'[v].status # "none"
  BY <1>11 DEF Exists
<1> QED
  BY <1>11, <1>12, <1>13 DEF StatusFits

\* verifyPayment and the owner's records allocate oldest first, and nothing else
\* moves money.
THEOREM OldestFirstHolds == SettlementsSpec => OldestFirst
<1>1. ASSUME SettlementsInv, [SettlementsNext]_settlementsVars
      PROVE  [\A v, w \in Weeks : OlderIsPaid(v, w)]_settlementsVars
  <2> SUFFICES ASSUME NEW v \in Weeks, NEW w \in Weeks
               PROVE  OlderIsPaid(v, w)
    OBVIOUS
  <2>1. BooksStay' /\ StepKind
    BY <1>1, NextKeepsBooks, StepKinds DEF SettlementsInv
  <2>2. settlement[w].paid \in Nat
    BY <1>1 DEF SettlementsInv, BooksInv, SettlementsTypeOK, SettlementRows
  <2>3. ASSUME settlement'[w].paid = settlement[w].paid
        PROVE  OlderIsPaid(v, w)
    BY <2>2, <2>3 DEF OlderIsPaid
  <2>4. CASE UNCHANGED settlement
    BY <2>3, <2>4
  <2>5. ASSUME NEW x \in Weeks, Generates(x) \/ Adjusts(x)
        PROVE  OlderIsPaid(v, w)
    <3>1. UNCHANGED settlement \/ Rebills(x)
      BY <1>1, <2>1, <2>5, GenerateRebills, SyncRebills DEF Generates, Adjusts
    <3> QED
      BY <1>1, <2>3, <2>4, <3>1, AfterRebills
  <2> QED
    BY <1>1, <2>1, <2>4, <2>5, PaysOldestFirst DEF StepKind, KeepsBills, Enters, billVars
<1>2. [\A v, w \in Weeks : OlderIsPaid(v, w)]_settlementsVars
      => [\A v, w \in Weeks :
            /\ v < w
            /\ settlement'[w].paid > settlement[w].paid
            /\ settlement[v].status = "open"
            /\ settlement[v].direction = settlement[w].direction
            => settlement'[v].status = "paid"]_settlementsVars
  BY DEF OlderIsPaid
<1> QED
  BY <1>1, <1>2, SettlementsAlwaysSound, PTL DEF SettlementsSpec, OldestFirst

\* What BillStands asks of a step, for one week.
BillStays(w) ==
  settlement[w].paid > 0 \/ (\E p \in Payments : payment[p].target = w)
  => /\ settlement'[w].bill = settlement[w].bill
     /\ settlement'[w].adjustment = settlement[w].adjustment

\* Once money is on its way to a settlement, its figures stand: the generator and
\* the sync keep away, and an allocation changes the paid figure alone.
THEOREM BillStandsHolds == SettlementsSpec => BillStands
<1>1. ASSUME SettlementsInv, [SettlementsNext]_settlementsVars
      PROVE  [\A w \in Weeks : BillStays(w)]_settlementsVars
  <2> SUFFICES ASSUME NEW w \in Weeks
               PROVE  BillStays(w)
    OBVIOUS
  <2>1. BooksStay' /\ StepKind
    BY <1>1, NextKeepsBooks, StepKinds DEF SettlementsInv
  <2>2. CASE UNCHANGED settlement
    BY <2>2 DEF BillStays
  <2>3. ASSUME NEW x \in Weeks, Generates(x) \/ Adjusts(x)
        PROVE  BillStays(w)
    <3>1. UNCHANGED settlement \/ Rebills(x)
      BY <1>1, <2>1, <2>3, GenerateRebills, SyncRebills DEF Generates, Adjusts
    <3>2. CASE Rebills(x) /\ w # x
      <4>1. settlement'[w] = settlement[w]
        BY <1>1, <3>2, AfterRebills
      <4> QED
        BY <4>1 DEF BillStays
    <3>3. CASE Rebills(x) /\ w = x
      BY <1>1, <3>3, AfterRebills DEF BillStays
    <3> QED
      BY <2>2, <3>1, <3>2, <3>3
  <2>4. ASSUME NEW p \in Payments, NEW d, NEW a, Pays(p, d, a)
        PROVE  BillStays(w)
    BY <1>1, <2>4, AfterPays DEF BillStays
  <2> QED
    BY <2>1, <2>2, <2>3, <2>4 DEF StepKind, KeepsBills, Enters, billVars
<1>2. [\A w \in Weeks : BillStays(w)]_settlementsVars
      => [\A w \in Weeks :
            settlement[w].paid > 0 \/ (\E p \in Payments : payment[p].target = w)
            => /\ settlement'[w].bill = settlement[w].bill
               /\ settlement'[w].adjustment = settlement[w].adjustment]_settlementsVars
  BY DEF BillStays
<1> QED
  BY <1>1, <1>2, SettlementsAlwaysSound, PTL DEF SettlementsSpec, BillStands

-----------------------------------------------------------------------------
(* Why verifying payments one by one stands for verifying a group of them. *)

\* A payment that waits is the outlet's, and no other waits.
OnePending ==
  \A p \in Payments : payment[p].status = "pending" =>
    /\ payment[p].direction = OutletPays
    /\ \A q \in Payments : payment[q].status = "pending" => q = p

\* A step hands in a payment when none waits, or leaves those that wait as they were.
LEMMA PendingSteps ==
  ASSUME SettlementsInv, SettlementsNext
  PROVE  \/ \A q \in Payments : payment'[q].status = "pending" => payment'[q] = payment[q]
         \/ \E p \in Payments : \E w, a :
              /\ \A q \in Payments :
                   payment[q].direction = OutletPays => payment[q].status # "pending"
              /\ Enter(p, "pending", OutletPays, w, a)
<1>1. payment \in [Payments -> PaymentRows]
  BY DEF SettlementsInv, BooksInv, SettlementsTypeOK
<1> DEFINE Stay == \A q \in Payments : payment'[q].status = "pending" => payment'[q] = payment[q]
<1>2. CASE UNCHANGED payment
  BY <1>2
<1>3. ASSUME NEW p \in Payments, NEW a \in Amounts, SubmitPayment(p, a)
      PROVE  \E w : /\ \A q \in Payments :
                         payment[q].direction = OutletPays => payment[q].status # "pending"
                    /\ Enter(p, "pending", OutletPays, w, a)
  BY <1>3 DEF SubmitPayment
<1>4. ASSUME NEW p \in Payments, NEW row, payment' = [payment EXCEPT ![p] = row],
             row.status # "pending"
      PROVE  Stay
  BY <1>1, <1>4
<1>5. ASSUME NEW p \in Payments, NEW a \in Amounts, RecordPayment(p, a) \/ RecordPayout(p, a)
      PROVE  Stay
  <2>1. PICK d : Pays(p, d, a)
    BY <1>5, RecordPays
  <2> QED
    BY <1>4, <2>1 DEF Pays, Becomes
<1>6. ASSUME NEW p \in Payments, VerifyPayment(p)
      PROVE  Stay
  <2>1. Pays(p, payment[p].direction, payment[p].amount)
    BY <1>6, VerifyPays
  <2> QED
    BY <1>4, <2>1 DEF Pays, Becomes
<1>7. ASSUME NEW p \in Payments, RejectPayment(p)
      PROVE  Stay
  <2>1. payment' = [payment EXCEPT ![p] = [payment[p] EXCEPT !.status = "rejected"]]
    BY <1>7 DEF RejectPayment
  <2>2. [payment[p] EXCEPT !.status = "rejected"].status = "rejected"
    BY <1>1 DEF PaymentRows
  <2> QED
    BY <1>4, <2>1, <2>2
<1>8. CASE NextWeek \/ StockMoves
  BY <1>2, <1>8 DEF NextWeek, StockMoves, payVars
<1>9. CASE SaleStep
  BY <1>2, <1>9 DEF SaleStep, CompleteOrder, CompleteFromPayment, Complete, RecordSale,
                    DeleteSale, EditSale, payVars
<1>10. CASE AdjustStep
  BY <1>2, <1>10 DEF AdjustStep, Charge, CompleteExchange, CompleteReturn, Backfill, payVars
<1>11. CASE \E p \in Payments : PaymentStep(p)
  BY <1>3, <1>5, <1>6, <1>7, <1>11 DEF PaymentStep, BulkVerify
<1> QED
  BY <1>8, <1>9, <1>10, <1>11 DEF SettlementsNext

\* Never do two payments wait for verification, so a group that bulkVerifyPayments
\* is given has at most one that it verifies.
THEOREM OnePendingHolds == SettlementsSpec => []OnePending
<1>1. SettlementsInit => OnePending
  BY DEF SettlementsInit, OnePending, NoPayment
<1>2. SettlementsInv /\ OnePending /\ [SettlementsNext]_settlementsVars => OnePending'
  <2> SUFFICES ASSUME SettlementsInv, OnePending, [SettlementsNext]_settlementsVars
               PROVE  OnePending'
    OBVIOUS
  <2>1. CASE UNCHANGED settlementsVars
    BY <2>1 DEF settlementsVars, payVars, OnePending
  <2>2. CASE \A q \in Payments : payment'[q].status = "pending" => payment'[q] = payment[q]
    BY <2>2 DEF OnePending
  <2>3. ASSUME NEW p \in Payments, NEW w, NEW a,
               \A q \in Payments :
                 payment[q].direction = OutletPays => payment[q].status # "pending",
               Enter(p, "pending", OutletPays, w, a)
        PROVE  OnePending'
    <3>1. payment \in [Payments -> PaymentRows]
      BY DEF SettlementsInv, BooksInv, SettlementsTypeOK
    <3>2. \A q \in Payments : payment[q].status # "pending"
      BY <2>3 DEF OnePending
    <3>3. payment'[p].direction = OutletPays
      BY <2>3, <3>1 DEF Enter
    <3>4. \A q \in Payments \ {p} : payment'[q] = payment[q]
      BY <2>3, <3>1 DEF Enter
    <3> QED
      BY <3>2, <3>3, <3>4 DEF OnePending
  <2> QED
    BY <2>1, <2>2, <2>3, PendingSteps
<1> QED
  BY <1>1, <1>2, SettlementsAlwaysSound, PTL DEF SettlementsSpec

=============================================================================
