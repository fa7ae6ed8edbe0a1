------------------------------ MODULE Settlements ------------------------------
(***************************************************************************)
(* The weekly settlement of one outlet: what the owner and the outlet owe  *)
(* each other for the orders completed, the counter (offline) sales, the   *)
(* costs and the exchanges of a week, and the payments that settle it      *)
(* (SettlementGeneratorService, SettlementPaymentService, Settlement,      *)
(* OfflineSaleController and the two payment controllers under src/app).   *)
(*                                                                         *)
(* Every handler takes Outlet::lockForSettlement and runs in one database  *)
(* transaction, so a handler is one step, the stock it moves included, and *)
(* a handler that throws is not enabled.  Amounts are whole numbers.  The  *)
(* due date only tells apart the unpaid statuses, which are one here.      *)
(***************************************************************************)
EXTENDS OutletInventory

CONSTANTS
  MaxWeeks,   \* bound: the weeks that pass
  Payments,   \* the settlement payments that may be made
  Sales,      \* the counter sales on the books at one time
  Share,      \* Share[o]: the outlet's share of order o
  Price,      \* Price[p]: the centre's price of a unit of p
  Amounts,    \* what a payment form can hold
  Credits,    \* what an exchange leaves, credited or, negative, charged
  Costs       \* what the courier costs and refunds of a week add up to

ASSUME WeeksAssumption == MaxWeeks \in Nat \ {0}
ASSUME PricesAssumption == Share \in [Orders -> Int] /\ Price \in [Products -> Nat]
ASSUME AmountsAssumption == Amounts \subseteq Nat \ {0}
ASSUME FiguresAssumption == Credits \subseteq Int /\ Costs \subseteq Nat

Weeks == 1..MaxWeeks
NoWeek == 0

VARIABLES
  week,        \* the current week
  books,       \* books[w]: the orders completed in week w, their share, the costs
  sales,       \* the offline_sales rows
  credit,      \* credit[w]: the exchange adjustments booked in week w
  settlement,  \* settlement[w]: the weekly settlement, status "none" before it exists
  issue,       \* issue[w]: the settlement has an open reconciliation issue
  payment,     \* payment[p]: status, direction, the settlement it names, amount
  alloc,       \* alloc[p][w]: what payment p put on settlement w
  dropped      \* history: week w was last compared by a sync that saw a
               \* credit that agrees and not the figures that differ

sourceVars == <<books, sales, credit>>
billVars == <<settlement, issue, dropped>>
payVars == <<payment, alloc>>
settlementsVars == <<stockVars, week, sourceVars, billVars, payVars>>

OwnerPays == "owner_pays_outlet"
OutletPays == "outlet_pays_owner"

-----------------------------------------------------------------------------
(* What a week comes to.                                                   *)

CounterRows(w) == {r \in sales : r.week = w}

OfflineTotal(w) == Total(CounterRows(w), [r \in CounterRows(w) |-> Price[r.product] * r.units])

NothingSold(w) == books[w].orders = {} /\ CounterRows(w) = {}

Nothing == [orders |-> {}, share |-> 0, offline |-> 0, costs |-> 0]

\* buildSourceSnapshot: the orders stand for the sales and delivery fee totals.
\* A week without sales has no figures, whatever its refunds.
Source(w) ==
  IF NothingSold(w)
  THEN Nothing
  ELSE [orders |-> books[w].orders, share |-> books[w].share,
        offline |-> OfflineTotal(w), costs |-> books[w].costs]

Net(b) == b.share - b.costs - b.offline

DirectionOf(net) == IF net >= 0 THEN OwnerPays ELSE OutletPays

Magnitude(n) == IF n < 0 THEN -n ELSE n

Due(s) == Magnitude(Net(s.bill))

Credited(s) == s.paid + s.adjustment

\* recalculateStatus.
Recalculated(s) ==
  IF Due(s) = 0
  THEN [s EXCEPT !.status = "paid"]
  ELSE [s EXCEPT !.direction = DirectionOf(Net(s.bill)),
                 !.status = IF Credited(s) >= Due(s) THEN "paid" ELSE "open",
                 !.overpaid = IF Credited(s) >= Due(s) THEN Credited(s) - Due(s) ELSE 0]

NoSettlement ==
  [status |-> "none", direction |-> OwnerPays, bill |-> Nothing,
   adjustment |-> 0, paid |-> 0, overpaid |-> 0]

-----------------------------------------------------------------------------
(* The generator.                                                          *)

Exists(w) == settlement[w].status # "none"

\* Mutant: only money that arrived counts, not money on its way.
HasMoney(w) ==
  \/ settlement[w].paid # 0 \/ settlement[w].adjustment # 0 \/ settlement[w].overpaid # 0
  \/ \E p \in Payments : alloc[p][w] # 0

\* hasFinancialActivity: a payment that was rejected counts.
HasFinancialActivity(w) ==
  \/ settlement[w].paid # 0 \/ settlement[w].adjustment # 0 \/ settlement[w].overpaid # 0
  \/ \E p \in Payments : payment[p].target = w \/ alloc[p][w] # 0

FiguresDiffer(w) == Source(w) # settlement[w].bill
CreditDiffers(w) == credit[w] # settlement[w].adjustment

\* generateForOutletLocked, for the sources as the step leaves them.
Generate(w) ==
  \/ /\ ~Exists(w) /\ NothingSold(w)'
     /\ UNCHANGED billVars
  \/ /\ Exists(w) /\ HasFinancialActivity(w)
     /\ UNCHANGED settlement
     /\ issue' = [issue EXCEPT ![w] = (FiguresDiffer(w) \/ CreditDiffers(w))']
     /\ dropped' = [dropped EXCEPT ![w] = FALSE]
  \/ /\ Exists(w) => ~HasFinancialActivity(w)
     /\ Exists(w) \/ ~NothingSold(w)'
     /\ settlement' = [settlement EXCEPT ![w] =
          Recalculated([@ EXCEPT !.bill = Source(w)', !.adjustment = credit'[w],
                                 !.direction = DirectionOf(Net(Source(w)'))])]
     /\ issue' = [issue EXCEPT ![w] = FALSE]
     /\ dropped' = [dropped EXCEPT ![w] = FALSE]

\* Mutant: the adjustment is written whatever has been paid.
SyncAlways(w) ==
  \/ ~Exists(w) /\ UNCHANGED billVars
  \/ /\ Exists(w)
     /\ settlement' = [settlement EXCEPT ![w] =
          Recalculated([@ EXCEPT !.adjustment = credit'[w]])]
     /\ UNCHANGED <<issue, dropped>>

\* syncAdjustmentsLocked: the source figures are taken from the settlement, so
\* only a credit that differs is a difference.
Sync(w) ==
  \/ ~Exists(w) /\ UNCHANGED billVars
  \/ /\ Exists(w) /\ HasFinancialActivity(w)
     /\ UNCHANGED settlement
     /\ issue' = [issue EXCEPT ![w] = CreditDiffers(w)']
     /\ dropped' = [dropped EXCEPT ![w] = FiguresDiffer(w)' /\ ~issue'[w]]
  \/ /\ Exists(w) /\ ~HasFinancialActivity(w)
     /\ settlement' = [settlement EXCEPT ![w] =
          Recalculated([@ EXCEPT !.adjustment = credit'[w]])]
     /\ UNCHANGED <<issue, dropped>>

-----------------------------------------------------------------------------
(* Sales, costs and exchanges.                                             *)

NextWeek ==
  /\ week < MaxWeeks
  /\ week' = week + 1
  /\ UNCHANGED <<stockVars, sourceVars, billVars, payVars>>

\* An order leaves the shelf and enters the current week, once.
Complete(o) ==
  /\ o \notin sold /\ Sell(o)
  /\ books' = [books EXCEPT ![week].orders = @ \cup {o}, ![week].share = @ + Share[o]]
  /\ UNCHANGED <<week, sales, credit, payVars>>

\* completePickup, and any transition to completed.
CompleteOrder(o) == Complete(o) /\ Generate(week)

\* completeFromPayment: the generator is not called.
CompleteFromPayment(o) == Complete(o) /\ UNCHANGED billVars

\* settlement:backfill.  Whether the week has a settlement is asked before the
\* lock is taken, so one may be there by then.
Backfill(w) ==
  /\ books[w].orders # {}
  /\ UNCHANGED <<stockVars, week, sourceVars, payVars>>
  /\ Generate(w)

Shelf(p, d) ==
  /\ current' = [current EXCEPT ![p] = @ + d]
  /\ UNCHANGED <<reserved, center, held, sold>>

\* Mutant: nothing is asked of the stock.
RecordSaleBlindly(p, q) ==
  /\ q > 0
  /\ Shelf(p, -q) /\ UNCHANGED journal
  /\ \E id \in Sales \ {r.id : r \in sales} :
       sales' = sales \cup {[id |-> id, week |-> week, product |-> p, units |-> q]}
  /\ UNCHANGED <<week, books, credit, payVars>>
  /\ Generate(week)

\* What the counter can sell is what no order has reserved.  The offline_sale
\* movement is none of the types that the journal counts.
RecordSale(p, q) ==
  /\ q > 0 /\ current[p] - reserved[p] >= q
  /\ Shelf(p, -q) /\ UNCHANGED journal
  /\ \E id \in Sales \ {r.id : r \in sales} :
       sales' = sales \cup {[id |-> id, week |-> week, product |-> p, units |-> q]}
  /\ UNCHANGED <<week, books, credit, payVars>>
  /\ Generate(week)

\* assertWeekHasNoPayments.
WeekHasNoPayments(w) ==
  /\ settlement[w].status # "paid" /\ settlement[w].paid = 0
  /\ \A p \in Payments :
       payment[p].target = w => payment[p].status \notin {"pending", "verified"}

\* A correction of a sale is booked as a stock adjustment and generates the
\* week of the sale again.
EditSale(r, n) ==
  /\ WeekHasNoPayments(r.week)
  /\ n > 0 /\ current[r.product] + r.units - reserved[r.product] >= n
  /\ Shelf(r.product, r.units - n)
  /\ journal' = [journal EXCEPT ![r.product] = @ + r.units - n]
  /\ sales' = (sales \ {r}) \cup {[r EXCEPT !.units = n]}
  /\ UNCHANGED <<week, books, credit, payVars>>
  /\ Generate(r.week)

\* Mutant: the current week is generated instead of the week of the sale.
DeleteSaleNow(r) ==
  /\ WeekHasNoPayments(r.week)
  /\ Shelf(r.product, r.units)
  /\ journal' = [journal EXCEPT ![r.product] = @ + r.units]
  /\ sales' = sales \ {r}
  /\ UNCHANGED <<week, books, credit, payVars>>
  /\ Generate(week)

DeleteSale(r) ==
  /\ WeekHasNoPayments(r.week)
  /\ Shelf(r.product, r.units)
  /\ journal' = [journal EXCEPT ![r.product] = @ + r.units]
  /\ sales' = sales \ {r}
  /\ UNCHANGED <<week, books, credit, payVars>>
  /\ Generate(r.week)

\* A courier is booked or a refund asked for: the costs of a week change and no
\* settlement is generated.
Charge(w, c) ==
  /\ books' = [books EXCEPT ![w].costs = c]
  /\ UNCHANGED <<stockVars, week, sales, credit, billVars, payVars>>

\* The adjustment counts in the week in which the exchange is completed, the
\* sync is for the week in which it was requested.
CompleteExchange(w, d) ==
  /\ credit' = [credit EXCEPT ![week] = @ + d]
  /\ UNCHANGED <<stockVars, week, books, sales, payVars>>
  /\ Sync(w)

CompleteReturn(w) ==
  /\ UNCHANGED <<stockVars, week, sourceVars, payVars>>
  /\ Sync(w)

-----------------------------------------------------------------------------
(* Payments.                                                               *)

Left(s) == IF Due(s) > Credited(s) THEN Due(s) - Credited(s) ELSE 0

Outstanding == [w \in Weeks |-> Left(settlement[w])]

Unpaid(d) == {w \in Weeks : settlement[w].status = "open" /\ settlement[w].direction = d}

Owed(C) == Total(C, Outstanding)

Oldest(C) == {w \in C : \A v \in C : w <= v}

\* What the settlements of C that are older than w take first.
Before(C, w) == Owed({v \in C : v < w})

\* The settlements that an amount reaches, oldest first, and its share of each.
Path(C, a) == {w \in C : Outstanding[w] > 0 /\ Before(C, w) < a}

\* Mutant: the newest settlement comes first.
NewestFirstShare(C, a) ==
  [w \in Weeks |->
     LET newer == Owed({v \in C : v > w})
     IN IF w \notin C \/ newer >= a THEN 0
        ELSE IF a - newer < Outstanding[w] THEN a - newer ELSE Outstanding[w]]

FifoShare(C, a) ==
  [w \in Weeks |->
     IF w \notin Path(C, a) THEN 0
     ELSE IF a - Before(C, w) < Outstanding[w] THEN a - Before(C, w) ELSE Outstanding[w]]

PathBlocked(C, a, named) == \E w \in Path(C, a) \cup named : issue[w]

\* applyFifoAllocation.
Allocate(p, C, a) ==
  /\ alloc' = [alloc EXCEPT ![p] = FifoShare(C, a)]
  /\ settlement' = [w \in Weeks |->
       IF FifoShare(C, a)[w] > 0
       THEN Recalculated([settlement[w] EXCEPT !.paid = @ + FifoShare(C, a)[w]])
       ELSE settlement[w]]
  /\ UNCHANGED <<stockVars, week, sourceVars, issue, dropped>>

NoPayment == [status |-> "none", direction |-> OutletPays, target |-> NoWeek, amount |-> 0]

Enter(p, status, d, w, a) ==
  /\ payment[p].status = "none"
  /\ payment' = [payment EXCEPT ![p] =
       [status |-> status, direction |-> d, target |-> w, amount |-> a]]

\* The outlet hands in a transfer.  When an open issue is in the way it is kept
\* without naming a settlement.
SubmitPayment(p, a) ==
  LET C == Unpaid(OutletPays)
      blocked == \/ PathBlocked(C, a, Oldest(C))
                 \/ /\ Owed(C) = 0
                    /\ \E w \in Weeks : /\ Exists(w) /\ issue[w]
                                        /\ settlement[w].direction = OutletPays
  IN /\ \A q \in Payments :
          payment[q].direction = OutletPays => payment[q].status # "pending"
     /\ \/ blocked /\ Enter(p, "pending", OutletPays, NoWeek, a)
        \/ /\ ~blocked /\ Owed(C) > 0 /\ a <= Owed(C)
           /\ \E w \in Oldest(C) : Enter(p, "pending", OutletPays, w, a)
     /\ UNCHANGED <<stockVars, week, sourceVars, billVars, alloc>>

\* What verifyPayment checks before it allocates.
Verifiable(p) ==
  LET d == payment[p].direction
      t == payment[p].target
  IN /\ payment[p].status = "pending"
     /\ t # NoWeek => Exists(t) /\ settlement[t].direction = d
     /\ Unpaid(d) # {}
     /\ ~PathBlocked(Unpaid(d), payment[p].amount, {t} \ {NoWeek})

\* An amount beyond what is owed is allocated to the last settlement twice,
\* which the unique index on the allocations refuses: nothing is verified.
VerifyPayment(p) ==
  LET C == Unpaid(payment[p].direction)
  IN /\ Verifiable(p) /\ payment[p].amount <= Owed(C)
     /\ payment' = [payment EXCEPT ![p].status = "verified"]
     /\ Allocate(p, C, payment[p].amount)

\* bulkVerifyPayments: a settlement that is named must still be unpaid.  At most
\* one payment is pending, so a group of them is one.
BulkVerify(p) ==
  /\ payment[p].target # NoWeek => payment[p].target \in Unpaid(payment[p].direction)
  /\ VerifyPayment(p)

RejectPayment(p) ==
  /\ payment[p].status = "pending"
  /\ payment' = [payment EXCEPT ![p].status = "rejected"]
  /\ UNCHANGED <<stockVars, week, sourceVars, billVars, alloc>>

\* What the owner enters is verified at once.
RecordVerified(p, d, a, w) ==
  /\ ~PathBlocked(Unpaid(d), a, {})
  /\ a <= Owed(Unpaid(d))
  /\ Enter(p, "verified", d, w, a)
  /\ Allocate(p, Unpaid(d), a)

RecordPayment(p, a) ==
  \E w \in Oldest(Unpaid(OutletPays)) : RecordVerified(p, OutletPays, a, w)

RecordPayout(p, a) ==
  Unpaid(OwnerPays) # {} /\ RecordVerified(p, OwnerPays, a, NoWeek)

-----------------------------------------------------------------------------
SettlementsInit ==
  /\ StockInit
  /\ week = 1
  /\ books = [w \in Weeks |-> [orders |-> {}, share |-> 0, costs |-> 0]]
  /\ sales = {}
  /\ credit = [w \in Weeks |-> 0]
  /\ settlement = [w \in Weeks |-> NoSettlement]
  /\ issue = [w \in Weeks |-> FALSE]
  /\ dropped = [w \in Weeks |-> FALSE]
  /\ payment = [p \in Payments |-> NoPayment]
  /\ alloc = [p \in Payments |-> [w \in Weeks |-> 0]]

StockMoves ==
  /\ \/ \E o \in Orders : Reserve(o) \/ Release(o)
     \/ \E p \in Products, n \in Counts : StaffStockStep(p, n)
  /\ UNCHANGED <<week, sourceVars, billVars, payVars>>

SaleStep ==
  \/ \E o \in Orders : CompleteOrder(o) \/ CompleteFromPayment(o)
  \/ \E p \in Products, q \in Counts : RecordSale(p, q)
  \/ \E r \in sales : DeleteSale(r) \/ \E n \in Counts : EditSale(r, n)

AdjustStep ==
  \E w \in 1..week :
    \/ \E c \in Costs : Charge(w, c)
    \/ \E d \in Credits : CompleteExchange(w, d)
    \/ CompleteReturn(w)
    \/ Backfill(w)

PaymentStep(p) ==
  \/ \E a \in Amounts : SubmitPayment(p, a) \/ RecordPayment(p, a) \/ RecordPayout(p, a)
  \/ VerifyPayment(p) \/ BulkVerify(p) \/ RejectPayment(p)

SettlementsNext ==
  \/ NextWeek
  \/ StockMoves
  \/ SaleStep
  \/ AdjustStep
  \/ \E p \in Payments : PaymentStep(p)

SettlementsSpec == SettlementsInit /\ [][SettlementsNext]_settlementsVars

-----------------------------------------------------------------------------
(* Properties.                                                             *)

Bills == [orders : SUBSET Orders, share : Int, offline : Nat, costs : Nat]

SettlementRows ==
  [status : {"none", "open", "paid"}, direction : {OwnerPays, OutletPays}, bill : Bills,
   adjustment : Int, paid : Nat, overpaid : Nat]

PaymentRows ==
  [status : {"none", "pending", "verified", "rejected"}, direction : {OwnerPays, OutletPays},
   target : Weeks \cup {NoWeek}, amount : Nat]

SettlementsTypeOK ==
  /\ StockTypeOK
  /\ week \in Weeks
  /\ books \in [Weeks -> [orders : SUBSET Orders, share : Int, costs : Nat]]
  /\ sales \subseteq [id : Sales, week : Weeks, product : Products, units : Nat]
  /\ credit \in [Weeks -> Int]
  /\ settlement \in [Weeks -> SettlementRows]
  /\ issue \in [Weeks -> BOOLEAN]
  /\ payment \in [Payments -> PaymentRows]
  /\ alloc \in [Payments -> [Weeks -> Nat]]
  /\ dropped \in [Weeks -> BOOLEAN]

\* The whole of a verified payment is on the settlements, to the last unit, and
\* nothing of any other payment is: whatever was sold, corrected, adjusted or
\* paid between the transfer and its verification.
VerifiedIsAllocated ==
  \A p \in Payments :
    Total(Weeks, alloc[p]) = IF payment[p].status = "verified" THEN payment[p].amount ELSE 0

\* The paid figure of a settlement is the sum of the allocations to it: no
\* regeneration or recalculation loses or invents money.
PaidIsAllocated ==
  \A w \in Weeks : settlement[w].paid = Total(Payments, [p \in Payments |-> alloc[p][w]])

\* No settlement takes more money than its bill less its adjustment, and a bill
\* on which there is money does not shrink under it afterwards.
NeverOvercollected ==
  \A w \in Weeks : settlement[w].paid > 0 => Credited(settlement[w]) <= Due(settlement[w])

\* Money goes the way the settlement it pays is due, then and afterwards: the
\* outlet's transfers never pay what the owner owes, nor the other way round.
PaysItsDirection ==
  \A p \in Payments, w \in Weeks :
    alloc[p][w] > 0 => settlement[w].direction = payment[p].direction

\* A counter sale, recorded, corrected or deleted, is in the bill of its week or
\* in an open issue about it, unless a sync has dropped the difference.
OfflineIsBilled ==
  \A w \in Weeks :
    /\ CounterRows(w) # {} => Exists(w)
    /\ Exists(w) /\ settlement[w].bill.offline # OfflineTotal(w) => issue[w] \/ dropped[w]

\* A pending payment that names a settlement finds it as it was: there, and due
\* in the payment's direction.
TargetStands ==
  \A p \in Payments :
    payment[p].status = "pending" /\ payment[p].target # NoWeek =>
      /\ Exists(payment[p].target)
      /\ settlement[payment[p].target].direction = payment[p].direction

\* Money given is money booked: each payment is all on the settlements or not at
\* all, each settlement carries what it was given, no more than it was owed and in
\* the direction it is due, and a payment under way still fits what it was sent for.
MoneySound ==
  /\ VerifiedIsAllocated
  /\ PaidIsAllocated
  /\ NeverOvercollected
  /\ PaysItsDirection
  /\ TargetStands

\* Money reaches a settlement only in a step that leaves no older one of the same
\* direction unpaid: verifyPayment and the owner's records allocate oldest first.
OldestFirst ==
  [][\A v, w \in Weeks :
       /\ v < w
       /\ settlement'[w].paid > settlement[w].paid
       /\ settlement[v].status = "open"
       /\ settlement[v].direction = settlement[w].direction
       => settlement'[v].status = "paid"]_settlementsVars

\* From the moment the outlet has sent money for a week, or money has reached
\* it, the figures billed for the week stand, for good.
BillStands ==
  [][\A w \in Weeks :
       settlement[w].paid > 0 \/ (\E p \in Payments : payment[p].target = w)
       => /\ settlement'[w].bill = settlement[w].bill
          /\ settlement'[w].adjustment = settlement[w].adjustment]_settlementsVars

=============================================================================
