---------------------------- MODULE OutletInventory ----------------------------
(***************************************************************************)
(* The stock figures of one outlet and of the centre, as InventoryService  *)
(* keeps them (src/app/Services/InventoryService.php).                     *)
(*                                                                         *)
(* Every path that writes outlet stock for an order first takes the row    *)
(* lock of the order's outlet (Outlet::lockForSettlement) and runs in one  *)
(* database transaction, so an operation is one step, and an exception in  *)
(* the middle of it leaves no trace: the operation is then not enabled.    *)
(*                                                                         *)
(* The specification of this module is the service on its own: its callers *)
(* may call any operation for any order at any time.  OrderLifecycle       *)
(* extends it with the callers the program really has.                     *)
(***************************************************************************)
EXTENDS Integers, FiniteSetsExt

CONSTANTS
  Orders,     \* the orders of the outlet
  Products,   \* the products the outlet sells
  Qty,        \* Qty[o][p]: units of p in order o, 0 when o does not list p
  Counts      \* the stock figures an operator can type in

ASSUME QtyAssumption == Qty \in [Orders -> [Products -> Nat]]
ASSUME CountsAssumption == Counts \subseteq Nat

VARIABLES
  current,    \* outlet_inventories.current_stock
  reserved,   \* outlet_inventories.reserved_stock
  center,     \* products.center_stock
  journal,    \* the sum of stock_movements.quantity over the types that
              \* InventoryReconcile counts for an outlet
  held,       \* held[o][p]: what the stock_movements that reference order o
              \* add to reserved_stock, reservations less releases and sales
  sold        \* the orders that have order_completed stock_movements

stockVars == <<current, reserved, center, journal, held, sold>>

-----------------------------------------------------------------------------
(* Operations an order triggers.                                           *)

\* Mutant: the stock on the shelf counts, reservations of others do not.
CanReserveFromShelf(o) == \A p \in Products : current[p] >= Qty[o][p]

CanReserve(o) == \A p \in Products : current[p] - reserved[p] >= Qty[o][p]

\* reserveStock: every line or none, an order_reserved movement per line.
Reserve(o) ==
  /\ CanReserve(o)
  /\ reserved' = [p \in Products |-> reserved[p] + Qty[o][p]]
  /\ held' = [held EXCEPT ![o] = [p \in Products |-> held[o][p] + Qty[o][p]]]
  /\ UNCHANGED <<current, center, journal, sold>>

\* Mutant: no clamp.
ReleasableUnclamped(o, p) == Qty[o][p]

\* What a release takes off: when less is reserved than the order lists, the
\* service logs a discrepancy and takes only what is there.
Releasable(o, p) == IF reserved[p] < Qty[o][p] THEN reserved[p] ELSE Qty[o][p]

\* releaseReservedStock: never refused, and never asks whether the order still
\* holds anything.
Release(o) ==
  /\ reserved' = [p \in Products |-> reserved[p] - Releasable(o, p)]
  /\ held' = [held EXCEPT ![o] = [p \in Products |-> held[o][p] - Releasable(o, p)]]
  /\ UNCHANGED <<current, center, journal, sold>>

CanConsume(o) ==
  \A p \in Products : current[p] >= Qty[o][p] /\ reserved[p] >= Qty[o][p]

\* A line that the shelf or the reservations cannot cover throws.
Sell(o) ==
  /\ CanConsume(o)
  /\ current' = [p \in Products |-> current[p] - Qty[o][p]]
  /\ reserved' = [p \in Products |-> reserved[p] - Qty[o][p]]
  /\ journal' = [p \in Products |-> journal[p] - Qty[o][p]]
  /\ held' = [held EXCEPT ![o] = [p \in Products |-> held[o][p] - Qty[o][p]]]
  /\ sold' = sold \cup {o}
  /\ UNCHANGED center

\* completeOrderStock: an order whose order_completed movements exist is
\* skipped.  They are written all or none, so one set of orders stands for them.
Consume(o) ==
  \/ o \in sold /\ UNCHANGED stockVars
  \/ o \notin sold /\ Sell(o)

-----------------------------------------------------------------------------
(* Operations staff trigger.                                               *)

\* Mutant: the reservations are not looked at.
SetCurrentUnchecked(p, n) ==
  /\ current' = [current EXCEPT ![p] = n]
  /\ journal' = [journal EXCEPT ![p] = @ + n - current[p]]
  /\ UNCHANGED <<reserved, center, held, sold>>

SetCurrent(p, n) ==
  /\ n >= reserved[p]
  /\ current' = [current EXCEPT ![p] = n]
  /\ journal' = [journal EXCEPT ![p] = @ + n - current[p]]
  /\ UNCHANGED <<reserved, center, held, sold>>

\* adjustStock and stockOpname set the figure under the row lock; neither may
\* go below what is reserved.
AdjustStock(p, n) == SetCurrent(p, n)

StockOpname(p, n) == SetCurrent(p, n)

\* Mutant: only the centre's side of the transfer is recorded.
RestockOutletUnrecorded(p, q) ==
  /\ center[p] >= q
  /\ center' = [center EXCEPT ![p] = @ - q]
  /\ current' = [current EXCEPT ![p] = @ + q]
  /\ UNCHANGED <<reserved, journal, held, sold>>

\* restockOutlet: a quick transfer out of the centre.
RestockOutlet(p, q) ==
  /\ center[p] >= q
  /\ center' = [center EXCEPT ![p] = @ - q]
  /\ current' = [current EXCEPT ![p] = @ + q]
  /\ journal' = [journal EXCEPT ![p] = @ + q]
  /\ UNCHANGED <<reserved, held, sold>>

UpdateCenterStock(p, n) ==
  /\ center' = [center EXCEPT ![p] = n]
  /\ UNCHANGED <<current, reserved, journal, held, sold>>

-----------------------------------------------------------------------------
StockInit ==
  /\ current \in [Products -> Counts]
  /\ reserved = [p \in Products |-> 0]
  /\ center \in [Products -> Counts]
  /\ journal = current
  /\ held = [o \in Orders |-> [p \in Products |-> 0]]
  /\ sold = {}

OrderStockStep(o) == Reserve(o) \/ Release(o) \/ Consume(o)

StaffStockStep(p, n) ==
  \/ AdjustStock(p, n)
  \/ StockOpname(p, n)
  \/ RestockOutlet(p, n)
  \/ UpdateCenterStock(p, n)

StockNext ==
  \/ \E o \in Orders : OrderStockStep(o)
  \/ \E p \in Products, n \in Counts : StaffStockStep(p, n)

StockSpec == StockInit /\ [][StockNext]_stockVars

-----------------------------------------------------------------------------
(* Properties.                                                             *)

\* The sum of n[x] over the x in S, counted unit by unit: a unit of x is one of
\* the pairs <<x, 1>>, ..., <<x, n[x]>>.
Units(S, n) == UNION {{x} \X (1..n[x]) : x \in S}

Total(S, n) == Cardinality(Units(S, n))

\* The three stock figures are never negative; the sums of movements may be.
StockTypeOK ==
  /\ current \in [Products -> Nat]
  /\ reserved \in [Products -> Nat]
  /\ center \in [Products -> Nat]
  /\ journal \in [Products -> Int]
  /\ held \in [Orders -> [Products -> Int]]
  /\ sold \in SUBSET Orders

\* Whatever the callers do, and in whatever order, no product is reserved
\* beyond what is on the shelf: reserveStock checks what is available,
\* completeOrderStock takes from both figures or from neither, and adjustStock
\* and stockOpname stop at the reservations.
StockSound == \A p \in Products : reserved[p] <= current[p]

\* The movements that InventoryReconcile sums give the current figure back,
\* for every operation of InventoryService.
JournalMatchesStock == journal = current

\* The units of an order leave the shelf at most once, however often the order
\* is completed: stock goes down either with the first sale of one order, by
\* that order's lines, or by a staff figure that leaves reservations alone.
LeavesShelfOnce ==
  [][\A p \in Products : current'[p] < current[p] =>
       \/ \E o \in Orders \ sold : /\ sold' = sold \cup {o}
                                   /\ current[p] - current'[p] = Qty[o][p]
       \/ sold' = sold /\ reserved' = reserved]_stockVars
=============================================================================
