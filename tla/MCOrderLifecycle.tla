--------------------------- MODULE MCOrderLifecycle ---------------------------
(***************************************************************************)
(* Two orders for the same product at an outlet with one courier.          *)
(***************************************************************************)
EXTENDS OrderPages

CONSTANTS o1, o2, p1, c1, MaxStock, MaxReturned

MCOrders == {o1, o2}
MCProducts == {p1}
MCCouriers == {c1}
MCCounts == {0, 1}
MCQty == [o \in MCOrders |-> [p \in MCProducts |-> 1]]

\* o1 goes out with the outlet's courier, o2 is collected.
MCFulfilment == [o \in MCOrders |-> IF o = o1 THEN "delivery_dombi" ELSE "pickup"]

\* One delivery order, for the questions that need no second one.
MCOneOrder == {o1}
MCOneQty == [o \in MCOneOrder |-> [p \in MCProducts |-> 1]]
MCOneFulfilment == [o \in MCOneOrder |-> "delivery_dombi"]

\* Bounds: restocks and confirmed returns would otherwise never end, and one order
\* with a refused or lapsed payment shows what it does to the other.  MaxReturned is
\* 0 where no property reads the journal: AutoConfirmReturn leads to the same
\* state but for its movement.
Bounded ==
  /\ \A p \in Products : /\ current[p] + center[p] <= MaxStock
                         /\ journal[p] <= current[p] + MaxReturned
  /\ Cardinality({o \in Orders : refusals[o] > 0 \/ payment[o] = "lapsed"}) <= 1

\* Nothing an order does reads the centre's stock, and AdjustStock fills the shelf
\* as RestockOutlet does.
CentreEmpty == \A p \in Products : center[p] = 0
=============================================================================
