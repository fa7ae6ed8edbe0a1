---------------------------- MODULE MCStockTransfers ----------------------------
(***************************************************************************)
(* One product, an order that reserves and sells it, a restock and a       *)
(* return with its exchange, and two requests under way at once.           *)
(***************************************************************************)
EXTENDS TransferPages, TLC

CONSTANTS o1, p1, r1, t1, h1, h2, MaxStock, MaxHeld

MCOrders == {o1}
MCProducts == {p1}
MCQty == [o \in MCOrders |-> [p \in MCProducts |-> 1]]
MCCounts == 0..1
MCRestocks == {r1}
MCReturns == {t1}
MCHandlers == {h1, h2}
MCAmounts == {1}

HandlerSymmetry == Permutations(MCHandlers)

\* Bounds: restocks and repeated releases would otherwise never end.
Bounded ==
  /\ \A p \in Products : current[p] <= MaxStock /\ center[p] <= MaxStock
  /\ \A o \in Orders, p \in Products : held[o][p] \in -MaxHeld..MaxHeld
=============================================================================
