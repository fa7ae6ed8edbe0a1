---------------------------- MODULE MCSettlements ----------------------------
(***************************************************************************)
(* Two weeks, two payments, one product, an order whose share turns a      *)
(* settlement round, and two counter sales.                                *)
(***************************************************************************)
EXTENDS Settlements, TLC

CONSTANTS o1, p1, s1, s2, y1, y2, MaxStock, MaxJournal, MaxCredit, MaxCost

MCOrders == {o1}
MCProducts == {p1}
MCPayments == {y1, y2}
MCQty == [o \in MCOrders |-> [p \in MCProducts |-> 1]]
MCShare == [o \in MCOrders |-> 3]
MCPrice == [p \in MCProducts |-> 1]
MCCounts == {2}
MCSales == {s1, s2}
MCAmounts == {1, 3}
MCCredits == {1}
MCCosts == {0, 1}

RowSymmetry == Permutations(MCPayments) \cup Permutations(MCSales)

\* Bounds: corrections, releases, exchanges and costs would otherwise never end,
\* and the centre's figure does not matter here.
Bounded ==
  /\ \A p \in Products : /\ current[p] <= MaxStock /\ journal[p] <= MaxJournal
                         /\ center[p] = MaxStock
  /\ \A o \in Orders, p \in Products : held[o][p] \in 0..(IF o \in sold THEN 0 ELSE 1)
  /\ Total(Weeks, credit) <= MaxCredit
  /\ Total(Weeks, [w \in Weeks |-> books[w].costs]) <= MaxCost
=============================================================================
