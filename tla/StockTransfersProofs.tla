------------------------- MODULE StockTransfersProofs -------------------------
(***************************************************************************)
(* Proofs about StockTransfers.  The kinds and the movements hold whatever *)
(* requests write over each other; that an exchange follows its return     *)
(* holds while no request has written over a row it did not see, and rests *)
(* on what every request saw when it was bound (Seen).                     *)
(***************************************************************************)
EXTENDS TransferPages, OutletInventoryProofs

RestockRows == [status : RestockStatuses, lines : Lines]
ReturnRows ==
  [status : ReturnStatuses, lines : Lines, disp : [Products -> Dispositions]]
ExchangeRows == [status : ExchangeStatuses, lines : Lines]

ReturnOps == DOMAIN ReturnFrom
ExchangeOps == DOMAIN ExchangeFrom

ReturnRequests ==
  [op : ReturnOps, of : Returns, item : Products, seen : ReturnRows]
ExchangeRequests == [op : ExchangeOps, of : Returns, seen : ExchangeRows]

DocsOK ==
  /\ restock \in [Restocks -> RestockRows]
  /\ ret \in [Returns -> ReturnRows]
  /\ exchange \in [Returns -> ExchangeRows]

HandlersOK == handler \in [Handlers -> {Idle} \cup ReturnRequests \cup ExchangeRequests]

KindsInv == StockTypeOK /\ DocsOK /\ HandlersOK /\ JournalMatchesStock

-----------------------------------------------------------------------------
(* The names of operations.                                                *)

\* The operations of returns and of exchanges are named apart.
LEMMA OpsApart ==
  /\ ReturnOps = {"cancelReturn", "approveReturn", "rejectReturn", "receiveReturn",
                  "storeItem", "disposeItem", "completeReturn"}
  /\ ExchangeOps = {"cancelExchange", "approveExchange", "rejectExchange", "prepareExchange"}
  BY DEF ReturnOps, ExchangeOps, ReturnFrom, ExchangeFrom

\* What a request of an operation on returns holds.
LEMMA ReturnRequestHolds ==
  ASSUME HandlersOK, NEW h \in Handlers, handler[h].op \in ReturnOps
  PROVE  handler[h] \in ReturnRequests
<1>1. Idle.op = "none"
  BY DEF Idle
<1>2. \A q \in ExchangeRequests : q.op \in ExchangeOps
  BY DEF ExchangeRequests
<1> QED
  BY <1>1, <1>2, OpsApart DEF HandlersOK

\* The same for exchanges.
LEMMA ExchangeRequestHolds ==
  ASSUME HandlersOK, NEW h \in Handlers, handler[h].op \in ExchangeOps
  PROVE  handler[h] \in ExchangeRequests
<1>1. Idle.op = "none"
  BY DEF Idle
<1>2. \A q \in ReturnRequests : q.op \in ReturnOps
  BY DEF ReturnRequests
<1> QED
  BY <1>1, <1>2, OpsApart DEF HandlersOK

\* Quantities are natural numbers.
LEMMA LinesAreNat ==
  /\ \A lines \in Lines, p \in Products : lines[p] \in Nat
  /\ NoLines \in Lines
<1>1. Amounts \cup {0} \subseteq Nat
  BY AmountsAssumption
<1>2. 0 \in Amounts \cup {0}
  OBVIOUS
<1>3. NoLines \in Lines
  BY <1>2 DEF NoLines, Lines
<1>4. \A lines \in Lines, p \in Products : lines[p] \in Amounts \cup {0}
  BY DEF Lines
<1> QED
  BY <1>1, <1>3, <1>4

-----------------------------------------------------------------------------
(* The stock figures.                                                      *)

StockKinds == StockTypeOK /\ JournalMatchesStock

\* An operation of InventoryService keeps the figures natural numbers, even when
\* returns have taken goods that were reserved.
LEMMA OrderStockKinds ==
  ASSUME StockKinds, NEW o \in Orders, OrderStockStep(o)
  PROVE  StockKinds'
<1> USE DEF StockKinds, StockTypeOK, JournalMatchesStock
<1>1. \A p \in Products : Qty[o][p] \in Nat
  BY QtyAssumption
<1>2. CASE Reserve(o)
  <2>1. [p \in Products |-> held[o][p] + Qty[o][p]] \in [Products -> Int]
    BY <1>1
  <2> QED
    BY <1>1, <1>2, <2>1 DEF Reserve
<1>3. CASE Release(o)
  <2>1. \A p \in Products : Releasable(o, p) \in Int /\ 0 <= Releasable(o, p)
                            /\ Releasable(o, p) <= reserved[p]
    BY <1>1 DEF Releasable
  <2>2. [p \in Products |-> held[o][p] - Releasable(o, p)] \in [Products -> Int]
    BY <2>1
  <2> QED
    BY <1>3, <2>1, <2>2 DEF Release
<1>4. CASE UNCHANGED stockVars
  BY <1>4 DEF stockVars
<1>5. CASE Sell(o)
  <2>1. [p \in Products |-> held[o][p] - Qty[o][p]] \in [Products -> Int]
    BY <1>1
  <2>2. held' \in [Orders -> [Products -> Int]] /\ sold' \in SUBSET Orders
    BY <1>5, <2>1 DEF Sell
  <2>3. /\ current' \in [Products -> Nat] /\ reserved' \in [Products -> Nat]
        /\ center' \in [Products -> Nat] /\ journal' \in [Products -> Int]
    BY <1>1, <1>5 DEF Sell, CanConsume
  <2>4. journal' = current'
    BY <1>5 DEF Sell
  <2> QED
    BY <2>2, <2>3, <2>4
<1> QED
  BY <1>2, <1>3, <1>4, <1>5 DEF OrderStockStep, Consume

\* So does a figure that staff type in.
LEMMA StaffStockKinds ==
  ASSUME StockKinds, NEW p \in Products, NEW n \in Counts, StaffStockStep(p, n)
  PROVE  StockKinds'
<1> USE DEF StockKinds, StockTypeOK, JournalMatchesStock
<1>1. n \in Nat
  BY CountsAssumption
<1>2. CASE SetCurrent(p, n)
  <2>1. current' = [current EXCEPT ![p] = n] /\ UNCHANGED <<reserved, center, held, sold>>
    BY <1>2 DEF SetCurrent
  <2>2. journal' = [current EXCEPT ![p] = n]
    <3>1. journal' = [current EXCEPT ![p] = current[p] + n - current[p]]
      BY <1>2 DEF SetCurrent
    <3>2. current[p] \in Nat
      OBVIOUS
    <3>3. current[p] + n - current[p] = n
      BY <1>1, <3>2
    <3> QED
      BY <3>1, <3>3
  <2>3. [current EXCEPT ![p] = n] \in [Products -> Nat]
    BY <1>1
  <2>4. current' \in [Products -> Nat] /\ journal' \in [Products -> Int]
    BY <2>1, <2>2, <2>3
  <2> QED
    BY <2>1, <2>2, <2>4
<1>3. CASE RestockOutlet(p, n)
  BY <1>1, <1>3 DEF RestockOutlet
<1>4. CASE UpdateCenterStock(p, n)
  BY <1>1, <1>4 DEF UpdateCenterStock
<1> QED
  BY <1>2, <1>3, <1>4 DEF StaffStockStep, AdjustStock, StockOpname

\* Lines that leave the centre, because it has them.
LEMMA CentreSends ==
  ASSUME StockKinds, NEW lines \in Lines,
         \A p \in Products : center[p] >= lines[p],
         center' = [p \in Products |-> center[p] - lines[p]],
         UNCHANGED <<current, reserved, journal, held, sold>>
  PROVE  StockKinds'
  BY LinesAreNat DEF StockKinds, StockTypeOK, JournalMatchesStock

\* Lines that arrive at the outlet, with their movements.
LEMMA OutletReceives ==
  ASSUME StockKinds, NEW lines \in Lines,
         current' = [p \in Products |-> current[p] + lines[p]],
         journal' = [p \in Products |-> journal[p] + lines[p]],
         UNCHANGED <<center, reserved, held, sold>>
  PROVE  StockKinds'
  BY LinesAreNat DEF StockKinds, StockTypeOK, JournalMatchesStock

\* Lines that leave the outlet, because the shelf has them.
LEMMA OutletSends ==
  ASSUME StockKinds, NEW lines \in Lines,
         \A p \in Products : current[p] >= lines[p],
         current' = [p \in Products |-> current[p] - lines[p]],
         journal' = [p \in Products |-> journal[p] - lines[p]],
         UNCHANGED <<center, reserved, held, sold>>
  PROVE  StockKinds'
  BY LinesAreNat DEF StockKinds, StockTypeOK, JournalMatchesStock

-----------------------------------------------------------------------------
(* The documents and the requests.                                         *)

\* A request that ends leaves the others as they are.
LEMMA DoneKinds ==
  ASSUME HandlersOK, NEW h \in Handlers, Done(h)
  PROVE  HandlersOK'
  BY DEF HandlersOK, Done

\* A bound request holds what it saw.
LEMMA BindKinds ==
  ASSUME DocsOK, HandlersOK, NEW h \in Handlers, BindStep(h)
  PROVE  HandlersOK' /\ UNCHANGED <<stockVars, docVars>>
<1>1. CASE \E op \in DOMAIN ReturnFrom, t \in Returns, p \in Products : BindReturn(h, op, t, p)
  <2>1. PICK op \in ReturnOps, t \in Returns, p \in Products : BindReturn(h, op, t, p)
    BY <1>1 DEF ReturnOps
  <2>2. [op |-> op, of |-> t, item |-> p, seen |-> ret[t]] \in ReturnRequests
    BY DEF ReturnRequests, DocsOK
  <2> QED
    BY <2>1, <2>2 DEF BindReturn, HandlersOK
<1>2. CASE \E op \in DOMAIN ExchangeFrom, t \in Returns : BindExchange(h, op, t)
  <2>1. PICK op \in ExchangeOps, t \in Returns : BindExchange(h, op, t)
    BY <1>2 DEF ExchangeOps
  <2>2. [op |-> op, of |-> t, seen |-> exchange[t]] \in ExchangeRequests
    BY DEF ExchangeRequests, DocsOK
  <2> QED
    BY <2>1, <2>2 DEF BindExchange, HandlersOK
<1> QED
  BY <1>1, <1>2 DEF BindStep

\* A request that writes a status of a return.
LEMMA ReturnBecomesKinds ==
  ASSUME DocsOK, HandlersOK, NEW h \in Handlers, NEW op \in ReturnOps,
         NEW to \in ReturnStatuses, ReturnBecomes(h, op, to)
  PROVE  DocsOK' /\ HandlersOK' /\ handler[h] \in ReturnRequests
<1>1. handler[h] \in ReturnRequests
  BY ReturnRequestHolds DEF ReturnBecomes
<1>2. handler[h].of \in Returns
  BY <1>1 DEF ReturnRequests
<1>3. ret' \in [Returns -> ReturnRows]
  BY <1>2 DEF ReturnBecomes, DocsOK, ReturnRows
<1> QED
  BY <1>1, <1>3, DoneKinds DEF ReturnBecomes, DocsOK

\* A request that decides about a line of a return.
LEMMA ItemBecomesKinds ==
  ASSUME DocsOK, HandlersOK, NEW h \in Handlers, NEW op \in ReturnOps,
         NEW to \in Dispositions, ItemBecomes(h, op, to)
  PROVE  DocsOK' /\ HandlersOK' /\ handler[h] \in ReturnRequests
<1>1. handler[h] \in ReturnRequests
  BY ReturnRequestHolds DEF ItemBecomes
<1>2. handler[h].of \in Returns /\ handler[h].item \in Products
  BY <1>1 DEF ReturnRequests
<1>3. ret' \in [Returns -> ReturnRows]
  BY <1>2 DEF ItemBecomes, DocsOK, ReturnRows
<1> QED
  BY <1>1, <1>3, DoneKinds DEF ItemBecomes, DocsOK

\* A request that writes a status of an exchange.
LEMMA ExchangeBecomesKinds ==
  ASSUME DocsOK, HandlersOK, NEW h \in Handlers, NEW op \in ExchangeOps,
         NEW to \in ExchangeStatuses, ExchangeBecomes(h, op, to)
  PROVE  DocsOK' /\ HandlersOK' /\ handler[h] \in ExchangeRequests
<1>1. handler[h] \in ExchangeRequests
  BY ExchangeRequestHolds DEF ExchangeBecomes
<1>2. handler[h].of \in Returns
  BY <1>1 DEF ExchangeRequests
<1>3. exchange' \in [Returns -> ExchangeRows]
  BY <1>2 DEF ExchangeBecomes, DocsOK, ExchangeRows
<1> QED
  BY <1>1, <1>3, DoneKinds DEF ExchangeBecomes, DocsOK

\* Figures that no operation touches stay as they are.
LEMMA StockStays ==
  ASSUME StockKinds, UNCHANGED stockVars
  PROVE  StockKinds'
  BY DEF StockKinds, StockTypeOK, JournalMatchesStock, stockVars

\* The restock of a request moves its lines out of the centre or into the outlet.
LEMMA RestockKinds ==
  ASSUME StockKinds, DocsOK, NEW r \in Restocks, RestockStep(r)
  PROVE  StockKinds' /\ DocsOK' /\ UNCHANGED <<ret, exchange, handler>>
<1>1. ASSUME NEW from, NEW to \in RestockStatuses, RestockMoves(r, from, to)
      PROVE  restock' \in [Restocks -> RestockRows]
  BY <1>1 DEF RestockMoves, DocsOK, RestockRows
<1>2. restock[r].lines \in Lines
  BY DEF DocsOK, RestockRows
<1>3. CASE CreateRestock(r)
  BY <1>1, <1>3, StockStays DEF CreateRestock, DocsOK, RestockStatuses
<1>4. CASE \E lines \in Lines : ApproveRestock(r, lines)
  <2>1. PICK lines \in Lines : ApproveRestock(r, lines)
    BY <1>4
  <2>2. [status |-> "preparing", lines |-> lines] \in RestockRows
    BY DEF RestockRows, RestockStatuses
  <2> QED
    BY <2>1, <2>2, StockStays DEF ApproveRestock, DocsOK
<1>5. CASE CancelRestock(r)
  BY <1>1, <1>5, StockStays DEF CancelRestock, DocsOK, RestockStatuses
<1>6. CASE RejectRestock(r)
  BY <1>1, <1>6, StockStays DEF RejectRestock, DocsOK, RestockStatuses
<1>7. CASE ShipRestock(r)
  <2>1. StockKinds'
    BY <1>2, <1>7, CentreSends DEF ShipRestock
  <2> QED
    BY <1>1, <1>7, <2>1 DEF ShipRestock, DocsOK, RestockStatuses
<1>8. CASE ReceiveRestock(r)
  <2>1. StockKinds'
    BY <1>2, <1>8, OutletReceives DEF ReceiveRestock
  <2> QED
    BY <1>1, <1>8, <2>1 DEF ReceiveRestock, DocsOK, RestockStatuses
<1> QED
  BY <1>3, <1>4, <1>5, <1>6, <1>7, <1>8 DEF RestockStep

\* What a bound request writes.
LEMMA WriteKinds ==
  ASSUME StockKinds, DocsOK, HandlersOK, NEW h \in Handlers, WriteStep(h)
  PROVE  StockKinds' /\ DocsOK' /\ HandlersOK'
<1> USE OpsApart
<1>1. /\ {"cancelled", "approved", "rejected", "received_at_center", "completed"}
           \subseteq ReturnStatuses
      /\ {"cancelled", "approved", "rejected", "preparing"} \subseteq ExchangeStatuses
      /\ {"stored", "disposed"} \subseteq Dispositions
  BY DEF ReturnStatuses, ExchangeStatuses, Dispositions
<1>2. CASE CancelReturn(h)
  BY <1>1, <1>2, ReturnBecomesKinds, StockStays DEF CancelReturn
<1>3. CASE ApproveReturn(h)
  BY <1>1, <1>3, ReturnBecomesKinds, StockStays DEF ApproveReturn
<1>4. CASE RejectReturn(h)
  BY <1>1, <1>4, ReturnBecomesKinds, StockStays DEF RejectReturn
<1>5. CASE CompleteReturn(h)
  BY <1>1, <1>5, ReturnBecomesKinds, StockStays DEF CompleteReturn
<1>6. CASE ReceiveReturn(h)
  <2>1. DocsOK' /\ HandlersOK' /\ handler[h] \in ReturnRequests
    BY <1>1, <1>6, ReturnBecomesKinds DEF ReceiveReturn
  <2>2. ret[handler[h].of].lines \in Lines
    BY <2>1 DEF ReturnRequests, DocsOK, ReturnRows
  <2>3. StockKinds'
    BY <1>6, <2>2, OutletSends DEF ReceiveReturn
  <2> QED
    BY <2>1, <2>3
<1>7. ASSUME ItemBecomes(h, "storeItem", "stored") \/ ItemBecomes(h, "disposeItem", "disposed"),
             center' = center
               \/ center' = [center EXCEPT ![handler[h].item] = @ + ItemUnits(h)]
               \/ (center[handler[h].item] >= ItemUnits(h)
                    /\ center' = [center EXCEPT ![handler[h].item] = @ - ItemUnits(h)])
      PROVE  StockKinds' /\ DocsOK' /\ HandlersOK'
  <2>1. DocsOK' /\ HandlersOK' /\ handler[h] \in ReturnRequests
    BY <1>1, <1>7, ItemBecomesKinds
  <2>2. handler[h].item \in Products /\ ItemUnits(h) \in Nat
    BY <2>1, LinesAreNat DEF ReturnRequests, ItemUnits, DocsOK, ReturnRows
  <2>3. center' \in [Products -> Nat]
    BY <1>7, <2>2 DEF StockKinds, StockTypeOK
  <2>4. UNCHANGED <<current, reserved, journal, held, sold>>
    BY <1>7 DEF ItemBecomes
  <2>5. StockKinds'
    BY <2>3, <2>4 DEF StockKinds, StockTypeOK, JournalMatchesStock
  <2> QED
    BY <2>1, <2>5
<1>8. CASE StoreItem(h)
  BY <1>7, <1>8 DEF StoreItem
<1>9. CASE DisposeItem(h)
  BY <1>7, <1>9 DEF DisposeItem
<1>10. CASE CancelExchange(h)
  BY <1>1, <1>10, ExchangeBecomesKinds, StockStays DEF CancelExchange, ExchangeBecomes
<1>11. CASE ApproveExchange(h)
  BY <1>1, <1>11, ExchangeBecomesKinds, StockStays DEF ApproveExchange, ExchangeBecomes
<1>12. CASE RejectExchange(h)
  BY <1>1, <1>12, ExchangeBecomesKinds, StockStays DEF RejectExchange, ExchangeBecomes
<1>13. CASE PrepareExchange(h)
  BY <1>1, <1>13, ExchangeBecomesKinds, StockStays DEF PrepareExchange, ExchangeBecomes
<1> QED
  BY <1>2, <1>3, <1>4, <1>5, <1>6, <1>8, <1>9, <1>10, <1>11, <1>12, <1>13 DEF WriteStep

\* What is done under the lock of the row.
LEMMA LockedKinds ==
  ASSUME StockKinds, DocsOK, NEW t \in Returns, LockedStep(t)
  PROVE  StockKinds' /\ DocsOK' /\ UNCHANGED handler
<1>1. ASSUME NEW from, NEW to \in ExchangeStatuses, ExchangeMoves(t, from, to)
      PROVE  exchange' \in [Returns -> ExchangeRows] /\ UNCHANGED <<restock, handler>>
  BY <1>1 DEF ExchangeMoves, DocsOK, ExchangeRows
<1>2. exchange[t].lines \in Lines
  BY DEF DocsOK, ExchangeRows
<1>3. CASE \E lines \in Lines : CreateReturn(t, lines)
  <2>1. PICK lines \in Lines : CreateReturn(t, lines)
    BY <1>3
  <2>2. ret' \in [Returns -> ReturnRows]
    BY <2>1 DEF CreateReturn, DocsOK, ReturnRows, ReturnStatuses
  <2> QED
    BY <2>1, <2>2, StockStays DEF CreateReturn, DocsOK
<1>4. CASE \E lines \in Lines : CreateExchange(t, lines)
  <2>1. PICK lines \in Lines : CreateExchange(t, lines)
    BY <1>4
  <2>2. [status |-> "submitted", lines |-> lines] \in ExchangeRows
    BY DEF ExchangeRows, ExchangeStatuses
  <2> QED
    BY <2>1, <2>2, StockStays DEF CreateExchange, DocsOK
<1>5. CASE ShipExchange(t)
  <2>1. StockKinds'
    BY <1>2, <1>5, CentreSends DEF ShipExchange
  <2> QED
    BY <1>1, <1>5, <2>1 DEF ShipExchange, DocsOK, ExchangeStatuses
<1>6. CASE ReceiveExchange(t)
  <2>1. StockKinds'
    BY <1>2, <1>6, OutletReceives DEF ReceiveExchange
  <2> QED
    BY <1>1, <1>6, <2>1 DEF ReceiveExchange, DocsOK, ExchangeStatuses
<1>7. CASE CompleteExchange(t)
  <2>1. ret' \in [Returns -> ReturnRows]
    BY <1>7 DEF CompleteExchange, DocsOK, ReturnRows, ReturnStatuses
  <2> QED
    BY <1>1, <1>7, <2>1, StockStays DEF CompleteExchange, DocsOK, ExchangeStatuses
<1> QED
  BY <1>3, <1>4, <1>5, <1>6, <1>7 DEF LockedStep

\* The kinds hold from the start and through every step.
LEMMA InitKinds == TransfersInit => KindsInv
<1> SUFFICES ASSUME TransfersInit PROVE KindsInv
  OBVIOUS
<1>1. StockTypeOK /\ JournalMatchesStock
  <2>1. [p \in Products |-> 0] \in [Products -> Nat] /\ [p \in Products |-> 0] \in [Products -> Int]
    OBVIOUS
  <2>2. current \in [Products -> Nat] /\ center \in [Products -> Nat]
    BY CountsAssumption DEF TransfersInit, StockInit
  <2>3. journal \in [Products -> Int]
    BY <2>2 DEF TransfersInit, StockInit
  <2> QED
    BY <2>1, <2>2, <2>3 DEF TransfersInit, StockInit, StockTypeOK, JournalMatchesStock
<1>2. DocsOK
  BY LinesAreNat DEF TransfersInit, DocsOK, RestockRows, ReturnRows, ExchangeRows,
     RestockStatuses, ReturnStatuses, ExchangeStatuses, Dispositions
<1>3. HandlersOK
  BY DEF TransfersInit, HandlersOK
<1> QED
  BY <1>1, <1>2, <1>3 DEF KindsInv

LEMMA StepKinds ==
  ASSUME KindsInv, [TransfersNext]_transferVars
  PROVE  KindsInv'
<1> USE DEF KindsInv, StockKinds
<1>1. CASE StockNext /\ UNCHANGED <<docVars, handler>>
  <2>1. StockKinds'
    BY <1>1, OrderStockKinds, StaffStockKinds DEF StockNext
  <2> QED
    BY <1>1, <2>1 DEF docVars, DocsOK, HandlersOK
<1>2. CASE \E r \in Restocks : RestockStep(r)
  BY <1>2, RestockKinds DEF HandlersOK
<1>3. ASSUME NEW h \in Handlers, BindStep(h)
      PROVE  KindsInv'
  <2>1. HandlersOK' /\ UNCHANGED <<stockVars, docVars>>
    BY <1>3, BindKinds
  <2> QED
    BY <2>1, StockStays DEF docVars, DocsOK
<1>4. ASSUME NEW h \in Handlers, WriteStep(h)
      PROVE  KindsInv'
  BY <1>4, WriteKinds
<1>5. ASSUME NEW h \in Handlers, Abandon(h)
      PROVE  KindsInv'
  BY <1>5, StockStays, DoneKinds DEF Abandon, docVars, DocsOK
<1>6. CASE \E t \in Returns : LockedStep(t)
  BY <1>6, LockedKinds DEF HandlersOK
<1>7. CASE UNCHANGED transferVars
  BY <1>7, StockStays DEF transferVars, docVars, DocsOK, HandlersOK
<1> QED
  BY <1>1, <1>2, <1>3, <1>4, <1>5, <1>6, <1>7 DEF TransfersNext, TransfersStep

-----------------------------------------------------------------------------
(* What a request saw, and the exchange after its return.                  *)

SeenIs(h) ==
  /\ handler[h].op \in ReturnOps => handler[h].seen.status = ReturnFrom[handler[h].op]
  /\ handler[h].op \in ExchangeOps => handler[h].seen.status = ExchangeFrom[handler[h].op]
  /\ handler[h].op = "storeItem" => handler[h].seen.disp[handler[h].item] # "stored"

Seen == \A h \in Handlers : SeenIs(h)

Follows(t) ==
  /\ exchange[t].status # "none" => ret[t].status \in {"received_at_center", "completed"}
  /\ ret[t].status = "completed" => AllDecided(t)
  /\ exchange[t].status = "completed" => ret[t].status = "completed"

\* An exchange exists only after its return was received, a completed return is
\* decided, and a completed exchange has completed its return.
AllFollow == \A t \in Returns : Follows(t)

TransfersInv == KindsInv /\ Seen /\ (~overwritten => AllFollow)

\* A row about to be written is the row the request saw.
LEMMA SeenKept ==
  ASSUME KindsInv, Seen, [TransfersNext]_transferVars
  PROVE  Seen'
<1>1. ASSUME NEW h \in Handlers, Done(h)
      PROVE  Seen'
  <2>1. \A g \in Handlers : handler'[g] = handler[g] \/ handler'[g] = Idle
    BY <1>1 DEF Done, KindsInv, HandlersOK
  <2>2. Idle.op \notin ReturnOps \cup ExchangeOps
    BY OpsApart DEF Idle
  <2>3. ASSUME NEW g \in Handlers PROVE SeenIs(g)'
    <3>1. CASE handler'[g] = handler[g]
      BY <3>1 DEF Seen, SeenIs
    <3>2. CASE handler'[g] = Idle
      BY <3>2, <2>2, OpsApart DEF SeenIs
    <3> QED
      BY <2>1, <3>1, <3>2
  <2> QED
    BY <2>3 DEF Seen
<1>2. ASSUME UNCHANGED handler
      PROVE  Seen'
  BY <1>2 DEF Seen, SeenIs
<1>3. ASSUME NEW h \in Handlers, BindStep(h)
      PROVE  Seen'
  <2>1. \A g \in Handlers : g # h => handler'[g] = handler[g]
    BY <1>3 DEF BindStep, BindReturn, BindExchange, KindsInv, HandlersOK
  <2>2. SeenIs(h)'
    <3>1. CASE \E op \in DOMAIN ReturnFrom, t \in Returns, p \in Products : BindReturn(h, op, t, p)
      <4>1. PICK op \in ReturnOps, t \in Returns, p \in Products : BindReturn(h, op, t, p)
        BY <3>1 DEF ReturnOps
      <4>2. handler'[h] = [op |-> op, of |-> t, item |-> p, seen |-> ret[t]]
        BY <4>1 DEF BindReturn, KindsInv, HandlersOK
      <4>3. ret[t].status = ReturnFrom[op] /\ (op = "storeItem" => ret[t].disp[p] # "stored")
        BY <4>1 DEF BindReturn, ItemOpen
      <4> QED
        BY <4>2, <4>3, OpsApart DEF SeenIs
    <3>2. CASE \E op \in DOMAIN ExchangeFrom, t \in Returns : BindExchange(h, op, t)
      <4>1. PICK op \in ExchangeOps, t \in Returns : BindExchange(h, op, t)
        BY <3>2 DEF ExchangeOps
      <4>2. handler'[h] = [op |-> op, of |-> t, seen |-> exchange[t]]
        BY <4>1 DEF BindExchange, KindsInv, HandlersOK
      <4>3. exchange[t].status = ExchangeFrom[op]
        BY <4>1 DEF BindExchange
      <4> QED
        BY <4>2, <4>3, OpsApart DEF SeenIs
    <3> QED
      BY <1>3, <3>1, <3>2 DEF BindStep
  <2>3. ASSUME NEW g \in Handlers, g # h PROVE SeenIs(g)'
    BY <2>1, <2>3 DEF Seen, SeenIs
  <2> QED
    BY <2>2, <2>3 DEF Seen
<1>4. ASSUME NEW h \in Handlers, WriteStep(h)
      PROVE  Done(h)
  BY <1>4 DEF WriteStep, CancelReturn, ApproveReturn, RejectReturn, ReceiveReturn,
     StoreItem, DisposeItem, CompleteReturn, ReturnBecomes, ItemBecomes, CancelExchange,
     ApproveExchange, RejectExchange, PrepareExchange, ExchangeBecomes
<1>5. ASSUME NEW h \in Handlers, Abandon(h)
      PROVE  Done(h)
  BY <1>5 DEF Abandon
<1>6. CASE StockNext /\ UNCHANGED <<docVars, handler>>
  BY <1>2, <1>6
<1>7. CASE \E r \in Restocks : RestockStep(r)
  BY <1>2, <1>7, RestockKinds DEF KindsInv, StockKinds
<1>8. CASE \E t \in Returns : LockedStep(t)
  BY <1>2, <1>8, LockedKinds DEF KindsInv, StockKinds
<1>9. CASE UNCHANGED transferVars
  BY <1>2, <1>9 DEF transferVars
<1> QED
  BY <1>1, <1>3, <1>4, <1>5, <1>6, <1>7, <1>8, <1>9 DEF TransfersNext, TransfersStep

\* A request that is not stale writes over the status its operation starts from.
LEMMA FreshReturn ==
  ASSUME HandlersOK, Seen, NEW h \in Handlers, handler[h].op \in ReturnOps, ~Stale(h)
  PROVE  ret[handler[h].of].status = ReturnFrom[handler[h].op]
<1>1. handler[h] # Idle /\ handler[h].op \notin DOMAIN ExchangeFrom
  BY OpsApart DEF Idle, ExchangeOps
<1>2. handler[h].seen.status = ret[handler[h].of].status
  BY <1>1 DEF Stale
<1> QED
  BY <1>2 DEF Seen, SeenIs

LEMMA FreshExchange ==
  ASSUME HandlersOK, Seen, NEW h \in Handlers, handler[h].op \in ExchangeOps, ~Stale(h)
  PROVE  exchange[handler[h].of].status = ExchangeFrom[handler[h].op]
<1>1. handler[h] # Idle /\ handler[h].op \in DOMAIN ExchangeFrom
  BY OpsApart DEF Idle, ExchangeOps
<1>2. handler[h].seen.status = exchange[handler[h].of].status
  BY <1>1 DEF Stale
<1> QED
  BY <1>2 DEF Seen, SeenIs

\* A request that writes a status of a return, and is not stale, leaves every
\* exchange behind its return.
LEMMA ReturnBecomesFollows ==
  ASSUME KindsInv, Seen, AllFollow, NEW h \in Handlers, ~Stale(h),
         NEW op \in ReturnOps, NEW to \in ReturnStatuses, ReturnBecomes(h, op, to),
         to = "completed" => AllDecided(handler[h].of),
         ReturnFrom[op] = "received_at_center" => to = "completed",
         ReturnFrom[op] \in {"submitted", "approved", "received_at_center"}
  PROVE  AllFollow'
<1>1. handler[h] \in ReturnRequests
  BY ReturnRequestHolds DEF ReturnBecomes, KindsInv
<1>2. PICK t \in Returns : t = handler[h].of
  BY <1>1 DEF ReturnRequests
<1>3. ret[t].status = ReturnFrom[op]
  BY <1>2, FreshReturn DEF ReturnBecomes, KindsInv
<1>4. /\ ret' = [ret EXCEPT ![t].status = to]
      /\ exchange' = exchange
  BY <1>2 DEF ReturnBecomes
<1>5. ret \in [Returns -> ReturnRows]
  BY DEF KindsInv, DocsOK
<1>6. \A u \in Returns : u # t => ret'[u] = ret[u]
  BY <1>4, <1>5
<1>7. \A u \in Returns : ret'[u].lines = ret[u].lines /\ ret'[u].disp = ret[u].disp
  BY <1>2, <1>4, <1>5 DEF ReturnRows
<1>8. \A u \in Returns : AllDecided(u) => AllDecided(u)'
  BY <1>7 DEF AllDecided, Listed
<1>9. ret'[t].status = to
  BY <1>2, <1>4, <1>5 DEF ReturnRows
<1>10. ASSUME NEW u \in Returns, u # t PROVE Follows(u)'
  BY <1>4, <1>6, <1>8, <1>10 DEF AllFollow, Follows
<1>11. Follows(t)'
  <2>1. exchange[t].status # "none" => ReturnFrom[op] = "received_at_center"
    BY <1>2, <1>3 DEF AllFollow, Follows
  <2>2. exchange[t].status # "none" => to = "completed"
    BY <2>1
  <2>3. to = "completed" => AllDecided(t)'
    BY <1>2, <1>8
  <2> QED
    BY <1>4, <1>9, <2>2, <2>3 DEF Follows
<1> QED
  BY <1>10, <1>11 DEF AllFollow

\* So does a decision about a line.
LEMMA ItemBecomesFollows ==
  ASSUME KindsInv, AllFollow, NEW h \in Handlers, NEW op \in ReturnOps,
         NEW to \in {"stored", "disposed"}, ItemBecomes(h, op, to)
  PROVE  AllFollow'
<1>1. handler[h] \in ReturnRequests
  BY ReturnRequestHolds DEF ItemBecomes, KindsInv
<1>2. handler[h].of \in Returns /\ handler[h].item \in Products
  BY <1>1 DEF ReturnRequests
<1>3. ret \in [Returns -> ReturnRows]
  BY DEF KindsInv, DocsOK
<1>4. \A u \in Returns :
        /\ ret'[u].status = ret[u].status
        /\ ret'[u].lines = ret[u].lines
        /\ \A p \in Products : ret'[u].disp[p] = ret[u].disp[p] \/ ret'[u].disp[p] = to
  BY <1>2, <1>3 DEF ItemBecomes, ReturnRows
<1>5. \A u \in Returns : AllDecided(u) => AllDecided(u)'
  BY <1>4 DEF AllDecided, Listed
<1>6. exchange' = exchange
  BY DEF ItemBecomes
<1> QED
  BY <1>4, <1>5, <1>6 DEF AllFollow, Follows

\* So does a status of an exchange.
LEMMA ExchangeBecomesFollows ==
  ASSUME KindsInv, Seen, AllFollow, NEW h \in Handlers, ~Stale(h),
         NEW op \in ExchangeOps, NEW to \in ExchangeStatuses, ExchangeBecomes(h, op, to),
         to # "completed", ExchangeFrom[op] # "none"
  PROVE  AllFollow'
<1>1. handler[h] \in ExchangeRequests
  BY ExchangeRequestHolds DEF ExchangeBecomes, KindsInv
<1>2. PICK t \in Returns : t = handler[h].of
  BY <1>1 DEF ExchangeRequests
<1>3. exchange[t].status = ExchangeFrom[op]
  BY <1>2, FreshExchange DEF ExchangeBecomes, KindsInv
<1>4. exchange \in [Returns -> ExchangeRows]
  BY DEF KindsInv, DocsOK
<1>5. /\ exchange' = [exchange EXCEPT ![t].status = to]
      /\ ret' = ret
  BY <1>2 DEF ExchangeBecomes
<1>6. \A u \in Returns : u # t => exchange'[u] = exchange[u]
  BY <1>4, <1>5
<1>7. exchange'[t].status = to
  BY <1>2, <1>4, <1>5 DEF ExchangeRows
<1>8. \A u \in Returns : AllDecided(u)' <=> AllDecided(u)
  BY <1>5 DEF AllDecided, Listed
<1>9. ASSUME NEW u \in Returns, u # t PROVE Follows(u)'
  BY <1>5, <1>6, <1>8, <1>9 DEF AllFollow, Follows
<1>10. Follows(t)'
  BY <1>2, <1>3, <1>5, <1>7, <1>8 DEF AllFollow, Follows
<1> QED
  BY <1>9, <1>10 DEF AllFollow

\* A bound request that is not stale.
LEMMA WriteFollows ==
  ASSUME KindsInv, Seen, AllFollow, NEW h \in Handlers, WriteStep(h), ~Stale(h)
  PROVE  AllFollow'
<1> USE OpsApart
<1>1. /\ {"cancelled", "approved", "rejected", "received_at_center", "completed"}
           \subseteq ReturnStatuses
      /\ {"cancelled", "approved", "rejected", "preparing"} \subseteq ExchangeStatuses
  BY DEF ReturnStatuses, ExchangeStatuses
<1>2. /\ ReturnFrom["cancelReturn"] = "submitted" /\ ReturnFrom["approveReturn"] = "submitted"
      /\ ReturnFrom["rejectReturn"] = "submitted" /\ ReturnFrom["receiveReturn"] = "approved"
      /\ ReturnFrom["completeReturn"] = "received_at_center"
  BY DEF ReturnFrom
<1>3. \A op \in ExchangeOps : ExchangeFrom[op] # "none"
  BY DEF ExchangeFrom
<1>4. CASE CancelReturn(h)
  BY <1>1, <1>2, <1>4, ReturnBecomesFollows DEF CancelReturn
<1>5. CASE ApproveReturn(h)
  BY <1>1, <1>2, <1>5, ReturnBecomesFollows DEF ApproveReturn
<1>6. CASE RejectReturn(h)
  BY <1>1, <1>2, <1>6, ReturnBecomesFollows DEF RejectReturn
<1>7. CASE ReceiveReturn(h)
  BY <1>1, <1>2, <1>7, ReturnBecomesFollows DEF ReceiveReturn
<1>8. CASE CompleteReturn(h)
  BY <1>1, <1>2, <1>8, ReturnBecomesFollows DEF CompleteReturn
<1>9. CASE StoreItem(h)
  BY <1>9, ItemBecomesFollows DEF StoreItem
<1>10. CASE DisposeItem(h)
  BY <1>10, ItemBecomesFollows DEF DisposeItem
<1>11. CASE CancelExchange(h)
  BY <1>1, <1>3, <1>11, ExchangeBecomesFollows DEF CancelExchange
<1>12. CASE ApproveExchange(h)
  BY <1>1, <1>3, <1>12, ExchangeBecomesFollows DEF ApproveExchange
<1>13. CASE RejectExchange(h)
  BY <1>1, <1>3, <1>13, ExchangeBecomesFollows DEF RejectExchange
<1>14. CASE PrepareExchange(h)
  BY <1>1, <1>3, <1>14, ExchangeBecomesFollows DEF PrepareExchange
<1> QED
  BY <1>4, <1>5, <1>6, <1>7, <1>8, <1>9, <1>10, <1>11, <1>12, <1>13, <1>14 DEF WriteStep

\* An operation under the row lock judges the return as it is.
LEMMA LockedFollows ==
  ASSUME KindsInv, AllFollow, NEW t \in Returns, LockedStep(t)
  PROVE  AllFollow'
<1>1. ret \in [Returns -> ReturnRows] /\ exchange \in [Returns -> ExchangeRows]
  BY DEF KindsInv, DocsOK
<1>2. ASSUME NEW from, NEW to, ExchangeMoves(t, from, to), UNCHANGED ret,
             to # "completed", "none" \notin from
      PROVE  AllFollow'
  <2>1. \A u \in Returns : u # t => exchange'[u] = exchange[u]
    BY <1>1, <1>2 DEF ExchangeMoves
  <2>2. exchange'[t].status = to /\ exchange[t].status # "none"
    BY <1>1, <1>2 DEF ExchangeMoves, ExchangeRows
  <2>3. \A u \in Returns : AllDecided(u)' <=> AllDecided(u)
    BY <1>2 DEF AllDecided, Listed
  <2> QED
    BY <1>2, <2>1, <2>2, <2>3 DEF AllFollow, Follows
<1>3. CASE \E lines \in Lines : CreateReturn(t, lines)
  <2>1. PICK lines \in Lines : CreateReturn(t, lines)
    BY <1>3
  <2>2. ret[t].status = "none" /\ exchange' = exchange
    BY <2>1 DEF CreateReturn
  <2>3. ret'[t].status = "submitted" /\ (\A u \in Returns : u # t => ret'[u] = ret[u])
    BY <1>1, <2>1 DEF CreateReturn, ReturnRows
  <2>4. \A u \in Returns : u # t => (AllDecided(u)' <=> AllDecided(u))
    BY <2>3 DEF AllDecided, Listed
  <2>5. exchange[t].status = "none"
    BY <2>2 DEF AllFollow, Follows
  <2> QED
    BY <2>2, <2>3, <2>4, <2>5 DEF AllFollow, Follows
<1>4. CASE \E lines \in Lines : CreateExchange(t, lines)
  <2>1. PICK lines \in Lines : CreateExchange(t, lines)
    BY <1>4
  <2>2. ret[t].status = "received_at_center" /\ ret' = ret
    BY <2>1 DEF CreateExchange
  <2>3. exchange'[t].status = "submitted"
        /\ (\A u \in Returns : u # t => exchange'[u] = exchange[u])
    BY <1>1, <2>1 DEF CreateExchange, ExchangeRows
  <2>4. \A u \in Returns : AllDecided(u)' <=> AllDecided(u)
    BY <2>2 DEF AllDecided, Listed
  <2> QED
    BY <2>2, <2>3, <2>4 DEF AllFollow, Follows
<1>5. CASE ShipExchange(t)
  BY <1>2, <1>5 DEF ShipExchange
<1>6. CASE ReceiveExchange(t)
  BY <1>2, <1>6 DEF ReceiveExchange
<1>7. CASE CompleteExchange(t)
  <2>1. exchange[t].status = "received"
        /\ exchange' = [exchange EXCEPT ![t].status = "completed"]
    BY <1>7 DEF CompleteExchange, ExchangeMoves
  <2>2. exchange'[t].status = "completed"
        /\ (\A u \in Returns : u # t => exchange'[u] = exchange[u])
    BY <1>1, <2>1 DEF ExchangeRows
  <2>3. /\ ret'[t].status = "completed"
        /\ \A u \in Returns : u # t => ret'[u] = ret[u]
        /\ \A u \in Returns : ret'[u].lines = ret[u].lines /\ ret'[u].disp = ret[u].disp
    <3>1. ret[t].status \in {"received_at_center", "completed"}
      BY <2>1 DEF AllFollow, Follows
    <3> QED
      BY <1>1, <1>7, <3>1 DEF CompleteExchange, ReturnRows
  <2>4. AllDecided(t)
    BY <1>7, <2>1 DEF CompleteExchange, AllFollow, Follows
  <2>5. \A u \in Returns : AllDecided(u)' <=> AllDecided(u)
    BY <2>3 DEF AllDecided, Listed
  <2> QED
    BY <2>2, <2>3, <2>4, <2>5 DEF AllFollow, Follows
<1> QED
  BY <1>3, <1>4, <1>5, <1>6, <1>7 DEF LockedStep

\* The whole invariant, inductive.
LEMMA StepKeepsTransfers ==
  ASSUME TransfersInv, [TransfersNext]_transferVars
  PROVE  TransfersInv'
<1>1. KindsInv' /\ Seen'
  BY StepKinds, SeenKept DEF TransfersInv
<1>2. ASSUME UNCHANGED <<ret, exchange>>, AllFollow
      PROVE  AllFollow'
  BY <1>2 DEF AllFollow, Follows, AllDecided, Listed
<1>3. ASSUME ~overwritten', TransfersNext
      PROVE  AllFollow'
  <2>1. ~overwritten /\ (\A h \in Handlers : WriteStep(h) => ~Stale(h))
    BY <1>3 DEF TransfersNext
  <2>2. AllFollow /\ KindsInv /\ Seen
    BY <2>1 DEF TransfersInv
  <2>3. CASE StockNext /\ UNCHANGED <<docVars, handler>>
    BY <1>2, <2>2, <2>3 DEF docVars
  <2>4. CASE \E r \in Restocks : RestockStep(r)
    BY <1>2, <2>2, <2>4, RestockKinds DEF KindsInv, StockKinds
  <2>5. ASSUME NEW h \in Handlers, BindStep(h)
        PROVE  AllFollow'
    BY <1>2, <2>2, <2>5, BindKinds DEF KindsInv, docVars
  <2>6. ASSUME NEW h \in Handlers, WriteStep(h)
        PROVE  AllFollow'
    BY <2>1, <2>2, <2>6, WriteFollows
  <2>7. ASSUME NEW h \in Handlers, Abandon(h)
        PROVE  AllFollow'
    BY <1>2, <2>2, <2>7 DEF Abandon, docVars
  <2>8. CASE \E t \in Returns : LockedStep(t)
    BY <2>2, <2>8, LockedFollows
  <2> QED
    BY <1>3, <2>3, <2>4, <2>5, <2>6, <2>7, <2>8 DEF TransfersNext, TransfersStep
<1>4. ASSUME ~overwritten', UNCHANGED transferVars
      PROVE  AllFollow'
  BY <1>2, <1>4 DEF TransfersInv, transferVars, docVars
<1> QED
  BY <1>1, <1>3, <1>4 DEF TransfersInv

LEMMA InitTransfers == TransfersInit => TransfersInv
<1> SUFFICES ASSUME TransfersInit PROVE TransfersInv
  OBVIOUS
<1>1. Seen
  BY OpsApart DEF TransfersInit, Seen, SeenIs, Idle
<1>2. \A t \in Returns : ret[t].status = "none" /\ exchange[t].status = "none"
  BY DEF TransfersInit
<1> QED
  BY <1>1, <1>2, InitKinds DEF TransfersInv, AllFollow, Follows

-----------------------------------------------------------------------------
(* The theorems.                                                           *)

\* The invariant holds for any number of documents, products and requests.
THEOREM TransfersInvariant == TransfersSpec => []TransfersInv
<1>1. TransfersInit => TransfersInv
  BY InitTransfers
<1>2. TransfersInv /\ [TransfersNext]_transferVars => TransfersInv'
  BY StepKeepsTransfers
<1> QED
  BY <1>1, <1>2, PTL DEF TransfersSpec

\* The kinds: in particular no stock figure is ever negative, although a return
\* may take goods that orders have reserved.
THEOREM TransfersTypeOKHolds == TransfersSpec => []TransfersTypeOK
<1>1. TransfersInv => TransfersTypeOK
  <2> SUFFICES ASSUME TransfersInv PROVE TransfersTypeOK
    OBVIOUS
  <2>1. \A h \in Handlers : handler[h].op \in
          {"none"} \cup DOMAIN ReturnFrom \cup DOMAIN ExchangeFrom
    BY DEF TransfersInv, KindsInv, HandlersOK, Idle, ReturnRequests, ExchangeRequests,
       ReturnOps, ExchangeOps
  <2> QED
    BY <2>1 DEF TransfersInv, KindsInv, DocsOK, RestockRows, ReturnRows, ExchangeRows,
       TransfersTypeOK
<1> QED
  BY <1>1, TransfersInvariant, PTL

\* The movements give the stock figure back under restocks, returns and exchanges
\* too, whatever requests write over each other.
THEOREM TransfersJournalHolds == TransfersSpec => []JournalMatchesStock
<1>1. TransfersInv => JournalMatchesStock
  BY DEF TransfersInv, KindsInv
<1> QED
  BY <1>1, TransfersInvariant, PTL

\* Replacement goods follow goods that came back, for any number of returns and
\* of requests, while none has written over a row it did not see.
THEOREM ExchangeFollowsReturnHolds == TransfersSpec => []ExchangeFollowsReturn
<1>1. TransfersInv => ExchangeFollowsReturn
  BY DEF TransfersInv, AllFollow, Follows, ExchangeFollowsReturn
<1> QED
  BY <1>1, TransfersInvariant, PTL

\* No document is without a button that the service accepts.
THEOREM GoodsCanMoveHolds == TransfersSpec => []GoodsCanMove
<1>1. TransfersInv => GoodsCanMove
  <2> SUFFICES ASSUME TransfersInv, ~overwritten PROVE GoodsCanMove
    BY DEF GoodsCanMove
  <2>1. \A r \in Restocks :
          restock[r].status \in {"requested", "preparing", "shipped"} => RestockCanMove(r)
    BY DEF RestockCanMove, OwnerRestockReview, OwnerRestockShip, OutletRestockReceive
  <2>2. ASSUME NEW t \in Returns, ret[t].status = "received_at_center"
        PROVE  AllDecided(t) \/ OwnerReturnItems(t) # {}
    <3>1. SUFFICES ASSUME ~AllDecided(t) PROVE OwnerReturnItems(t) # {}
      OBVIOUS
    <3>2. PICK p \in Listed(ret[t].lines) : ret[t].disp[p] = "none"
      BY <3>1 DEF AllDecided
    <3>3. <<"storeItem", p>> \in OwnerReturnItems(t)
      BY <2>2, <3>2 DEF OwnerReturnItems
    <3> QED
      BY <3>3
  <2>3. ASSUME NEW t \in Returns,
               ret[t].status \in {"submitted", "approved", "received_at_center"}
        PROVE  ReturnCanMove(t)
    <3>1. CASE ret[t].status = "submitted"
      <4>1. "approveReturn" \in OwnerReturnReview(t)
        BY <3>1 DEF OwnerReturnReview
      <4> QED
        BY <4>1 DEF ReturnCanMove
    <3>2. CASE ret[t].status = "approved"
      <4>1. "receiveReturn" \in OwnerReturnReceive(t)
        BY <3>2 DEF OwnerReturnReceive
      <4> QED
        BY <4>1 DEF ReturnCanMove
    <3>3. CASE ret[t].status = "received_at_center"
      BY <2>2, <3>3 DEF ReturnCanMove, OwnerReturnFinish, AllDecided
    <3> QED
      BY <2>3, <3>1, <3>2, <3>3
  <2>4. ASSUME NEW t \in Returns, exchange[t].status \in
                 {"submitted", "approved", "preparing", "shipped", "received"}
        PROVE  ExchangeCanMove(t)
    <3>1. ret[t].status \in {"received_at_center", "completed"}
      BY <2>4 DEF TransfersInv, AllFollow, Follows
    <3>2. CASE exchange[t].status = "submitted"
      <4>1. "approveExchange" \in OwnerExchangeReview(t)
        BY <3>2 DEF OwnerExchangeReview
      <4> QED
        BY <4>1 DEF ExchangeCanMove
    <3>3. CASE exchange[t].status \in {"approved", "preparing"}
      BY <3>1, <3>3 DEF ExchangeCanMove, OwnerExchangeShip, ShipAccepted
    <3>4. CASE exchange[t].status = "shipped"
      BY <3>4 DEF ExchangeCanMove, OutletExchangeReceive
    <3>5. CASE exchange[t].status = "received"
      BY <2>2, <3>5 DEF ExchangeCanMove, OwnerExchangeFinish, FinishAccepted
    <3> QED
      BY <2>4, <3>2, <3>3, <3>4, <3>5
  <2> QED
    BY <2>1, <2>3, <2>4 DEF GoodsCanMove
<1> QED
  BY <1>1, TransfersInvariant, PTL

-----------------------------------------------------------------------------
(* No goods made or lost.  A step of a document changes that document and,  *)
(* with its return, that exchange; so what is under way changes by what     *)
(* this one counts for, and the shelves change by the opposite.             *)

\* What is under way and thrown away is finitely many units.
Countable(p) ==
  /\ IsFiniteSet(Units(Sent(restock), Amount(restock, p)))
  /\ IsFiniteSet(Units(Sent(exchange), Amount(exchange, p)))
  /\ IsFiniteSet(Units(Undecided(p), Amount(ret, p)))
  /\ IsFiniteSet(Units(Disposed(p), Amount(ret, p)))

\* What one document counts for.
OfSent(doc, p) == IF doc.status = "shipped" THEN doc.lines[p] ELSE 0
OfReturn(doc, p) ==
  (IF doc.status = "received_at_center" /\ doc.disp[p] = "none" THEN doc.lines[p] ELSE 0)
  + (IF doc.disp[p] = "disposed" THEN doc.lines[p] ELSE 0)

\* Nothing is decided about goods before they are at the centre.
Untouched(doc) ==
  doc.status \notin {"received_at_center", "completed"} =>
    \A p \in Products : doc.disp[p] = "none"

AllUntouched == \A t \in Returns : Untouched(ret[t])

UnitsInv == ~overwritten => AllUntouched /\ \A p \in Products : Countable(p)

\* One row of restock requests or exchanges changes: what is sent changes by it.
LEMMA SentMove ==
  ASSUME NEW D, NEW a, NEW b, DOMAIN a = D, DOMAIN b = D, NEW d \in D,
         \A e \in D \ {d} : b[e] = a[e], NEW p, a[d].lines[p] \in Nat, b[d].lines[p] \in Nat,
         IsFiniteSet(Units(Sent(a), Amount(a, p)))
  PROVE  /\ IsFiniteSet(Units(Sent(b), Amount(b, p)))
         /\ Total(Sent(a), Amount(a, p)) \in Nat
         /\ Total(Sent(b), Amount(b, p))
              = Total(Sent(a), Amount(a, p)) - OfSent(a[d], p) + OfSent(b[d], p)
<1> DEFINE S == Sent(a)
           T == Sent(b)
           n == Amount(a, p)
           m == Amount(b, p)
<1>1. S \ {d} = T \ {d} /\ IsFiniteSet(Units(S, n))
  BY DEF Sent
<1>2. \A e \in S \ {d} : m[e] = n[e]
  BY DEF Sent, Amount
<1>3. n[d] = a[d].lines[p] /\ m[d] = b[d].lines[p]
  BY DEF Amount
<1>4. /\ d \in S <=> a[d].status = "shipped"
      /\ d \in T <=> b[d].status = "shipped"
  BY DEF Sent
<1> HIDE DEF S, T, n, m
<1>5. n[d] \in Nat /\ m[d] \in Nat
  BY <1>3
<1>6. /\ IsFiniteSet(Units(T, m)) /\ Total(S, n) \in Nat
      /\ Total(T, m) = Total(S, n) - (IF d \in S THEN n[d] ELSE 0)
                                   + (IF d \in T THEN m[d] ELSE 0)
  BY <1>1, <1>2, <1>5, TotalMove
<1>7. Total(T, m) = Total(S, n) - OfSent(a[d], p) + OfSent(b[d], p)
  BY <1>3, <1>4, <1>6 DEF OfSent
<1> QED
  BY <1>6, <1>7 DEF S, T, n, m

\* The quantities in the documents.
LEMMA DocsHoldLines ==
  ASSUME DocsOK, NEW p \in Products
  PROVE  /\ DOMAIN restock = Restocks /\ DOMAIN ret = Returns /\ DOMAIN exchange = Returns
         /\ \A r \in Restocks : restock[r].lines[p] \in Nat
         /\ \A t \in Returns : ret[t].lines[p] \in Nat /\ exchange[t].lines[p] \in Nat
  BY LinesAreNat DEF DocsOK, RestockRows, ReturnRows, ExchangeRows

\* One return changes: what is undecided and what is thrown away change by it.
LEMMA ReturnMove ==
  ASSUME DocsOK, DocsOK', NEW p \in Products, Countable(p), NEW t \in Returns,
         \A u \in Returns \ {t} : ret'[u] = ret[u]
  PROVE  /\ IsFiniteSet(Units(Undecided(p), Amount(ret, p)))'
         /\ IsFiniteSet(Units(Disposed(p), Amount(ret, p)))'
         /\ Total(Undecided(p), Amount(ret, p)) + Total(Disposed(p), Amount(ret, p)) \in Nat
         /\ (Total(Undecided(p), Amount(ret, p)) + Total(Disposed(p), Amount(ret, p)))'
              = Total(Undecided(p), Amount(ret, p)) + Total(Disposed(p), Amount(ret, p))
                - OfReturn(ret[t], p) + OfReturn(ret[t], p)'
<1> DEFINE n == Amount(ret, p)
           m == Amount(ret', p)
<1>1. /\ \A u \in Returns : n[u] = ret[u].lines[p] /\ n[u] \in Nat
      /\ \A u \in Returns : m[u] = ret'[u].lines[p] /\ m[u] \in Nat
  <2>1. /\ DOMAIN ret = Returns /\ DOMAIN ret' = Returns
        /\ \A u \in Returns : ret[u].lines[p] \in Nat /\ ret'[u].lines[p] \in Nat
    BY LinesAreNat DEF DocsOK, ReturnRows
  <2> QED
    BY <2>1 DEF Amount
<1>2. \A u \in Returns \ {t} : m[u] = n[u]
  BY <1>1
<1> DEFINE U == Undecided(p)
           V == Undecided(p)'
           E == Disposed(p)
           F == Disposed(p)'
<1>3. /\ U \ {t} = V \ {t} /\ E \ {t} = F \ {t}
      /\ U \subseteq Returns /\ E \subseteq Returns
  BY DEF Undecided, Disposed
<1>4. /\ t \in U <=> ret[t].status = "received_at_center" /\ ret[t].disp[p] = "none"
      /\ t \in V <=> ret'[t].status = "received_at_center" /\ ret'[t].disp[p] = "none"
      /\ t \in E <=> ret[t].disp[p] = "disposed"
      /\ t \in F <=> ret'[t].disp[p] = "disposed"
  BY DEF Undecided, Disposed
<1>5. IsFiniteSet(Units(U, n)) /\ IsFiniteSet(Units(E, n))
  BY DEF Countable
<1> HIDE DEF n, m, U, V, E, F
<1>6. n[t] \in Nat /\ m[t] \in Nat
  BY <1>1
<1>7. /\ IsFiniteSet(Units(V, m)) /\ Total(U, n) \in Nat
      /\ Total(V, m) = Total(U, n) - (IF t \in U THEN n[t] ELSE 0)
                                   + (IF t \in V THEN m[t] ELSE 0)
  <2>1. \A u \in U \ {t} : m[u] = n[u]
    BY <1>2, <1>3
  <2> QED
    BY <1>3, <1>5, <1>6, <2>1, TotalMove
<1>8. /\ IsFiniteSet(Units(F, m)) /\ Total(E, n) \in Nat
      /\ Total(F, m) = Total(E, n) - (IF t \in E THEN n[t] ELSE 0)
                                   + (IF t \in F THEN m[t] ELSE 0)
  <2>1. \A u \in E \ {t} : m[u] = n[u]
    BY <1>2, <1>3
  <2> QED
    BY <1>3, <1>5, <1>6, <2>1, TotalMove
<1>9. /\ OfReturn(ret[t], p) = (IF t \in U THEN n[t] ELSE 0) + (IF t \in E THEN n[t] ELSE 0)
      /\ OfReturn(ret'[t], p) = (IF t \in V THEN m[t] ELSE 0) + (IF t \in F THEN m[t] ELSE 0)
  BY <1>1, <1>4 DEF OfReturn
<1>10. /\ Total(U, n) + Total(E, n) \in Nat
       /\ Total(V, m) + Total(F, m)
            = Total(U, n) + Total(E, n) - OfReturn(ret[t], p) + OfReturn(ret'[t], p)
  BY <1>6, <1>7, <1>8, <1>9
<1> QED
  BY <1>7, <1>8, <1>10 DEF n, m, U, V, E, F

\* A restock request that moves on while the shelves make up for it.
LEMMA RestockCounts ==
  ASSUME DocsOK, DocsOK', StockTypeOK, StockTypeOK', NEW p \in Products, Countable(p),
         NEW r \in Restocks, \A e \in Restocks \ {r} : restock'[e] = restock[e],
         UNCHANGED <<ret, exchange>>,
         current'[p] + center'[p] + OfSent(restock'[r], p)
           = current[p] + center[p] + OfSent(restock[r], p)
  PROVE  Countable(p)' /\ Everywhere(p)' = Everywhere(p)
<1> DEFINE a == Total(Sent(restock), Amount(restock, p))
           b == Total(Sent(restock'), Amount(restock', p))
           rest == Total(Sent(exchange), Amount(exchange, p))
           undecided == Total(Undecided(p), Amount(ret, p))
           binned == Total(Disposed(p), Amount(ret, p))
<1>1. /\ DOMAIN restock = Restocks /\ DOMAIN restock' = Restocks
      /\ restock[r].lines[p] \in Nat /\ restock'[r].lines[p] \in Nat
  BY LinesAreNat DEF DocsOK, RestockRows
<1>2. /\ IsFiniteSet(Units(Sent(restock'), Amount(restock', p)))
      /\ a \in Nat /\ b = a - OfSent(restock[r], p) + OfSent(restock'[r], p)
  BY <1>1, SentMove DEF Countable
<1>3. Undecided(p)' = Undecided(p) /\ Disposed(p)' = Disposed(p)
  BY DEF Undecided, Disposed
<1>4. Countable(p)'
  BY <1>2, <1>3 DEF Countable
<1>5. rest \in Nat /\ undecided \in Nat /\ binned \in Nat
  BY FS_CardinalityType DEF Countable, Total
<1>6. /\ Everywhere(p) = current[p] + center[p] + (a + rest + undecided) + binned
      /\ Everywhere(p)' = current'[p] + center'[p] + (b + rest + undecided) + binned
  BY <1>3 DEF Everywhere, OnTheWay, Binned
<1>7. /\ current[p] \in Nat /\ center[p] \in Nat /\ current'[p] \in Nat /\ center'[p] \in Nat
      /\ OfSent(restock[r], p) \in Nat /\ OfSent(restock'[r], p) \in Nat
  BY <1>1 DEF StockTypeOK, OfSent
<1> HIDE DEF a, b, rest, undecided, binned
<1>8. Everywhere(p)' = Everywhere(p)
  BY <1>2, <1>5, <1>6, <1>7
<1> QED
  BY <1>4, <1>8

\* A return and its exchange that move on while the shelves make up for it.
LEMMA ReturnCounts ==
  ASSUME DocsOK, DocsOK', StockTypeOK, StockTypeOK', NEW p \in Products, Countable(p),
         NEW t \in Returns,
         \A u \in Returns \ {t} : ret'[u] = ret[u] /\ exchange'[u] = exchange[u],
         UNCHANGED restock,
         current'[p] + center'[p] + OfReturn(ret'[t], p) + OfSent(exchange'[t], p)
           = current[p] + center[p] + OfReturn(ret[t], p) + OfSent(exchange[t], p)
  PROVE  Countable(p)' /\ Everywhere(p)' = Everywhere(p)
<1> DEFINE a == Total(Sent(exchange), Amount(exchange, p))
           b == Total(Sent(exchange'), Amount(exchange', p))
           rest == Total(Sent(restock), Amount(restock, p))
           c == Total(Undecided(p), Amount(ret, p))
           d == Total(Disposed(p), Amount(ret, p))
           e == Total(Undecided(p)', Amount(ret', p))
           f == Total(Disposed(p)', Amount(ret', p))
<1>1. /\ DOMAIN exchange = Returns /\ DOMAIN exchange' = Returns
      /\ exchange[t].lines[p] \in Nat /\ exchange'[t].lines[p] \in Nat
      /\ ret[t].lines[p] \in Nat /\ ret'[t].lines[p] \in Nat
  BY LinesAreNat DEF DocsOK, ExchangeRows, ReturnRows
<1>2. /\ IsFiniteSet(Units(Sent(exchange'), Amount(exchange', p)))
      /\ a \in Nat /\ b = a - OfSent(exchange[t], p) + OfSent(exchange'[t], p)
  BY <1>1, SentMove DEF Countable
<1>3. /\ IsFiniteSet(Units(Undecided(p), Amount(ret, p)))'
      /\ IsFiniteSet(Units(Disposed(p), Amount(ret, p)))'
      /\ e + f = c + d - OfReturn(ret[t], p) + OfReturn(ret'[t], p)
  BY ReturnMove
<1>4. Countable(p)'
  BY <1>2, <1>3 DEF Countable
<1>5. rest \in Nat /\ c \in Nat /\ d \in Nat /\ e \in Nat /\ f \in Nat
  BY <1>3, FS_CardinalityType DEF Countable, Total
<1>6. /\ Everywhere(p) = current[p] + center[p] + (rest + a + c) + d
      /\ Everywhere(p)' = current'[p] + center'[p] + (rest + b + e) + f
  BY DEF Everywhere, OnTheWay, Binned
<1>7. /\ current[p] \in Nat /\ center[p] \in Nat /\ current'[p] \in Nat /\ center'[p] \in Nat
      /\ OfSent(exchange[t], p) \in Nat /\ OfSent(exchange'[t], p) \in Nat
      /\ OfReturn(ret[t], p) \in Nat /\ OfReturn(ret'[t], p) \in Nat
  BY <1>1 DEF StockTypeOK, OfSent, OfReturn
<1> HIDE DEF a, b, rest, c, d, e, f
<1>8. Everywhere(p)' = Everywhere(p)
  BY <1>2, <1>3, <1>5, <1>6, <1>7
<1> QED
  BY <1>4, <1>8

\* What a step about return t or its exchange does to the goods.
Balanced(t) ==
  /\ UNCHANGED restock
  /\ \A u \in Returns \ {t} : ret'[u] = ret[u] /\ exchange'[u] = exchange[u]
  /\ Untouched(ret'[t])
  /\ \A p \in Products :
       current'[p] + center'[p] + OfReturn(ret'[t], p) + OfSent(exchange'[t], p)
         = current[p] + center[p] + OfReturn(ret[t], p) + OfSent(exchange[t], p)

\* The same for a restock request.
RestockBalanced(r) ==
  /\ UNCHANGED <<ret, exchange>>
  /\ \A e \in Restocks \ {r} : restock'[e] = restock[e]
  /\ \A p \in Products :
       current'[p] + center'[p] + OfSent(restock'[r], p)
         = current[p] + center[p] + OfSent(restock[r], p)

\* Every operation on a restock request.
LEMMA RestockBalances ==
  ASSUME KindsInv, NEW r \in Restocks, RestockStep(r)
  PROVE  RestockBalanced(r)
<1>k. /\ restock \in [Restocks -> RestockRows]
      /\ \A p \in Products : /\ current[p] \in Nat /\ center[p] \in Nat
                             /\ restock[r].lines[p] \in Nat
  BY LinesAreNat DEF KindsInv, DocsOK, RestockRows, StockTypeOK
<1>1. ASSUME NEW from, NEW to, RestockMoves(r, from, to)
      PROVE  /\ restock[r].status = from
             /\ restock'[r].status = to /\ restock'[r].lines = restock[r].lines
             /\ \A e \in Restocks \ {r} : restock'[e] = restock[e]
  BY <1>k, <1>1 DEF RestockMoves, RestockRows
<1>2. ASSUME NEW from, NEW to, RestockMoves(r, from, to), from # "shipped", to # "shipped",
             UNCHANGED <<stockVars, ret, exchange>>
      PROVE  RestockBalanced(r)
  BY <1>1, <1>2 DEF RestockBalanced, OfSent, stockVars
<1>3. CASE CreateRestock(r)
  BY <1>2, <1>3 DEF CreateRestock
<1>4. CASE \E lines \in Lines : ApproveRestock(r, lines)
  <2>1. PICK lines \in Lines : ApproveRestock(r, lines)
    BY <1>4
  <2>2. /\ restock[r].status = "requested" /\ restock'[r].status = "preparing"
        /\ \A e \in Restocks \ {r} : restock'[e] = restock[e]
        /\ UNCHANGED <<stockVars, ret, exchange>>
    BY <1>k, <2>1 DEF ApproveRestock
  <2> QED
    BY <2>2 DEF RestockBalanced, OfSent, stockVars
<1>5. CASE CancelRestock(r)
  BY <1>2, <1>5 DEF CancelRestock
<1>6. CASE RejectRestock(r)
  BY <1>2, <1>6 DEF RejectRestock
<1>7. CASE ShipRestock(r)
  <2>1. /\ restock[r].status = "preparing" /\ restock'[r].status = "shipped"
        /\ restock'[r].lines = restock[r].lines
        /\ \A e \in Restocks \ {r} : restock'[e] = restock[e]
    BY <1>1, <1>7 DEF ShipRestock
  <2>2. UNCHANGED <<current, ret, exchange>>
        /\ \A p \in Products : center'[p] = center[p] - restock[r].lines[p]
    BY <1>7 DEF ShipRestock
  <2> QED
    BY <1>k, <2>1, <2>2 DEF RestockBalanced, OfSent
<1>8. CASE ReceiveRestock(r)
  <2>1. /\ restock[r].status = "shipped" /\ restock'[r].status = "completed"
        /\ \A e \in Restocks \ {r} : restock'[e] = restock[e]
    BY <1>1, <1>8 DEF ReceiveRestock
  <2>2. UNCHANGED <<center, ret, exchange>>
        /\ \A p \in Products : current'[p] = current[p] + restock[r].lines[p]
    BY <1>8 DEF ReceiveRestock
  <2> QED
    BY <1>k, <2>1, <2>2 DEF RestockBalanced, OfSent
<1> QED
  BY <1>3, <1>4, <1>5, <1>6, <1>7, <1>8 DEF RestockStep

\* Rows and figures of one return.
LEMMA ReturnFigures ==
  ASSUME KindsInv, NEW t \in Returns
  PROVE  /\ ret \in [Returns -> ReturnRows] /\ exchange \in [Returns -> ExchangeRows]
         /\ ret[t].disp \in [Products -> Dispositions]
         /\ \A p \in Products : /\ current[p] \in Nat /\ center[p] \in Nat
                                /\ ret[t].lines[p] \in Nat /\ exchange[t].lines[p] \in Nat
  BY LinesAreNat DEF KindsInv, DocsOK, ReturnRows, ExchangeRows, StockTypeOK

\* A request that writes a status over the one it saw.
LEMMA ReturnBecomesBalances ==
  ASSUME KindsInv, Seen, AllUntouched, NEW h \in Handlers, ~Stale(h), NEW op \in ReturnOps,
         NEW to \in ReturnStatuses, ReturnBecomes(h, op, to), NEW t \in Returns,
         t = handler[h].of, UNCHANGED stockVars,
         \/ ReturnFrom[op] \in {"submitted", "approved"} /\ to # "received_at_center"
         \/ ReturnFrom[op] = "received_at_center" /\ to = "completed" /\ AllDecided(t)
  PROVE  Balanced(t)
<1>k. /\ ret \in [Returns -> ReturnRows]
      /\ ret[t].disp \in [Products -> Dispositions]
      /\ \A p \in Products : ret[t].lines[p] \in Nat
  BY ReturnFigures
<1>1. ret[t].status = ReturnFrom[op]
  BY FreshReturn DEF ReturnBecomes, KindsInv
<1>2. ret' = [ret EXCEPT ![t].status = to] /\ UNCHANGED <<restock, exchange>>
  BY DEF ReturnBecomes
<1>3. /\ ret'[t].status = to /\ ret'[t].lines = ret[t].lines /\ ret'[t].disp = ret[t].disp
      /\ \A u \in Returns \ {t} : ret'[u] = ret[u]
  BY <1>k, <1>2 DEF ReturnRows
<1>4. UNCHANGED <<current, center>>
  BY DEF stockVars
<1>5. CASE ReturnFrom[op] \in {"submitted", "approved"} /\ to # "received_at_center"
  <2>1. \A p \in Products : ret[t].disp[p] = "none"
    BY <1>1, <1>5 DEF AllUntouched, Untouched
  <2>2. Untouched(ret'[t])
    BY <1>3, <2>1 DEF Untouched
  <2>3. \A p \in Products : OfReturn(ret'[t], p) = OfReturn(ret[t], p)
    BY <1>1, <1>3, <1>5 DEF OfReturn
  <2> QED
    BY <1>2, <1>3, <1>4, <2>2, <2>3 DEF Balanced
<1>6. CASE ReturnFrom[op] = "received_at_center" /\ to = "completed" /\ AllDecided(t)
  <2>1. \A p \in Products : ret[t].disp[p] = "none" => ret[t].lines[p] = 0
    BY <1>k, <1>6 DEF AllDecided, Listed
  <2>2. Untouched(ret'[t])
    BY <1>3, <1>6 DEF Untouched
  <2>3. \A p \in Products : OfReturn(ret'[t], p) = OfReturn(ret[t], p)
    BY <1>1, <1>3, <1>6, <2>1 DEF OfReturn
  <2> QED
    BY <1>2, <1>3, <1>4, <2>2, <2>3 DEF Balanced
<1> QED
  BY <1>5, <1>6

\* Goods of a return arrive at the centre: they leave the shelf and are undecided.
LEMMA ReceiveReturnBalances ==
  ASSUME KindsInv, Seen, AllUntouched, NEW h \in Handlers, ~Stale(h), ReceiveReturn(h),
         NEW t \in Returns, t = handler[h].of
  PROVE  Balanced(t)
<1>k. /\ ret \in [Returns -> ReturnRows]
      /\ \A p \in Products : /\ current[p] \in Nat /\ center[p] \in Nat
                             /\ ret[t].lines[p] \in Nat
  BY ReturnFigures
<1>1. ret[t].status = "approved"
  BY FreshReturn, OpsApart DEF ReceiveReturn, ReturnBecomes, KindsInv, ReturnFrom
<1>2. /\ ret' = [ret EXCEPT ![t].status = "received_at_center"]
      /\ UNCHANGED <<restock, exchange, center>>
      /\ \A p \in Products : current'[p] = current[p] - ret[t].lines[p]
  BY DEF ReceiveReturn, ReturnBecomes
<1>3. /\ ret'[t].status = "received_at_center"
      /\ ret'[t].lines = ret[t].lines /\ ret'[t].disp = ret[t].disp
      /\ \A u \in Returns \ {t} : ret'[u] = ret[u]
  BY <1>k, <1>2 DEF ReturnRows
<1>4. \A p \in Products : ret[t].disp[p] = "none"
  BY <1>1 DEF AllUntouched, Untouched
<1>5. \A p \in Products :
        OfReturn(ret[t], p) = 0 /\ OfReturn(ret'[t], p) = ret[t].lines[p]
  BY <1>k, <1>1, <1>3, <1>4 DEF OfReturn
<1>6. \A p \in Products :
        current'[p] + center'[p] + OfReturn(ret'[t], p) + OfSent(exchange'[t], p)
          = current[p] + center[p] + OfReturn(ret[t], p) + OfSent(exchange[t], p)
  <2> SUFFICES ASSUME NEW p \in Products
               PROVE  current'[p] + center'[p] + OfReturn(ret'[t], p) + OfSent(exchange'[t], p)
                        = current[p] + center[p] + OfReturn(ret[t], p) + OfSent(exchange[t], p)
    OBVIOUS
  <2>1. /\ current'[p] + center'[p] + OfReturn(ret'[t], p)
             = current[p] + center[p] + OfReturn(ret[t], p)
        /\ OfSent(exchange'[t], p) = OfSent(exchange[t], p)
    BY <1>k, <1>2, <1>5
  <2> QED
    BY <2>1
<1> QED
  BY <1>2, <1>3, <1>6 DEF Balanced, Untouched

\* A decision about a line: the goods reach the centre, are thrown away, or both
\* one after the other.
LEMMA ItemBalances ==
  ASSUME KindsInv, Seen, NEW h \in Handlers, ~Stale(h), StoreItem(h) \/ DisposeItem(h),
         NEW t \in Returns, t = handler[h].of
  PROVE  Balanced(t)
<1> DEFINE q == handler[h].item
           k == ret[t].lines[q]
<1>k. /\ ret \in [Returns -> ReturnRows]
      /\ ret[t].disp \in [Products -> Dispositions] /\ center \in [Products -> Nat]
      /\ \A p \in Products : /\ current[p] \in Nat /\ center[p] \in Nat
                             /\ ret[t].lines[p] \in Nat
  BY ReturnFigures DEF KindsInv, StockTypeOK
<1>1. /\ handler[h].op \in {"storeItem", "disposeItem"} /\ handler[h].op \in ReturnOps
      /\ handler[h].op \notin DOMAIN ExchangeFrom /\ handler[h] # Idle
  BY OpsApart DEF StoreItem, DisposeItem, ItemBecomes, ExchangeOps, Idle
<1>2. /\ q \in Products /\ k \in Nat
      /\ ret[t].status = "received_at_center"
  <2>1. handler[h] \in ReturnRequests
    BY <1>1, ReturnRequestHolds DEF KindsInv
  <2>2. q \in Products
    BY <2>1 DEF ReturnRequests
  <2> QED
    BY <1>k, <1>1, <2>2, FreshReturn DEF KindsInv, ReturnFrom
<1>3. handler[h].seen.disp[q] = ret[t].disp[q]
  BY <1>1 DEF Stale
<1>4. ASSUME NEW to \in {"stored", "disposed"}, ItemBecomes(h, handler[h].op, to), NEW c \in Nat,
             center' = [center EXCEPT ![q] = c],
             c + (IF to = "disposed" THEN k ELSE 0)
               = center[q] + (IF ret[t].disp[q] \in {"none", "disposed"} THEN k ELSE 0)
      PROVE  Balanced(t)
  <2>1. /\ ret' = [ret EXCEPT ![t].disp[q] = to]
        /\ UNCHANGED <<restock, exchange, current>>
    BY <1>4 DEF ItemBecomes
  <2>2. /\ ret'[t].status = "received_at_center" /\ ret'[t].lines = ret[t].lines
        /\ ret'[t].disp = [ret[t].disp EXCEPT ![q] = to]
        /\ \A u \in Returns \ {t} : ret'[u] = ret[u]
    BY <1>k, <1>2, <2>1 DEF ReturnRows
  <2>3. /\ ret'[t].disp[q] = to /\ center'[q] = c
        /\ \A p \in Products \ {q} : ret'[t].disp[p] = ret[t].disp[p] /\ center'[p] = center[p]
    BY <1>k, <1>2, <1>4, <2>2
  <2>4. /\ OfReturn(ret[t], q) = IF ret[t].disp[q] \in {"none", "disposed"} THEN k ELSE 0
        /\ OfReturn(ret'[t], q) = IF to = "disposed" THEN k ELSE 0
        /\ \A p \in Products \ {q} : OfReturn(ret'[t], p) = OfReturn(ret[t], p)
    <3>1. OfReturn(ret[t], q) = IF ret[t].disp[q] \in {"none", "disposed"} THEN k ELSE 0
      BY <1>2 DEF OfReturn
    <3>2. OfReturn(ret'[t], q) = IF to = "disposed" THEN k ELSE 0
      <4>1. ret'[t].disp[q] = to /\ ret'[t].lines[q] = k /\ to # "none"
        BY <1>4, <2>2, <2>3
      <4> HIDE DEF k
      <4> QED
        BY <1>2, <4>1 DEF OfReturn
    <3>3. \A p \in Products \ {q} : OfReturn(ret'[t], p) = OfReturn(ret[t], p)
      BY <1>2, <2>2, <2>3 DEF OfReturn
    <3> QED
      BY <3>1, <3>2, <3>3
  <2>5. ASSUME NEW p \in Products
        PROVE  current'[p] + center'[p] + OfReturn(ret'[t], p) + OfSent(exchange'[t], p)
                 = current[p] + center[p] + OfReturn(ret[t], p) + OfSent(exchange[t], p)
    <3>1. CASE p # q
      BY <2>1, <2>3, <2>4, <3>1
    <3>2. CASE p = q
      <4>1. current[q] + c + (IF to = "disposed" THEN k ELSE 0)
              = current[q] + center[q]
                  + (IF ret[t].disp[q] \in {"none", "disposed"} THEN k ELSE 0)
        BY <1>k, <1>2, <1>4
      <4>2. current'[p] + center'[p] + OfReturn(ret'[t], p)
              = current[p] + center[p] + OfReturn(ret[t], p)
        BY <2>1, <2>3, <2>4, <3>2, <4>1
      <4> QED
        BY <2>1, <4>2
    <3> QED
      BY <3>1, <3>2
  <2> QED
    BY <2>1, <2>2, <2>5 DEF Balanced, Untouched
<1>5. CASE StoreItem(h)
  <2>1. /\ ItemBecomes(h, handler[h].op, "stored") /\ handler[h].op = "storeItem"
        /\ center' = [center EXCEPT ![q] = center[q] + k]
    BY <1>5 DEF StoreItem, ItemBecomes, ItemUnits
  <2>2. ret[t].disp[q] # "stored"
    BY <1>3, <2>1 DEF Seen, SeenIs
  <2>3. ret[t].disp[q] \in {"none", "disposed"}
    BY <1>k, <1>2, <2>2 DEF Dispositions
  <2>4. center[q] + k \in Nat /\ center[q] + k + 0 = center[q] + k
    BY <1>k, <1>2
  <2> HIDE DEF q, k
  <2> QED
    BY <1>4, <2>1, <2>3, <2>4
<1>6. CASE DisposeItem(h)
  <2>1. ItemBecomes(h, handler[h].op, "disposed")
    BY <1>6 DEF DisposeItem, ItemBecomes
  <2>2. CASE ret[t].disp[q] = "stored"
    <3>1. center[q] >= k /\ center' = [center EXCEPT ![q] = center[q] - k]
      BY <1>3, <1>6, <2>2 DEF DisposeItem, ItemUnits
    <3>2. center[q] - k \in Nat /\ center[q] - k + k = center[q] + 0
      BY <1>k, <1>2, <3>1
    <3> HIDE DEF q, k
    <3> QED
      BY <1>4, <2>1, <2>2, <3>1, <3>2
  <2>3. CASE ret[t].disp[q] # "stored"
    <3>1. center' = center
      BY <1>3, <1>6, <2>3 DEF DisposeItem
    <3>2. center' = [center EXCEPT ![q] = center[q]] /\ center[q] \in Nat
      BY <1>k, <1>2, <3>1
    <3>3. ret[t].disp[q] \in {"none", "disposed"}
      BY <1>k, <1>2, <2>3 DEF Dispositions
    <3> HIDE DEF q, k
    <3> QED
      BY <1>4, <2>1, <3>2, <3>3
  <2> QED
    BY <2>2, <2>3
<1> QED
  BY <1>5, <1>6

\* A request about an exchange writes a status that no goods depend on.
LEMMA ExchangeBecomesBalances ==
  ASSUME KindsInv, Seen, AllUntouched, NEW h \in Handlers, ~Stale(h), NEW op \in ExchangeOps,
         NEW to, to # "shipped", ExchangeBecomes(h, op, to), NEW t \in Returns,
         t = handler[h].of
  PROVE  Balanced(t)
<1>1. exchange[t].status = ExchangeFrom[op]
  BY FreshExchange DEF ExchangeBecomes, KindsInv
<1>2. exchange[t].status # "shipped"
  BY <1>1, OpsApart DEF ExchangeFrom
<1>3. /\ exchange' = [exchange EXCEPT ![t].status = to]
      /\ UNCHANGED <<restock, ret, current, center>>
  BY DEF ExchangeBecomes, stockVars
<1>4. /\ exchange'[t].status = to
      /\ \A u \in Returns \ {t} : exchange'[u] = exchange[u]
  BY <1>3, ReturnFigures DEF ExchangeRows
<1> QED
  BY <1>2, <1>3, <1>4 DEF Balanced, OfSent, AllUntouched

\* What is done under the lock of the row.
LEMMA LockedBalances ==
  ASSUME KindsInv, AllUntouched, NEW t \in Returns, LockedStep(t)
  PROVE  Balanced(t)
<1>k. /\ ret \in [Returns -> ReturnRows] /\ exchange \in [Returns -> ExchangeRows]
      /\ ret[t].disp \in [Products -> Dispositions]
      /\ \A p \in Products : /\ current[p] \in Nat /\ center[p] \in Nat
                             /\ ret[t].lines[p] \in Nat /\ exchange[t].lines[p] \in Nat
  BY ReturnFigures
<1>u. Untouched(ret[t])
  BY DEF AllUntouched
<1>f. \A p \in Products : /\ OfReturn(ret[t], p) \in Nat
                          /\ OfSent(exchange[t], p) \in {0, exchange[t].lines[p]}
  BY <1>k DEF OfReturn, OfSent
<1>1. CASE \E lines \in Lines : CreateReturn(t, lines)
  <2>1. PICK lines \in Lines : CreateReturn(t, lines)
    BY <1>1
  <2>2. /\ ret[t].status = "none"
        /\ ret' = [ret EXCEPT ![t].status = "submitted", ![t].lines = lines]
        /\ UNCHANGED <<current, center, restock, exchange>>
    BY <2>1 DEF CreateReturn, stockVars
  <2>3. /\ ret'[t].status = "submitted" /\ ret'[t].disp = ret[t].disp
        /\ \A u \in Returns \ {t} : ret'[u] = ret[u]
    BY <1>k, <2>2 DEF ReturnRows
  <2>4. \A p \in Products : ret[t].disp[p] = "none"
    BY <1>u, <2>2 DEF Untouched
  <2>5. \A p \in Products : OfReturn(ret'[t], p) = OfReturn(ret[t], p)
    BY <2>2, <2>3, <2>4 DEF OfReturn
  <2>6. Untouched(ret'[t])
    BY <2>3, <2>4 DEF Untouched
  <2> QED
    BY <2>2, <2>3, <2>5, <2>6 DEF Balanced
<1>2. CASE \E lines \in Lines : CreateExchange(t, lines)
  <2>1. PICK lines \in Lines : CreateExchange(t, lines)
    BY <1>2
  <2>2. /\ exchange[t].status = "none"
        /\ exchange' = [exchange EXCEPT ![t] = [status |-> "submitted", lines |-> lines]]
        /\ UNCHANGED <<current, center, restock, ret>>
    BY <2>1 DEF CreateExchange, stockVars
  <2>3. /\ exchange'[t].status = "submitted"
        /\ \A u \in Returns \ {t} : exchange'[u] = exchange[u]
    BY <1>k, <2>2
  <2> QED
    BY <1>u, <2>2, <2>3 DEF Balanced, OfSent
<1>3. ASSUME NEW from, NEW to, ExchangeMoves(t, from, to)
      PROVE  /\ exchange[t].status \in from
             /\ exchange'[t].status = to /\ exchange'[t].lines = exchange[t].lines
             /\ \A u \in Returns \ {t} : exchange'[u] = exchange[u]
             /\ UNCHANGED restock
  BY <1>k, <1>3 DEF ExchangeMoves, ExchangeRows
<1>4. CASE ShipExchange(t)
  <2>1. /\ exchange[t].status \in {"approved", "preparing"}
        /\ exchange'[t].status = "shipped" /\ exchange'[t].lines = exchange[t].lines
        /\ \A u \in Returns \ {t} : exchange'[u] = exchange[u]
        /\ UNCHANGED restock
    BY <1>3, <1>4 DEF ShipExchange
  <2>2. /\ UNCHANGED <<current, ret>>
        /\ \A p \in Products : center'[p] = center[p] - exchange[t].lines[p]
    BY <1>4 DEF ShipExchange
  <2>3. \A p \in Products :
          OfSent(exchange[t], p) = 0 /\ OfSent(exchange'[t], p) = exchange[t].lines[p]
    BY <2>1 DEF OfSent
  <2>4. \A p \in Products :
          current'[p] + center'[p] + OfReturn(ret'[t], p) + OfSent(exchange'[t], p)
            = current[p] + center[p] + OfReturn(ret[t], p) + OfSent(exchange[t], p)
    BY <1>k, <1>f, <2>2, <2>3
  <2> QED
    BY <1>u, <2>1, <2>2, <2>4 DEF Balanced
<1>5. CASE ReceiveExchange(t)
  <2>1. /\ exchange[t].status = "shipped"
        /\ exchange'[t].status = "received"
        /\ \A u \in Returns \ {t} : exchange'[u] = exchange[u]
        /\ UNCHANGED restock
    BY <1>3, <1>5 DEF ReceiveExchange
  <2>2. /\ UNCHANGED <<center, ret>>
        /\ \A p \in Products : current'[p] = current[p] + exchange[t].lines[p]
    BY <1>5 DEF ReceiveExchange
  <2>3. \A p \in Products :
          OfSent(exchange'[t], p) = 0 /\ OfSent(exchange[t], p) = exchange[t].lines[p]
    BY <2>1 DEF OfSent
  <2>4. \A p \in Products :
          current'[p] + center'[p] + OfReturn(ret'[t], p) + OfSent(exchange'[t], p)
            = current[p] + center[p] + OfReturn(ret[t], p) + OfSent(exchange[t], p)
    BY <1>k, <1>f, <2>2, <2>3
  <2> QED
    BY <1>u, <2>1, <2>2, <2>4 DEF Balanced
<1>6. CASE CompleteExchange(t)
  <2>1. /\ exchange[t].status = "received" /\ exchange'[t].status = "completed"
        /\ \A u \in Returns \ {t} : exchange'[u] = exchange[u]
        /\ UNCHANGED <<restock, current, center>>
    BY <1>3, <1>6 DEF CompleteExchange, stockVars
  <2>2. /\ \A u \in Returns \ {t} : ret'[u] = ret[u]
        /\ Untouched(ret'[t])
        /\ \A p \in Products : OfReturn(ret'[t], p) = OfReturn(ret[t], p)
    <3>1. CASE ret[t].status = "received_at_center"
      <4>1. AllDecided(t) /\ ret' = [ret EXCEPT ![t].status = "completed"]
        BY <1>6, <3>1 DEF CompleteExchange
      <4>2. /\ ret'[t].status = "completed"
            /\ ret'[t].lines = ret[t].lines /\ ret'[t].disp = ret[t].disp
            /\ \A u \in Returns \ {t} : ret'[u] = ret[u]
        BY <1>k, <4>1 DEF ReturnRows
      <4>3. \A p \in Products : ret[t].disp[p] = "none" => ret[t].lines[p] = 0
        BY <1>k, <4>1 DEF AllDecided, Listed
      <4>4. \A p \in Products : OfReturn(ret'[t], p) = OfReturn(ret[t], p)
        BY <3>1, <4>2, <4>3 DEF OfReturn
      <4> QED
        BY <4>2, <4>4 DEF Untouched
    <3>2. CASE ret[t].status # "received_at_center"
      BY <1>6, <1>u, <3>2 DEF CompleteExchange
    <3> QED
      BY <3>1, <3>2
  <2> QED
    BY <2>1, <2>2 DEF Balanced, OfSent
<1> QED
  BY <1>1, <1>2, <1>4, <1>5, <1>6 DEF LockedStep

\* A bound request that is not stale.
LEMMA WriteBalances ==
  ASSUME KindsInv, Seen, AllUntouched, NEW h \in Handlers, WriteStep(h), ~Stale(h)
  PROVE  \E t \in Returns : Balanced(t)
<1> USE OpsApart
<1>1. handler[h].op \in ReturnOps \cup ExchangeOps
  BY DEF WriteStep, CancelReturn, ApproveReturn, RejectReturn, ReceiveReturn,
     StoreItem, DisposeItem, CompleteReturn, ReturnBecomes, ItemBecomes, CancelExchange,
     ApproveExchange, RejectExchange, PrepareExchange, ExchangeBecomes
<1>2. PICK t \in Returns : t = handler[h].of
  <2>1. handler[h] \in ReturnRequests \cup ExchangeRequests
    BY <1>1, ReturnRequestHolds, ExchangeRequestHolds DEF KindsInv
  <2> QED
    BY <2>1 DEF ReturnRequests, ExchangeRequests
<1>3. /\ {"cancelled", "approved", "rejected", "completed"} \subseteq ReturnStatuses
      /\ ReturnFrom["cancelReturn"] = "submitted" /\ ReturnFrom["approveReturn"] = "submitted"
      /\ ReturnFrom["rejectReturn"] = "submitted"
      /\ ReturnFrom["completeReturn"] = "received_at_center"
  BY DEF ReturnStatuses, ReturnFrom
<1>4. CASE CancelReturn(h)
  BY <1>2, <1>3, <1>4, ReturnBecomesBalances DEF CancelReturn
<1>5. CASE ApproveReturn(h)
  BY <1>2, <1>3, <1>5, ReturnBecomesBalances DEF ApproveReturn
<1>6. CASE RejectReturn(h)
  BY <1>2, <1>3, <1>6, ReturnBecomesBalances DEF RejectReturn
<1>7. CASE CompleteReturn(h)
  BY <1>2, <1>3, <1>7, ReturnBecomesBalances DEF CompleteReturn
<1>8. CASE ReceiveReturn(h)
  BY <1>2, <1>8, ReceiveReturnBalances
<1>9. CASE StoreItem(h) \/ DisposeItem(h)
  BY <1>2, <1>9, ItemBalances
<1>10. CASE CancelExchange(h) \/ ApproveExchange(h) \/ RejectExchange(h) \/ PrepareExchange(h)
  BY <1>2, <1>10, ExchangeBecomesBalances
     DEF CancelExchange, ApproveExchange, RejectExchange, PrepareExchange
<1> QED
  BY <1>4, <1>5, <1>6, <1>7, <1>8, <1>9, <1>10 DEF WriteStep

\* Units change place only: UnitsInv is inductive and its step keeps the sum.
LEMMA StepKeepsUnits ==
  ASSUME TransfersInv, UnitsInv, TransfersNext, ~overwritten'
  PROVE  /\ UnitsInv'
         /\ docVars' # docVars => \A p \in Products : Everywhere(p)' = Everywhere(p)
<1>1. ~overwritten /\ (\A h \in Handlers : WriteStep(h) => ~Stale(h))
  BY DEF TransfersNext
<1>2. /\ KindsInv /\ Seen /\ AllUntouched
      /\ \A p \in Products : Countable(p)
  BY <1>1 DEF TransfersInv, UnitsInv
<1>3. /\ DocsOK /\ StockTypeOK
      /\ DocsOK' /\ StockTypeOK'
  BY <1>2, StepKinds DEF KindsInv
<1>4. CASE UNCHANGED docVars
  <2>1. \A p \in Products : Countable(p)'
    BY <1>2, <1>4 DEF docVars, Countable, Undecided, Disposed
  <2> QED
    BY <1>2, <1>4, <2>1 DEF UnitsInv, AllUntouched, docVars
<1>5. CASE \E r \in Restocks : RestockStep(r)
  <2>1. PICK r \in Restocks : RestockBalanced(r)
    BY <1>2, <1>5, RestockBalances
  <2>2. \A p \in Products : Countable(p)' /\ Everywhere(p)' = Everywhere(p)
    BY <1>2, <1>3, <2>1, RestockCounts DEF RestockBalanced
  <2> QED
    BY <1>2, <2>1, <2>2 DEF UnitsInv, AllUntouched, RestockBalanced
<1>6. ASSUME NEW t \in Returns, Balanced(t)
      PROVE  UnitsInv' /\ \A p \in Products : Everywhere(p)' = Everywhere(p)
  <2>1. \A p \in Products : Countable(p)' /\ Everywhere(p)' = Everywhere(p)
    BY <1>2, <1>3, <1>6, ReturnCounts DEF Balanced
  <2>2. AllUntouched'
    BY <1>2, <1>6 DEF AllUntouched, Balanced
  <2> QED
    BY <2>1, <2>2 DEF UnitsInv
<1>7. ASSUME NEW h \in Handlers, BindStep(h) \/ Abandon(h)
      PROVE  UNCHANGED docVars
  BY <1>2, <1>7, BindKinds DEF KindsInv, Abandon
<1>8. ASSUME NEW h \in Handlers, WriteStep(h)
      PROVE  UnitsInv' /\ \A p \in Products : Everywhere(p)' = Everywhere(p)
  BY <1>1, <1>2, <1>6, <1>8, WriteBalances
<1>9. ASSUME NEW t \in Returns, LockedStep(t)
      PROVE  UnitsInv' /\ \A p \in Products : Everywhere(p)' = Everywhere(p)
  BY <1>2, <1>6, <1>9, LockedBalances
<1> QED
  BY <1>4, <1>5, <1>7, <1>8, <1>9 DEF TransfersNext, TransfersStep

\* No document has touched anything at the start.
LEMMA InitUnits == TransfersInit => UnitsInv
<1> SUFFICES ASSUME TransfersInit PROVE UnitsInv
  OBVIOUS
<1>1. AllUntouched
  BY DEF TransfersInit, AllUntouched, Untouched
<1>2. ASSUME NEW p \in Products
      PROVE  Countable(p)
  <2>1. Sent(restock) = {} /\ Sent(exchange) = {} /\ Undecided(p) = {} /\ Disposed(p) = {}
    BY DEF TransfersInit, Sent, Undecided, Disposed
  <2> QED
    BY <2>1, TotalOfNone DEF Countable
<1> QED
  BY <1>1, <1>2 DEF UnitsInv

\* A restock, a return and an exchange move goods and neither make nor lose any,
\* for any number of documents and of requests at once, while none has written
\* over a row it did not see.
THEOREM TransferKeepsUnitsHolds == TransfersSpec => TransferKeepsUnits
<1> DEFINE Kept == docVars' # docVars /\ ~overwritten' =>
                     \A p \in Products : Everywhere(p)' = Everywhere(p)
<1>1. TransfersInit => UnitsInv
  BY InitUnits
<1>2. TransfersInv /\ UnitsInv /\ [TransfersNext]_transferVars => UnitsInv'
  <2>1. ASSUME UnitsInv, UNCHANGED transferVars
        PROVE  UnitsInv'
    <3>1. \A p \in Products : Countable(p) => Countable(p)'
      BY <2>1 DEF transferVars, docVars, Countable, Undecided, Disposed
    <3> QED
      BY <2>1, <3>1 DEF UnitsInv, AllUntouched, transferVars, docVars
  <2>2. ASSUME overwritten'
        PROVE  UnitsInv'
    BY <2>2 DEF UnitsInv
  <2> QED
    BY <2>1, <2>2, StepKeepsUnits
<1>3. TransfersInv /\ UnitsInv /\ [TransfersNext]_transferVars => [Kept]_transferVars
  BY StepKeepsUnits
<1> QED
  BY <1>1, <1>2, <1>3, TransfersInvariant, PTL DEF TransfersSpec, TransferKeepsUnits

-----------------------------------------------------------------------------
(* Reservations and transfers.                                             *)

\* Reservations stay within the shelf in every step but one: receiving a return
\* at the centre takes goods off the shelf without asking what is reserved.
\* Restocks and exchanges only add to the shelf, and what the outlet itself does
\* keeps StockSound by its own guards.
THEOREM OnlyReturnsOversell ==
  TransfersSpec =>
    [][StockSound => StockSound' \/ \E h \in Handlers : ReceiveReturn(h)]_transferVars
<1> DEFINE Sound == StockSound => StockSound' \/ \E h \in Handlers : ReceiveReturn(h)
<1>1. ASSUME KindsInv, StockSound, UNCHANGED <<current, reserved>>
      PROVE  StockSound'
  BY <1>1 DEF StockSound
<1>2. ASSUME KindsInv, StockSound, NEW lines \in Lines, UNCHANGED reserved,
             current' = [p \in Products |-> current[p] + lines[p]]
      PROVE  StockSound'
  BY <1>2, LinesAreNat DEF StockSound, KindsInv, StockTypeOK
<1>3. ASSUME KindsInv, StockSound, TransfersNext
      PROVE  StockSound' \/ \E h \in Handlers : ReceiveReturn(h)
  <2>1. CASE StockNext
    <3>1. StockInv
      BY <1>3 DEF KindsInv, StockInv
    <3>2. StockInv'
      BY <2>1, <3>1, ReserveKeepsStock, ReleaseKeepsStock, ConsumeKeepsStock, StaffKeepsStock
         DEF StockNext, OrderStockStep
    <3> QED
      BY <3>2 DEF StockInv
  <2>2. ASSUME NEW r \in Restocks, RestockStep(r)
        PROVE  StockSound'
    <3>1. CASE ReceiveRestock(r)
      <4>1. restock[r].lines \in Lines
        BY <1>3 DEF KindsInv, DocsOK, RestockRows
      <4> QED
        BY <1>2, <1>3, <3>1, <4>1 DEF ReceiveRestock
    <3>2. CASE ~ReceiveRestock(r)
      BY <1>1, <1>3, <2>2, <3>2 DEF RestockStep, CreateRestock, ApproveRestock, CancelRestock,
         RejectRestock, ShipRestock, stockVars
    <3> QED
      BY <3>1, <3>2
  <2>3. ASSUME NEW h \in Handlers, BindStep(h) \/ Abandon(h)
        PROVE  StockSound'
    BY <1>1, <1>3, <2>3, BindKinds DEF KindsInv, Abandon, stockVars
  <2>4. ASSUME NEW h \in Handlers, WriteStep(h), ~ReceiveReturn(h)
        PROVE  StockSound'
    BY <1>1, <1>3, <2>4 DEF WriteStep, CancelReturn, ApproveReturn, RejectReturn, StoreItem,
       DisposeItem, CompleteReturn, ItemBecomes, CancelExchange, ApproveExchange,
       RejectExchange, PrepareExchange, ExchangeBecomes, stockVars
  <2>5. ASSUME NEW t \in Returns, LockedStep(t)
        PROVE  StockSound'
    <3>1. CASE ReceiveExchange(t)
      <4>1. exchange[t].lines \in Lines
        BY <1>3 DEF KindsInv, DocsOK, ExchangeRows
      <4> QED
        BY <1>2, <1>3, <3>1, <4>1 DEF ReceiveExchange
    <3>2. CASE ~ReceiveExchange(t)
      BY <1>1, <1>3, <2>5, <3>2 DEF LockedStep, CreateReturn, CreateExchange, ShipExchange,
         CompleteExchange, stockVars
    <3> QED
      BY <3>1, <3>2
  <2> QED
    BY <1>3, <2>1, <2>2, <2>3, <2>4, <2>5 DEF TransfersNext, TransfersStep
<1>4. TransfersInv /\ [TransfersNext]_transferVars => [Sound]_transferVars
  BY <1>3 DEF TransfersInv
<1> QED
  BY <1>4, TransfersInvariant, PTL DEF TransfersSpec
=============================================================================
