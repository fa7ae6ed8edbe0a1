----------------------------- MODULE StockTransfers -----------------------------
(***************************************************************************)
(* Goods on the move between the centre and one outlet: restock requests   *)
(* (RestockService), returns (ReturnService) and the exchanges that follow *)
(* a return (ExchangeService), next to everything else that moves the      *)
(* outlet's stock (OutletInventory).                                       *)
(*                                                                         *)
(* A restock operation reads its request again under a row lock, and so do *)
(* shipping, receiving and completing an exchange: each is one step.  The  *)
(* operations of a return, and the review of an exchange, judge the model  *)
(* that the route bound when the HTTP request came in; what they write,    *)
(* they write later, whatever has become of the row.  These are two steps, *)
(* and a handler is a request between them.                                *)
(***************************************************************************)
EXTENDS OutletInventory

CONSTANTS
  Restocks,   \* restock requests that may be made
  Returns,    \* return requests that may be made, each with its one exchange
  Handlers,   \* HTTP requests that may be under way at once
  Amounts     \* the units a form can ask for

ASSUME AmountsAssumption == Amounts \subseteq Nat

VARIABLES
  restock,    \* restock[r]: status, and the approved quantities
  ret,        \* ret[t]: status, quantities and the disposition of every line
  exchange,   \* exchange[t]: the exchange of return t, status and quantities
  handler,    \* handler[h]: the operation past its check and the model it saw
  overwritten \* history: a request has written over a row that was no longer
              \* what it saw

docVars == <<restock, ret, exchange>>
transferVars == <<stockVars, docVars, handler, overwritten>>

Lines == [Products -> Amounts \cup {0}]
NoLines == [p \in Products |-> 0]
Listed(lines) == {p \in Products : lines[p] > 0}

RestockStatuses ==
  {"none", "requested", "preparing", "shipped", "completed", "rejected", "cancelled"}
ReturnStatuses ==
  {"none", "submitted", "approved", "received_at_center", "completed", "rejected",
   "cancelled"}
ExchangeStatuses ==
  {"none", "submitted", "approved", "preparing", "shipped", "received", "completed",
   "rejected", "cancelled"}
Dispositions == {"none", "stored", "disposed"}

\* The status a bound return must show for each operation of ReturnService.
ReturnFrom ==
  [cancelReturn |-> "submitted", approveReturn |-> "submitted",
   rejectReturn |-> "submitted", receiveReturn |-> "approved",
   storeItem |-> "received_at_center", disposeItem |-> "received_at_center",
   completeReturn |-> "received_at_center"]

\* The same for the operations of ExchangeService that do not lock.
ExchangeFrom ==
  [cancelExchange |-> "submitted", approveExchange |-> "submitted",
   rejectExchange |-> "submitted", prepareExchange |-> "approved"]

Idle == [op |-> "none"]

-----------------------------------------------------------------------------
(* Restock requests: every operation locks and reads the row first.        *)

RestockMoves(r, from, to) ==
  /\ restock[r].status = from
  /\ restock' = [restock EXCEPT ![r].status = to]

CreateRestock(r) ==
  /\ RestockMoves(r, "none", "requested")
  /\ UNCHANGED <<stockVars, ret, exchange, handler>>

\* approveRequest: the centre must have the goods, and does not set them aside.
ApproveRestock(r, lines) ==
  /\ restock[r].status = "requested"
  /\ Listed(lines) # {}
  /\ \A p \in Products : center[p] >= lines[p]
  /\ restock' = [restock EXCEPT ![r] = [status |-> "preparing", lines |-> lines]]
  /\ UNCHANGED <<stockVars, ret, exchange, handler>>

CancelRestock(r) ==
  /\ RestockMoves(r, "requested", "cancelled")
  /\ UNCHANGED <<stockVars, ret, exchange, handler>>

RejectRestock(r) ==
  /\ RestockMoves(r, "requested", "rejected")
  /\ UNCHANGED <<stockVars, ret, exchange, handler>>

\* Mutant: the centre is not asked again.
ShipRestockUnchecked(r) ==
  /\ RestockMoves(r, "preparing", "shipped")
  /\ center' = [p \in Products |-> center[p] - restock[r].lines[p]]
  /\ UNCHANGED <<current, reserved, journal, held, sold, ret, exchange, handler>>

ShipRestock(r) ==
  /\ RestockMoves(r, "preparing", "shipped")
  /\ \A p \in Products : center[p] >= restock[r].lines[p]
  /\ center' = [p \in Products |-> center[p] - restock[r].lines[p]]
  /\ UNCHANGED <<current, reserved, journal, held, sold, ret, exchange, handler>>

\* confirmReceived: a completed request is answered without another effect.
ReceiveRestock(r) ==
  /\ RestockMoves(r, "shipped", "completed")
  /\ current' = [p \in Products |-> current[p] + restock[r].lines[p]]
  /\ journal' = [p \in Products |-> journal[p] + restock[r].lines[p]]
  /\ UNCHANGED <<reserved, center, held, sold, ret, exchange, handler>>

-----------------------------------------------------------------------------
(* Returns.                                                                *)

\* createRequest, under the outlet's lock: only what nobody has reserved.
CreateReturn(t, lines) ==
  /\ ret[t].status = "none"
  /\ Listed(lines) # {}
  /\ \A p \in Products : current[p] - reserved[p] >= lines[p]
  /\ ret' = [ret EXCEPT ![t].status = "submitted", ![t].lines = lines]
  /\ UNCHANGED <<stockVars, restock, exchange, handler>>

\* A bound item is refused when it already has the disposition asked for.
ItemOpen(op, t, p) ==
  /\ op = "storeItem" => p \in Listed(ret[t].lines) /\ ret[t].disp[p] # "stored"
  /\ op = "disposeItem" => p \in Listed(ret[t].lines) /\ ret[t].disp[p] # "disposed"

\* A request about a return is bound and passes its check.
BindReturn(h, op, t, p) ==
  /\ handler[h] = Idle
  /\ ret[t].status = ReturnFrom[op]
  /\ ItemOpen(op, t, p)
  /\ handler' = [handler EXCEPT ![h] = [op |-> op, of |-> t, item |-> p, seen |-> ret[t]]]
  /\ UNCHANGED <<stockVars, docVars>>

Done(h) == handler' = [handler EXCEPT ![h] = Idle]

ReturnBecomes(h, op, to) ==
  /\ handler[h].op = op
  /\ ret' = [ret EXCEPT ![handler[h].of].status = to]
  /\ Done(h)
  /\ UNCHANGED <<restock, exchange>>

CancelReturn(h) == ReturnBecomes(h, "cancelReturn", "cancelled") /\ UNCHANGED stockVars

ApproveReturn(h) == ReturnBecomes(h, "approveReturn", "approved") /\ UNCHANGED stockVars

RejectReturn(h) == ReturnBecomes(h, "rejectReturn", "rejected") /\ UNCHANGED stockVars

\* markReceivedAtCenter: the shelf must hold the goods; whether orders have
\* reserved them since is not asked.
ReceiveReturn(h) ==
  /\ ReturnBecomes(h, "receiveReturn", "received_at_center")
  /\ LET lines == ret[handler[h].of].lines IN
       /\ \A p \in Products : current[p] >= lines[p]
       /\ current' = [p \in Products |-> current[p] - lines[p]]
       /\ journal' = [p \in Products |-> journal[p] - lines[p]]
  /\ UNCHANGED <<reserved, center, held, sold>>

ItemBecomes(h, op, to) ==
  /\ handler[h].op = op
  /\ ret' = [ret EXCEPT ![handler[h].of].disp[handler[h].item] = to]
  /\ Done(h)
  /\ UNCHANGED <<restock, exchange, current, reserved, journal, held, sold>>

ItemUnits(h) == ret[handler[h].of].lines[handler[h].item]

StoreItem(h) ==
  /\ ItemBecomes(h, "storeItem", "stored")
  /\ center' = [center EXCEPT ![handler[h].item] = @ + ItemUnits(h)]

\* Mutant: goods that were stored are thrown away without leaving the centre.
DisposeKeepingStock(h) == ItemBecomes(h, "disposeItem", "disposed") /\ UNCHANGED center

\* disposeItem: goods that were stored leave the centre again.
DisposeItem(h) ==
  /\ ItemBecomes(h, "disposeItem", "disposed")
  /\ LET p == handler[h].item IN
       IF handler[h].seen.disp[p] = "stored"
         THEN /\ center[p] >= ItemUnits(h)
              /\ center' = [center EXCEPT ![p] = @ - ItemUnits(h)]
         ELSE UNCHANGED center

\* Counted in the database, not in the bound model.
AllDecided(t) == \A p \in Listed(ret[t].lines) : ret[t].disp[p] # "none"

CompleteReturn(h) ==
  /\ ReturnBecomes(h, "completeReturn", "completed")
  /\ AllDecided(handler[h].of)
  /\ UNCHANGED stockVars

-----------------------------------------------------------------------------
(* Exchanges.                                                              *)

\* createRequest locks the return: received, not exchanged before (not even by
\* an exchange that was cancelled), and never more than came back.
CreateExchange(t, lines) ==
  /\ exchange[t].status = "none"
  /\ ret[t].status = "received_at_center"
  /\ Listed(lines) # {}
  /\ \A p \in Products : lines[p] <= ret[t].lines[p]
  /\ exchange' = [exchange EXCEPT ![t] = [status |-> "submitted", lines |-> lines]]
  /\ UNCHANGED <<stockVars, restock, ret, handler>>

\* A request about an exchange is bound and passes its check.
BindExchange(h, op, t) ==
  /\ handler[h] = Idle
  /\ exchange[t].status = ExchangeFrom[op]
  /\ handler' = [handler EXCEPT ![h] = [op |-> op, of |-> t, seen |-> exchange[t]]]
  /\ UNCHANGED <<stockVars, docVars>>

ExchangeBecomes(h, op, to) ==
  /\ handler[h].op = op
  /\ exchange' = [exchange EXCEPT ![handler[h].of].status = to]
  /\ Done(h)
  /\ UNCHANGED <<stockVars, restock, ret>>

CancelExchange(h) == ExchangeBecomes(h, "cancelExchange", "cancelled")

ApproveExchange(h) == ExchangeBecomes(h, "approveExchange", "approved")

RejectExchange(h) == ExchangeBecomes(h, "rejectExchange", "rejected")

PrepareExchange(h) == ExchangeBecomes(h, "prepareExchange", "preparing")

ExchangeMoves(t, from, to) ==
  /\ exchange[t].status \in from
  /\ exchange' = [exchange EXCEPT ![t].status = to]
  /\ UNCHANGED <<restock, handler>>

\* markShipped: the return is looked at again.
ShipExchange(t) ==
  /\ ExchangeMoves(t, {"approved", "preparing"}, "shipped")
  /\ ret[t].status \in {"received_at_center", "completed"}
  /\ \A p \in Products : center[p] >= exchange[t].lines[p]
  /\ center' = [p \in Products |-> center[p] - exchange[t].lines[p]]
  /\ UNCHANGED <<current, reserved, journal, held, sold, ret>>

ReceiveExchange(t) ==
  /\ ExchangeMoves(t, {"shipped"}, "received")
  /\ current' = [p \in Products |-> current[p] + exchange[t].lines[p]]
  /\ journal' = [p \in Products |-> journal[p] + exchange[t].lines[p]]
  /\ UNCHANGED <<reserved, center, held, sold, ret>>

\* Mutant: the exchange is closed and its return left as it is.
CompleteExchangeOnly(t) ==
  /\ ExchangeMoves(t, {"received"}, "completed")
  /\ UNCHANGED <<stockVars, ret>>

\* completeExchange: a return still open is completed with it, and what is
\* undecided about its goods refuses both.
CompleteExchange(t) ==
  /\ ExchangeMoves(t, {"received"}, "completed")
  /\ IF ret[t].status = "received_at_center"
       THEN AllDecided(t) /\ ret' = [ret EXCEPT ![t].status = "completed"]
       ELSE UNCHANGED ret
  /\ UNCHANGED stockVars

-----------------------------------------------------------------------------
\* A request that throws, or whose process dies, before its transaction commits.
Abandon(h) ==
  /\ handler[h] # Idle
  /\ Done(h)
  /\ UNCHANGED <<stockVars, docVars>>

TransfersInit ==
  /\ StockInit
  /\ restock = [r \in Restocks |-> [status |-> "none", lines |-> NoLines]]
  /\ ret = [t \in Returns |-> [status |-> "none", lines |-> NoLines,
                               disp |-> [p \in Products |-> "none"]]]
  /\ exchange = [t \in Returns |-> [status |-> "none", lines |-> NoLines]]
  /\ handler = [h \in Handlers |-> Idle]
  /\ overwritten = FALSE

RestockStep(r) ==
  \/ CreateRestock(r)
  \/ \E lines \in Lines : ApproveRestock(r, lines)
  \/ CancelRestock(r)
  \/ RejectRestock(r)
  \/ ShipRestock(r)
  \/ ReceiveRestock(r)

BindStep(h) ==
  \/ \E op \in DOMAIN ReturnFrom, t \in Returns, p \in Products : BindReturn(h, op, t, p)
  \/ \E op \in DOMAIN ExchangeFrom, t \in Returns : BindExchange(h, op, t)

\* What a bound request writes.
WriteStep(h) ==
  \/ CancelReturn(h)
  \/ ApproveReturn(h)
  \/ RejectReturn(h)
  \/ ReceiveReturn(h)
  \/ StoreItem(h)
  \/ DisposeItem(h)
  \/ CompleteReturn(h)
  \/ CancelExchange(h)
  \/ ApproveExchange(h)
  \/ RejectExchange(h)
  \/ PrepareExchange(h)

LockedStep(t) ==
  \/ \E lines \in Lines : CreateReturn(t, lines)
  \/ \E lines \in Lines : CreateExchange(t, lines)
  \/ ShipExchange(t)
  \/ ReceiveExchange(t)
  \/ CompleteExchange(t)

TransfersStep ==
  \/ StockNext /\ UNCHANGED <<docVars, handler>>
  \/ \E r \in Restocks : RestockStep(r)
  \/ \E h \in Handlers : BindStep(h) \/ WriteStep(h) \/ Abandon(h)
  \/ \E t \in Returns : LockedStep(t)

\* The row that h is about is no longer as h saw it.
Stale(h) ==
  /\ handler[h] # Idle
  /\ LET q == handler[h] IN
       IF q.op \in DOMAIN ExchangeFrom
         THEN q.seen.status # exchange[q.of].status
         ELSE \/ q.seen.status # ret[q.of].status
              \/ /\ q.op \in {"storeItem", "disposeItem"}
                 /\ q.seen.disp[q.item] # ret[q.of].disp[q.item]

TransfersNext ==
  /\ TransfersStep
  /\ overwritten' = (overwritten \/ \E h \in Handlers : Stale(h) /\ WriteStep(h))

TransfersSpec == TransfersInit /\ [][TransfersNext]_transferVars

-----------------------------------------------------------------------------
(* Properties.                                                             *)

\* Units of p that have left one shelf and not reached another: sent and not
\* received, or received from an outlet and not decided about.
Sent(docs) == {d \in DOMAIN docs : docs[d].status = "shipped"}
Undecided(p) ==
  {t \in Returns : ret[t].status = "received_at_center" /\ ret[t].disp[p] = "none"}
Disposed(p) == {t \in Returns : ret[t].disp[p] = "disposed"}

Amount(docs, p) == [d \in DOMAIN docs |-> docs[d].lines[p]]

OnTheWay(p) == Total(Sent(restock), Amount(restock, p))
               + Total(Sent(exchange), Amount(exchange, p))
               + Total(Undecided(p), Amount(ret, p))

Binned(p) == Total(Disposed(p), Amount(ret, p))

Everywhere(p) == current[p] + center[p] + OnTheWay(p) + Binned(p)

\* Statuses, quantities, dispositions and requests are of their kinds, and the
\* stock figures stay natural numbers under transfers too.
TransfersTypeOK ==
  /\ StockTypeOK
  /\ restock \in [Restocks -> [status : RestockStatuses, lines : Lines]]
  /\ ret \in [Returns -> [status : ReturnStatuses, lines : Lines,
                          disp : [Products -> Dispositions]]]
  /\ exchange \in [Returns -> [status : ExchangeStatuses, lines : Lines]]
  /\ \A h \in Handlers : handler[h].op \in
       {"none"} \cup DOMAIN ReturnFrom \cup DOMAIN ExchangeFrom

\* A restock, a return and an exchange move goods and neither make nor lose any,
\* so long as no request has written over a row it did not see: what is on both
\* shelves, under way and thrown away is the same before and after each step
\* of a document, two requests at once and every order and count included.
TransferKeepsUnits ==
  [][docVars' # docVars /\ ~overwritten' =>
       \A p \in Products : Everywhere(p)' = Everywhere(p)]_transferVars

\* Replacement goods are sent only for goods that came back, and an exchange is
\* closed only with its return, every line of it decided; again so long as
\* no request has written over a row it did not see.
ExchangeFollowsReturn ==
  ~overwritten => \A t \in Returns :
    /\ exchange[t].status \in {"shipped", "received"} =>
         ret[t].status \in {"received_at_center", "completed"}
    /\ exchange[t].status = "completed" => ret[t].status = "completed" /\ AllDecided(t)
=============================================================================
