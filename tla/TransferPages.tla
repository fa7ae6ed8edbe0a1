------------------------------ MODULE TransferPages ------------------------------
(***************************************************************************)
(* What the pages offer the outlet and the owner to do about a restock, a  *)
(* return or an exchange.  A page decides from the status it was given     *)
(* which buttons it shows; the service decides again, in other words.      *)
(* Each definition is the condition of one block of one page, for a page   *)
(* that shows the present state.                                           *)
(***************************************************************************)
EXTENDS StockTransfers

-----------------------------------------------------------------------------
(* owner/returns/show.tsx and the outlet's form for a new return.          *)

OwnerReturnReview(t) ==
  {op \in {"approveReturn", "rejectReturn"} : ret[t].status = "submitted"}

OwnerReturnReceive(t) ==
  {op \in {"receiveReturn"} : ret[t].status = "approved"}

\* An undecided line has both buttons, a decided one a switch to the other.
OwnerReturnItems(t) ==
  {offer \in {"storeItem", "disposeItem"} \X Listed(ret[t].lines) :
     /\ ret[t].status = "received_at_center"
     /\ offer[1] = "storeItem" => ret[t].disp[offer[2]] \in {"none", "disposed"}
     /\ offer[1] = "disposeItem" => ret[t].disp[offer[2]] \in {"none", "stored"}}

OwnerReturnFinish(t) ==
  /\ ret[t].status = "received_at_center"
  /\ \A p \in Listed(ret[t].lines) : ret[t].disp[p] # "none"

-----------------------------------------------------------------------------
(* owner/exchanges/show.tsx and outlet/exchanges/show.tsx.                  *)

OwnerExchangeReview(t) ==
  {op \in {"approveExchange", "rejectExchange"} : exchange[t].status = "submitted"}

\* Mutant: only an exchange that somebody marked as preparing can be sent.
OwnerExchangeShipPrepared(t) == exchange[t].status = "preparing"

OwnerExchangeShip(t) == exchange[t].status \in {"approved", "preparing"}

OwnerExchangeFinish(t) == exchange[t].status = "received"

OutletExchangeReceive(t) == exchange[t].status = "shipped"

-----------------------------------------------------------------------------
(* owner/restocks/show.tsx and outlet/restocks/show.tsx.                   *)

OwnerRestockReview(r) == restock[r].status = "requested"

OwnerRestockShip(r) == restock[r].status = "preparing"

OutletRestockCancel(r) == restock[r].status = "requested"

OutletRestockReceive(r) == restock[r].status = "shipped"

-----------------------------------------------------------------------------
(* Properties.                                                             *)

\* What the service asks, the stock figures aside, before the two operations
\* of an exchange that look at its return.
ShipAccepted(t) ==
  /\ exchange[t].status \in {"approved", "preparing"}
  /\ ret[t].status \in {"received_at_center", "completed"}

FinishAccepted(t) ==
  /\ exchange[t].status = "received"
  /\ ret[t].status = "received_at_center" => AllDecided(t)

ReturnCanMove(t) ==
  \/ OwnerReturnReview(t) \cup OwnerReturnReceive(t) # {}
  \/ OwnerReturnItems(t) # {}
  \/ OwnerReturnFinish(t)

\* An exchange whose end waits for decisions about the returned goods has them
\* on the page of its return.
ExchangeCanMove(t) ==
  \/ OwnerExchangeReview(t) # {}
  \/ OwnerExchangeShip(t) /\ ShipAccepted(t)
  \/ OutletExchangeReceive(t)
  \/ OwnerExchangeFinish(t) /\ (FinishAccepted(t) \/ OwnerReturnItems(t) # {})

RestockCanMove(r) ==
  OwnerRestockReview(r) \/ OwnerRestockShip(r) \/ OutletRestockCancel(r)
    \/ OutletRestockReceive(r)

\* No document that is under way is without a button, on some page, that the
\* service accepts: goods that left one place always have somebody who can
\* book them in or send them on.  Only a request that wrote over a row it did
\* not see can leave a dead end: a cancelled return under an approved exchange.
GoodsCanMove ==
  ~overwritten =>
  /\ \A r \in Restocks :
       restock[r].status \in {"requested", "preparing", "shipped"} => RestockCanMove(r)
  /\ \A t \in Returns :
       /\ ret[t].status \in {"submitted", "approved", "received_at_center"} =>
            ReturnCanMove(t)
       /\ exchange[t].status \in {"submitted", "approved", "preparing", "shipped", "received"}
            => ExchangeCanMove(t)
=============================================================================
