-------------------------------- MODULE Refunds --------------------------------
(***************************************************************************)
(* What becomes of a refund obligation once the payment side owes it:      *)
(* where the money is to go, the transfer the owner makes by hand, and the *)
(* ways back (RefundService, RefundObligationService, and the pages of the *)
(* customer and the owner).                                                *)
(*                                                                         *)
(* Every operation of RefundService locks the outlet and the order, so it  *)
(* is one step.  It also writes orders.payment_status, which the payment   *)
(* events keep writing; the refund itself is the obligation's row.         *)
(***************************************************************************)
EXTENDS CanonicalPayment

CONSTANTS
  Destinations,   \* the accounts a transfer can be sent to
  NoDestination   \* refund_obligations.destination_type is null

ASSUME DestinationAssumption == NoDestination \notin Destinations

VARIABLES
  guest,          \* the order's customer has no user
  refund,         \* refund_obligations.status, "none" without a row
  destination,    \* the destination columns of refund_obligations
  validity,       \* orders.refund_destination_status
  sent            \* history: the transfers made for an attempt

refundVars == <<guest, refund, destination, validity, sent>>
allVars == <<paymentVars, refundVars>>

Obligations == Attempts \X Reasons

\* Mutant: the obligation of the latest attempt, whatever its reason.
anyObligation(o) == o \in owed /\ \A p \in owed : p[1] <= o[1]

\* canonicalObligation, and selectedRefundObligation for the pages: of the
\* reason kept in orders.refund_reason, which only request() writes.
canonicalObligation(o) ==
  /\ o \in owed /\ o[2] = "order_ended"
  /\ \A p \in owed : p[2] = "order_ended" => p[1] <= o[1]

\* The order's side of an operation: nothing but its payment status.
SetPayment(p) ==
  /\ payment' = p
  /\ UNCHANGED <<status, claimant, attemptVars, processVars, owed, said, historyVars, guest>>

-----------------------------------------------------------------------------
(* RefundObligationService::transition: a step that the table does not      *)
(* list returns false, and writes nothing.  rejected and refused are both   *)
(* its rejected: the first is for a destination, the second is final.       *)

AllowedTransitions ==
  [s \in {"none", "pending", "in_progress", "rejected", "refused", "needs_review", "completed"} |->
     CASE s = "pending" -> {"in_progress", "rejected", "needs_review"}
       [] s = "in_progress" -> {"completed", "needs_review"}
       [] s \in {"rejected", "refused"} -> {"pending", "needs_review"}
       [] s = "needs_review" -> {"pending", "in_progress", "rejected"}
       [] s \in {"none", "completed"} -> {}]

Transition(o, to) ==
  refund' = IF to \in AllowedTransitions[refund[o]] THEN [refund EXCEPT ![o] = to] ELSE refund

-----------------------------------------------------------------------------
(* RefundService.                                                          *)

\* Mutant: the state of the obligation is not looked at.
CanSubmitAnytime(o) == refund[o] = "rejected" \/ validity \in {"missing", "valid"}

\* A rejection for the destination reopens it; otherwise the order's own mark
\* must not be invalid.
CanSubmit(o) ==
  \/ refund[o] = "rejected"
  \/ refund[o] = "pending" /\ validity \in {"missing", "valid"}

\* Mutant: the destination is not looked at.
CanStartBlind(o) == refund[o] = "pending"

\* Mutant: the order's mark stands for the obligation's destination.
CanStartByMark(o) == refund[o] = "pending" /\ validity = "valid"

CanStart(o) == refund[o] = "pending" /\ destination[o] # NoDestination

CanComplete(o) == refund[o] = "in_progress" /\ destination[o] # NoDestination

\* By the customer, or by the owner for a guest.
submitDestination(o, d) ==
  /\ canonicalObligation(o) /\ CanSubmit(o)
  /\ destination' = [destination EXCEPT ![o] = d]
  /\ validity' = "valid"
  /\ IF refund[o] = "rejected" THEN Transition(o, "pending") /\ SetPayment("refund_pending")
     ELSE UNCHANGED <<paymentVars, guest, refund>>
  /\ UNCHANGED sent

start(o) ==
  /\ canonicalObligation(o) /\ CanStart(o)
  /\ refund' = [refund EXCEPT ![o] = "in_progress"]
  /\ SetPayment("refund_in_progress")
  /\ UNCHANGED <<destination, validity, sent>>

\* as: rejected for the destination, or refused for good.
reject(o, as) ==
  /\ canonicalObligation(o)
  /\ refund[o] = "pending" /\ destination[o] # NoDestination
  /\ refund' = [refund EXCEPT ![o] = as]
  /\ validity' = IF as = "rejected" THEN "invalid" ELSE validity
  /\ SetPayment("refund_rejected")
  /\ UNCHANGED <<destination, sent>>

\* What the transition returns is not looked at, and the table has no way back
\* from in_progress: only the order is written.
rollback(o, retry) ==
  /\ canonicalObligation(o) /\ refund[o] = "in_progress"
  /\ Transition(o, "pending")
  /\ validity' = IF retry THEN "valid" ELSE "invalid"
  /\ SetPayment("refund_pending")
  /\ UNCHANGED <<destination, sent>>

\* The owner has made the transfer, and uploads the proof.
complete(o) ==
  /\ canonicalObligation(o) /\ CanComplete(o)
  /\ refund' = [refund EXCEPT ![o] = "completed"]
  /\ sent' = [sent EXCEPT ![o[1]] = @ + 1]
  /\ SetPayment("refunded")
  /\ UNCHANGED <<destination, validity>>

\* PaymentRecoveryController, on any obligation: needs_review, or pending again.
Recovery(o, to) ==
  /\ o \in owed
  /\ Transition(o, to)
  /\ UNCHANGED <<paymentVars, guest, destination, validity, sent>>

-----------------------------------------------------------------------------
(* What the pages offer.                                                   *)

\* forCustomer and forOwner: what they tell the pages, of the obligation alone.
can_edit_destination(o) == refund[o] = "pending"
can_resubmit(o) == refund[o] = "rejected"
can_enter_destination(o) == guest /\ refund[o] = "pending" /\ destination[o] = NoDestination
can_start(o) == refund[o] = "pending" /\ destination[o] # NoDestination
can_complete(o) == refund[o] = "in_progress"

\* refund-status-card: the form of a registered customer.
CardOffersDestination(o) ==
  ~guest /\ \/ refund[o] = "pending" /\ destination[o] = NoDestination
            \/ can_edit_destination(o) \/ can_resubmit(o)

\* refund-tab: the owner's buttons towards the transfer.
TabOffers(o) ==
  {s \in {"destination", "start", "complete"} :
     CASE s = "destination" -> can_enter_destination(o)
       [] s = "start" -> can_start(o)
       [] s = "complete" -> can_complete(o)}

-----------------------------------------------------------------------------
(* The system.                                                             *)

RefundsInit ==
  /\ PaymentInit
  /\ guest \in BOOLEAN
  /\ refund = [o \in Obligations |-> "none"]
  /\ destination = [o \in Obligations |-> NoDestination]
  /\ validity = "missing"
  /\ sent = [a \in Attempts |-> 0]

\* A payment event, and createForAttempt for what it leaves owed.  request()
\* also marks the order's destination as missing.
PaymentStep ==
  /\ PaymentNext
  /\ refund' = [o \in Obligations |-> IF o \in owed' \ owed THEN "pending" ELSE refund[o]]
  /\ validity' = IF \E o \in owed' \ owed : o[2] = "order_ended" THEN "missing" ELSE validity
  /\ UNCHANGED <<guest, destination, sent>>

RefundStep(o) ==
  \/ \E d \in Destinations : submitDestination(o, d)
  \/ start(o) \/ complete(o)
  \/ \E as \in {"rejected", "refused"} : reject(o, as)
  \/ \E retry \in BOOLEAN : rollback(o, retry)
  \/ \E to \in {"needs_review", "pending"} : Recovery(o, to)

RefundsNext == PaymentStep \/ \E o \in Obligations : RefundStep(o)

RefundsSpec == RefundsInit /\ [][RefundsNext]_allVars
FairRefundsSpec == RefundsSpec /\ PaymentFairness

-----------------------------------------------------------------------------
(* Properties.                                                             *)

\* Types; an obligation has a state exactly while it is owed, only the one the
\* pages show can have a destination, and a refund beyond the queue has one.
RefundsTypeOK ==
  /\ guest \in BOOLEAN
  /\ refund \in [Obligations -> DOMAIN AllowedTransitions]
  /\ destination \in [Obligations -> Destinations \cup {NoDestination}]
  /\ validity \in {"missing", "valid", "invalid"}
  /\ sent \in [Attempts -> Nat]
  /\ \A o \in Obligations :
       /\ refund[o] # "none" <=> o \in owed
       /\ destination[o] # NoDestination => o[2] = "order_ended"
       /\ refund[o] \in {"in_progress", "rejected", "refused", "completed"} =>
            destination[o] # NoDestination

\* However often a refund is started, taken back, reviewed and recovered, and
\* whatever the gateway repeats meanwhile, the money of an attempt goes back at
\* most once, and only for an attempt the gateway was paid on, of a dead order.
MoneyReturnsOnce ==
  \A a \in Attempts :
    /\ sent[a] <= 1
    /\ sent[a] = 1 => a \in verified /\ status \in Dead

\* The destination the owner reads when the transfer begins is the one that is
\* on record when the proof is uploaded, and afterwards.
TransferTargetStands ==
  [][\A o \in Obligations :
       refund[o] \in {"in_progress", "completed"} => destination'[o] = destination[o]]_allVars

\* A refund in the queue, in progress, or rejected for the destination of a
\* registered customer can move on towards the transfer: some page offers a
\* step that the service accepts.
RefundCanMove ==
  \A o \in Obligations :
    /\ canonicalObligation(o)
    /\ refund[o] \in {"pending", "in_progress"} \/ (refund[o] = "rejected" /\ ~guest)
    => \/ CanSubmit(o) /\ (CardOffersDestination(o) \/ "destination" \in TabOffers(o))
       \/ CanStart(o) /\ "start" \in TabOffers(o)
       \/ CanComplete(o) /\ "complete" \in TabOffers(o)
=============================================================================
