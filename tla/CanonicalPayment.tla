---------------------------- MODULE CanonicalPayment ----------------------------
(***************************************************************************)
(* The payment attempts of one order: how DokuService opens them at the    *)
(* gateway, asks after the ones it lost sight of and gives up on them, and *)
(* how CanonicalPaymentTransitionService turns what the gateway says into  *)
(* the order's payment status, its place in the queue and refund           *)
(* obligations.                                                            *)
(*                                                                         *)
(* A call to the gateway is never made inside a transaction, so opening an *)
(* attempt and asking after one are several steps.  The gateway repeats    *)
(* and reorders its notifications.  The rest of the system moves the order *)
(* along OrderStatusGraph meanwhile.                                       *)
(***************************************************************************)
EXTENDS Naturals, Sequences, FiniteSets, OrderStatusGraph

CONSTANTS
  MaxAttempts,    \* order.max_payment_attempts
  MaxInquiries,   \* the reconciliations of one attempt, 5 in the code
  Outcomes,       \* what the gateway may decide: a subset of SUCCESS, FAILED, EXPIRED
  Moves           \* bound: the statuses the rest of the system moves the order to

ASSUME AttemptsAssumption == MaxAttempts \in Nat \ {0} /\ MaxInquiries \in Nat
ASSUME OutcomesAssumption == Outcomes \subseteq {"SUCCESS", "FAILED", "EXPIRED"}
ASSUME MovesAssumption == Moves \subseteq Statuses

Attempts == 1..MaxAttempts
NoAttempt == 0

VARIABLES
  status,       \* orders.status
  payment,      \* orders.payment_status; null and pending are one
  claimant,     \* orders.fulfilment_claimed_by
  creation,     \* payment_attempts.creation_state, "absent" without a row
  settlement,   \* payment_attempts.settlement_status
  verified,     \* the attempts with verification_status = verified
  dated,        \* the attempts with a reconciliation_deadline_at
  tries,        \* payment_attempts.metadata.reconciliation_attempts
  owed,         \* refund_obligations: <<attempt, reason>>
  call,         \* the request that opens the attempt at the gateway
  inquiry,      \* the request that asks after the attempt, then its answer
  resetting,    \* a pay request is about to write the payment status
  said,         \* everything the gateway has decided on the attempt, in order
  reviewed,     \* history: the attempts once settled without being verified
  regressed,    \* history: the attempts whose settlement was paid and overwritten
  unpaid        \* history: pay reset the payment status of a paid order

orderVars == <<status, payment, claimant>>
attemptVars == <<creation, settlement, verified, dated, tries>>
processVars == <<call, inquiry, resetting>>
historyVars == <<reviewed, regressed, unpaid>>
paymentVars == <<orderVars, attemptVars, processVars, owed, said, historyVars>>

Unsettled == {"pending", "unknown"}
Statements == {"PENDING", "UNKNOWN", "FAILED", "EXPIRED", "SUCCESS"}
Reasons == {"order_ended", "late_payment", "duplicate_paid_attempt"}

Placed == {a \in Attempts : creation[a] # "absent"}
IsLatest(a, S) == a \in S /\ \A b \in S : b <= a

\* preparePaymentAttemptLocked: an attempt that may still bring money.
Active ==
  {a \in Placed : creation[a] \in {"initiated", "pending", "created", "unknown"}
                  \/ settlement[a] \in Unsettled}

\* The statuses the gateway has reported on an attempt so far; it starts pending.
SaidOf(a) == {said[a][i] : i \in DOMAIN said[a]}

-----------------------------------------------------------------------------
(* CanonicalPaymentTransitionService::apply                                 *)

settlementRank ==
  [s \in {"pending", "unknown", "failed", "expired", "paid"} |->
     CASE s = "pending" -> 10 [] s = "unknown" -> 20 [] s = "failed" -> 30
       [] s = "expired" -> 40 [] s = "paid" -> 50]

Target ==
  [s \in Statements |->
     CASE s = "PENDING" -> "pending" [] s = "UNKNOWN" -> "unknown" [] s = "FAILED" -> "failed"
       [] s = "EXPIRED" -> "expired" [] s = "SUCCESS" -> "paid"]

\* A settlement only rises in rank, and paid is the highest.
SettledBy(a, s) ==
  IF settlementRank[Target[s]] > settlementRank[settlement[a]] THEN Target[s] ELSE settlement[a]

\* matches: the reported amount is the one of the attempt.
VerifiedBy(a, s, matches) == IF s = "SUCCESS" /\ matches THEN verified \cup {a} ELSE verified

Owe(a, reason) ==
  /\ owed' = owed \cup {<<a, reason>>}
  /\ UNCHANGED <<status, claimant>>

\* completeFromPayment throws, and undoes the whole event, for any other status.
CompleteFromPayment ==
  /\ status \in {"pending_confirmation", "awaiting_preparation", "confirmed", "preparing",
                 "ready_for_pickup", "completed"}
  /\ status' = "completed"

\* claimOrRefund once the order left the queue, or died.
ClaimOrRefundLater(a) ==
  \/ claimant = a /\ CompleteFromPayment /\ UNCHANGED <<claimant, owed>>
  \/ claimant # a /\ status \in Dead /\ Owe(a, "late_payment")
  \/ claimant \notin {a, NoAttempt} /\ status \notin Dead /\ Owe(a, "duplicate_paid_attempt")
  \/ /\ claimant = NoAttempt /\ status \notin Dead
     /\ CompleteFromPayment /\ claimant' = a /\ UNCHANGED owed

\* Mutant: a payment reported again counts as another payment.
ClaimOrRefundReplays(a) ==
  \/ /\ status = "pending_confirmation"
     /\ status' = "awaiting_preparation" /\ UNCHANGED <<claimant, owed>>
  \/ status = "awaiting_preparation" /\ Owe(a, "duplicate_paid_attempt")
  \/ status \notin {"pending_confirmation", "awaiting_preparation"} /\ ClaimOrRefundLater(a)

\* Mutant: any success for a queued order is taken for a repeated one.
ClaimOrRefundNothing(a) ==
  \/ /\ status = "pending_confirmation"
     /\ status' = "awaiting_preparation" /\ UNCHANGED <<claimant, owed>>
  \/ status = "awaiting_preparation" /\ UNCHANGED <<status, claimant, owed>>
  \/ status \notin {"pending_confirmation", "awaiting_preparation"} /\ ClaimOrRefundLater(a)

\* claimOrRefund.  For a queued order it matters whether the attempt was paid
\* before this statement.
ClaimOrRefund(a) ==
  \/ /\ status = "pending_confirmation"
     /\ status' = "awaiting_preparation" /\ UNCHANGED <<claimant, owed>>
  \/ /\ status = "awaiting_preparation"
     /\ IF settlement[a] = "paid" THEN UNCHANGED <<status, claimant, owed>>
        ELSE Owe(a, "duplicate_paid_attempt")
  \/ status \notin {"pending_confirmation", "awaiting_preparation"} /\ ClaimOrRefundLater(a)

\* What a statement does to the order.  Any statement on an attempt that is
\* already paid comes here too, not just a success.
Fulfil(a, s, matches) ==
  IF /\ SettledBy(a, s) = "paid"
     /\ a \in VerifiedBy(a, s, matches) \/ status \in Dead
  THEN ClaimOrRefund(a)
  ELSE UNCHANGED <<status, claimant, owed>>

\* Mutant: a settled attempt counts without being verified.
ProjectedUnverified(c, s, v) ==
  LET rows == {a \in Attempts : c[a] # "absent"} IN
  IF \E a \in rows : s[a] = "paid" THEN "paid"
  ELSE IF \E a \in rows : s[a] \in Unsettled \/ c[a] \in {"initiated", "created"} THEN "pending"
  ELSE "failed"

\* OrderPaymentProjectionService::recompute over creation states c,
\* settlements s and verified attempts v.
Projected(c, s, v) ==
  LET rows == {a \in Attempts : c[a] # "absent"} IN
  IF \E a \in rows : s[a] = "paid" /\ a \in v THEN "paid"
  ELSE IF \E a \in rows : s[a] \in Unsettled \/ c[a] \in {"initiated", "created"} THEN "pending"
  ELSE IF \A a \in rows : s[a] = "expired" THEN "expired"
  ELSE "failed"

\* A write to the settlement, with what the history keeps of it.
Settle(a, s, v) ==
  /\ settlement' = [settlement EXCEPT ![a] = s]
  /\ verified' = v
  /\ reviewed' = IF s = "paid" /\ a \notin v THEN reviewed \cup {a} ELSE reviewed
  /\ regressed' = IF settlement[a] = "paid" /\ s # "paid" THEN regressed \cup {a} ELSE regressed

\* Mutant: the order's payment status is not brought up to date.
applyUnprojected(a, s, matches) ==
  /\ Settle(a, SettledBy(a, s), VerifiedBy(a, s, matches))
  /\ Fulfil(a, s, matches)
  /\ UNCHANGED payment

apply(a, s, matches) ==
  /\ Settle(a, SettledBy(a, s), VerifiedBy(a, s, matches))
  /\ Fulfil(a, s, matches)
  /\ payment' = Projected(creation, settlement', verified')

-----------------------------------------------------------------------------
(* The gateway (external).                                                 *)

\* The request reaches the gateway, maybe after the caller stopped waiting.
GatewayOpens(a) ==
  /\ call[a] \in {"out", "late", "answered"}
  /\ said[a] = <<>>
  /\ said' = [said EXCEPT ![a] = <<"PENDING">>]
  /\ UNCHANGED <<orderVars, attemptVars, processVars, owed, historyVars>>

\* A customer may still pay an invoice that failed or ran out.
GatewayDecides(a) ==
  /\ said[a] # <<>>
  /\ \E s \in Outcomes :
       /\ s # said[a][Len(said[a])]
       /\ said[a][Len(said[a])] = "PENDING" \/ s = "SUCCESS"
       /\ said' = [said EXCEPT ![a] = Append(@, s)]
  /\ UNCHANGED <<orderVars, attemptVars, processVars, owed, historyVars>>

-----------------------------------------------------------------------------
(* What the gateway says comes in.                                         *)

\* handleNormalizedWebhook: any statement, any number of times, in any order.
\* One that was received before the last one applied has no effect.
Webhook(a, s, matches) ==
  /\ s \in SaidOf(a)
  /\ apply(a, s, matches)
  /\ UNCHANGED <<creation, dated, tries, processVars, said, unpaid>>

\* syncStatusFromDoku, from the answer on.  A 404 is read as UNKNOWN.  The
\* event may be ignored because a later one came first; the creation state is
\* closed all the same.
SyncStatus(a, s, matches) ==
  /\ a \in Placed
  /\ s \in IF said[a] = <<>> THEN {"UNKNOWN"} ELSE SaidOf(a)
  /\ \/ apply(a, s, matches)
     \/ UNCHANGED <<orderVars, settlement, verified, owed, reviewed, regressed>>
  /\ creation' = IF creation[a] = "created" /\ settlement'[a] \in {"failed", "expired"}
                 THEN [creation EXCEPT ![a] = "failed"] ELSE creation
  /\ UNCHANGED <<dated, tries, call, inquiry, said, unpaid>>

PollStatus(a, s, matches) == SyncStatus(a, s, matches) /\ UNCHANGED resetting

-----------------------------------------------------------------------------
(* The customer's pay request (OrderController::pay).                      *)

\* The attempt whose status a retry checks first.
PriorAttempts ==
  LET prior == {a \in Placed : creation[a] \in {"failed", "unknown"}} IN
  IF prior # {} THEN prior ELSE Active

CanRetry ==
  /\ ~resetting
  /\ status \notin Finalized
  /\ payment \in {"failed", "expired"}

\* A retry syncs the prior attempt, and resets the payment status when that is
\* still not paid.
PaySyncs(s, matches) ==
  /\ CanRetry
  /\ \E a \in Attempts : IsLatest(a, PriorAttempts) /\ SyncStatus(a, s, matches)
  /\ resetting' = (payment' # "paid" /\ s \in {"FAILED", "EXPIRED"})

\* Without an answer the sync returns the order's own payment status.
PaySyncUnanswered ==
  /\ CanRetry
  /\ resetting' = TRUE
  /\ UNCHANGED <<orderVars, attemptVars, call, inquiry, owed, said, historyVars>>

\* The payment status is written without a lock and without a second look.
PayResets ==
  /\ resetting
  /\ payment' = "pending"
  /\ unpaid' = (unpaid \/ payment = "paid")
  /\ resetting' = FALSE
  /\ UNCHANGED <<status, claimant, attemptVars, call, inquiry, owed, said, reviewed, regressed>>

\* preparePaymentAttempt, at checkout and by pay: a new attempt when no other
\* can still bring money.  What pay saw of the order before may be out of date.
PreparePayment ==
  /\ Active = {}
  /\ Cardinality(Placed) < MaxAttempts
  /\ creation' = [creation EXCEPT ![Cardinality(Placed) + 1] = "initiated"]
  /\ UNCHANGED <<orderVars, settlement, verified, dated, tries, processVars, owed, said,
                 historyVars>>

-----------------------------------------------------------------------------
(* createPayment: one request to the gateway under a lease.                *)

StartCall(a) ==
  /\ creation[a] = "initiated"
  /\ call[a] # "out"
  /\ call' = [call EXCEPT ![a] = "out"]
  /\ UNCHANGED <<orderVars, attemptVars, inquiry, resetting, owed, said, historyVars>>

\* Mutant: the lapsed lease is taken off and the attempt can be opened again.
ExpireLeaseOnly(a) ==
  /\ creation[a] = "initiated"
  /\ call[a] = "out"
  /\ call' = [call EXCEPT ![a] = "late"]
  /\ UNCHANGED <<orderVars, attemptVars, inquiry, resetting, owed, said, historyVars>>

\* The lease ran out before an answer: the attempt is unknown from now on, and
\* the answer will find its token gone.
ExpireLease(a) ==
  /\ creation[a] = "initiated"
  /\ call[a] = "out"
  /\ call' = [call EXCEPT ![a] = "late"]
  /\ creation' = [creation EXCEPT ![a] = "unknown"]
  /\ UNCHANGED <<orderVars, settlement, verified, dated, tries, inquiry, resetting, owed, said,
                 historyVars>>

\* A payment page.  Without the lease the attempt becomes unknown, whatever it
\* has become in the meantime.
CallSucceeds(a) ==
  /\ call[a] \in {"out", "late"}
  /\ said[a] # <<>>
  /\ creation' = [creation EXCEPT ![a] = IF call[a] = "out" THEN "created" ELSE "unknown"]
  /\ call' = [call EXCEPT ![a] = "answered"]
  /\ UNCHANGED <<orderVars, settlement, verified, dated, tries, inquiry, resetting, owed, said,
                 historyVars>>

\* Any 4xx but 408 and 429: persistCreationOutcome with failed.  It releases the
\* reservation too (PaymentCreationRefused of OrderLifecycle).
CallRefused(a) ==
  /\ call[a] \in {"out", "late"}
  /\ said[a] = <<>>
  /\ call' = [call EXCEPT ![a] = "refused"]
  /\ creation' = IF call[a] = "out" THEN [creation EXCEPT ![a] = "failed"] ELSE creation
  /\ UNCHANGED <<orderVars, settlement, verified, dated, tries, inquiry, resetting, owed, said,
                 historyVars>>

\* A timeout, a 5xx or an answer without a page: persistCreationOutcome with
\* unknown.
CallInconclusive(a) ==
  /\ call[a] \in {"out", "late"}
  /\ call' = [call EXCEPT ![a] = "answered"]
  /\ creation' = IF call[a] = "out" THEN [creation EXCEPT ![a] = "unknown"] ELSE creation
  /\ dated' = IF call[a] = "out" THEN dated \cup {a} ELSE dated
  /\ UNCHANGED <<orderVars, settlement, verified, tries, inquiry, resetting, owed, said,
                 historyVars>>

-----------------------------------------------------------------------------
(* reconcilePaymentAttempt: asking after an attempt, under a lease.         *)

\* Mutant: an attempt without a deadline gets none.
ClaimInquiryUndated(a) ==
  /\ creation[a] \in {"pending", "unknown"}
  /\ settlement[a] \in Unsettled
  /\ tries[a] < MaxInquiries
  /\ inquiry' = [inquiry EXCEPT ![a] = "asked"]
  /\ tries' = [tries EXCEPT ![a] = @ + 1]
  /\ UNCHANGED <<orderVars, creation, settlement, verified, dated, call, resetting, owed, said,
                 historyVars>>

\* Its callers come with a pending or unknown attempt.  A lease that ran out
\* is taken over, and the answer to it is void.
ClaimInquiry(a) ==
  /\ creation[a] \in {"pending", "unknown"}
  /\ settlement[a] \in Unsettled
  /\ tries[a] < MaxInquiries
  /\ inquiry' = [inquiry EXCEPT ![a] = "asked"]
  /\ tries' = [tries EXCEPT ![a] = @ + 1]
  /\ dated' = dated \cup {a}
  /\ UNCHANGED <<orderVars, creation, settlement, verified, call, resetting, owed, said,
                 historyVars>>

\* LOST: no connection, an error, or a status the code does not know.
AnswerInquiry(a) ==
  /\ inquiry[a] = "asked"
  /\ \E answer \in {"LOST", IF said[a] = <<>> THEN "NOT_FOUND" ELSE said[a][Len(said[a])]} :
       inquiry' = [inquiry EXCEPT ![a] = answer]
  /\ UNCHANGED <<orderVars, attemptVars, call, resetting, owed, said, historyVars>>

EndInquiry(a) ==
  /\ inquiry' = [inquiry EXCEPT ![a] = "none"]
  /\ UNCHANGED <<dated, tries, call, resetting, said, unpaid>>

InquirySucceeded(a, matches) ==
  /\ inquiry[a] = "SUCCESS"
  /\ apply(a, "SUCCESS", matches)
  /\ creation' = [creation EXCEPT ![a] = "created"]
  /\ EndInquiry(a)

\* The event is applied first, then the settlement is written whatever it is.
InquiryFailed(a) ==
  /\ inquiry[a] \in {"FAILED", "EXPIRED"}
  /\ Settle(a, Target[inquiry[a]], verified)
  /\ Fulfil(a, inquiry[a], FALSE)
  /\ creation' = [creation EXCEPT ![a] = "failed"]
  /\ payment' = Projected(creation', settlement', verified)
  /\ EndInquiry(a)

\* persistReconciliationResult
InquiryPending(a) ==
  /\ inquiry[a] = "PENDING"
  /\ IF creation[a] \in {"pending", "unknown"} /\ settlement[a] \in Unsettled
     THEN /\ creation' = [creation EXCEPT ![a] = "pending"]
          /\ settlement' = [settlement EXCEPT ![a] = "pending"]
          /\ payment' = Projected(creation', settlement', verified)
     ELSE UNCHANGED <<creation, settlement, payment>>
  /\ UNCHANGED <<status, claimant, verified, owed, reviewed, regressed>>
  /\ EndInquiry(a)

\* recordReconciliationFailure; a 404 keeps the creation state.
InquiryInconclusive(a) ==
  /\ inquiry[a] \in {"LOST", "NOT_FOUND"}
  /\ creation' = IF /\ inquiry[a] = "LOST"
                    /\ creation[a] \in {"pending", "unknown"}
                    /\ settlement[a] \in Unsettled
                 THEN [creation EXCEPT ![a] = "unknown"] ELSE creation
  /\ UNCHANGED <<orderVars, settlement, verified, owed, reviewed, regressed>>
  /\ EndInquiry(a)

-----------------------------------------------------------------------------
(* The order ends, and the rest of the system moves it.                    *)

\* Mutant: a paid order dies and nobody is asked to pay back.
DieQuietly(to) == status' = to /\ UNCHANGED <<payment, owed>>

\* transition() to a dead status.  RefundService::request takes the latest
\* verified attempt.
Die(to) ==
  /\ status' = to
  /\ \/ payment # "paid" /\ UNCHANGED <<payment, owed>>
     \/ /\ payment = "paid"
        /\ payment' = "refund_pending"
        /\ \E a \in Attempts :
             IsLatest(a, verified) /\ owed' = owed \cup {<<a, "order_ended">>}

\* expireUnknownAttemptIfDue: the deadline of an unknown attempt is over.  If
\* the order cannot expire any more nothing is written at all.
ExpireUnknown(a) ==
  /\ a \in dated
  /\ creation[a] = "unknown"
  /\ creation' = [creation EXCEPT ![a] = "failed"]
  /\ Settle(a, "failed", verified)
  /\ IF status \in Dead \cup {"completed"} THEN UNCHANGED <<status, payment, owed>>
     ELSE "expired" \in TRANSITIONS[status] /\ Die("expired")
  /\ inquiry' = [inquiry EXCEPT ![a] = "none"]
  /\ UNCHANGED <<claimant, dated, tries, call, resetting, said, unpaid>>

\* Every other caller of transition(): only a payment queues an order.
OrderMoves(to) ==
  /\ to \in (TRANSITIONS[status] \cap Moves) \ {"awaiting_preparation"}
  /\ to \in NeedsPayment => payment = "paid"
  /\ IF to \in Dead THEN Die(to) ELSE status' = to /\ UNCHANGED <<payment, owed>>
  /\ UNCHANGED <<claimant, attemptVars, processVars, said, historyVars>>

\* completePickup, and a failed delivery that is tried again.
OrderJumps ==
  /\ \/ status = "ready_for_pickup" /\ payment = "paid" /\ status' = "completed"
     \/ status = "failed_delivery" /\ status' = "ready_for_pickup"
  /\ UNCHANGED <<payment, claimant, attemptVars, processVars, owed, said, historyVars>>

-----------------------------------------------------------------------------
(* The system.                                                             *)

PaymentInit ==
  /\ status = "pending_confirmation"
  /\ payment = "pending"
  /\ claimant = NoAttempt
  /\ creation = [a \in Attempts |-> "absent"]
  /\ settlement = [a \in Attempts |-> "pending"]
  /\ verified = {} /\ dated = {}
  /\ tries = [a \in Attempts |-> 0]
  /\ owed = {}
  /\ call = [a \in Attempts |-> "none"]
  /\ inquiry = [a \in Attempts |-> "none"]
  /\ resetting = FALSE
  /\ said = [a \in Attempts |-> <<>>]
  /\ reviewed = {} /\ regressed = {} /\ unpaid = FALSE

Gateway(a) == GatewayOpens(a) \/ GatewayDecides(a)

Creation(a) ==
  \/ StartCall(a) \/ ExpireLease(a)
  \/ CallSucceeds(a) \/ CallRefused(a) \/ CallInconclusive(a)

Reconciliation(a) ==
  \/ ClaimInquiry(a) \/ AnswerInquiry(a)
  \/ \E matches \in BOOLEAN : InquirySucceeded(a, matches)
  \/ InquiryFailed(a) \/ InquiryPending(a) \/ InquiryInconclusive(a)
  \/ ExpireUnknown(a)

Reports(a) ==
  \E s \in Statements, matches \in BOOLEAN :
    /\ matches => s = "SUCCESS"
    /\ Webhook(a, s, matches) \/ PollStatus(a, s, matches)

Pay ==
  \/ PaySyncUnanswered \/ PayResets \/ PreparePayment
  \/ \E s \in Statements, matches \in BOOLEAN : PaySyncs(s, matches)

PaymentNext ==
  \/ \E a \in Attempts : Gateway(a) \/ Creation(a) \/ Reconciliation(a) \/ Reports(a)
  \/ Pay
  \/ \E to \in Statuses : OrderMoves(to)
  \/ OrderJumps

\* payments:reconcile-doku and payments:expire-unknown run every minute.
PaymentFairness ==
  \A a \in Attempts : WF_paymentVars(ClaimInquiry(a)) /\ WF_paymentVars(ExpireUnknown(a))

PaymentSpec == PaymentInit /\ [][PaymentNext]_paymentVars
FairPaymentSpec == PaymentSpec /\ PaymentFairness

-----------------------------------------------------------------------------
(* Properties.                                                             *)

\* Types, and what no attempt can have before it exists.
PaymentTypeOK ==
  /\ status \in Statuses \ {"absent"}
  /\ payment \in {"pending", "paid", "failed", "expired", "refund_pending"}
  /\ claimant \in Attempts \cup {NoAttempt}
  /\ creation \in [Attempts -> {"absent", "initiated", "pending", "created", "unknown", "failed"}]
  /\ settlement \in [Attempts -> DOMAIN settlementRank]
  /\ verified \subseteq Attempts /\ dated \subseteq Attempts
  /\ tries \in [Attempts -> 0..MaxInquiries]
  /\ owed \subseteq Attempts \X Reasons
  /\ call \in [Attempts -> {"none", "out", "late", "answered", "refused"}]
  /\ inquiry \in [Attempts -> Statements \cup {"none", "asked", "LOST", "NOT_FOUND"}]
  /\ resetting \in BOOLEAN
  /\ said \in [Attempts -> Seq(Statements)]
  /\ reviewed \subseteq Attempts /\ regressed \subseteq Attempts /\ unpaid \in BOOLEAN

\* The attempts that brought the order its money: settled and checked.
Bought == {a \in verified : settlement[a] = "paid"}
Owed == {o[1] : o \in owed}

\* An order only gets past the customer's part when the gateway really took the
\* money for one of its attempts, and the payment status agrees.
PastPayment == {"awaiting_preparation", "completed", "failed_delivery"} \cup NeedsPayment

WorkIsPaidFor ==
  status \in PastPayment =>
    \E a \in verified : "SUCCESS" \in SaidOf(a)

\* An order in the works keeps one payment: not every payment it got is owed
\* back.  The exceptions: a late answer made it forget one, or a repeated
\* statement let a duplicate that is owed already claim the order.
KeepsAPayment ==
  status \in PastPayment /\ regressed = {} => \E a \in Bought : a \notin Owed \ {claimant}

\* Whatever the order of events, at most one payment besides the claimant's is
\* neither owed back nor was under review first.
SurplusIsOwed ==
  regressed = {} =>
    Cardinality(Bought \ (Owed \cup reviewed \cup {claimant})) <= 1

\* A dead order owes back as many payments as it got.
DeadOwesAll ==
  status \in Dead /\ regressed = {} /\ ~unpaid =>
    Cardinality(owed) >= Cardinality(Bought \ reviewed)

\* The payment status of a living order is paid exactly while an attempt bought
\* it; only pay's reset and the deadline of an unknown attempt go past the projection.
ProjectionAgrees ==
  status \notin Dead =>
    /\ Bought # {} /\ ~unpaid => payment = "paid"
    /\ payment = "paid" /\ regressed = {} => Bought # {}

\* An attempt is opened at the gateway at most once: no second request leaves
\* while the first may still be on its way, or after it.
OpenedOnce ==
  [][\A a \in Attempts :
       call[a] # "none" /\ call'[a] = "out" => call[a] = "out"]_paymentVars

\* An attempt with an unknown outcome is looked after until it has one, unless
\* the order cannot expire any more because another attempt paid for it.
UnknownResolves ==
  \A a \in Attempts :
    creation[a] = "unknown" ~>
      \/ creation[a] # "unknown"
      \/ settlement[a] \notin Unsettled
      \/ status \in PastPayment
=============================================================================
