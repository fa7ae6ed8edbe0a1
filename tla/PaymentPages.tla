------------------------------ MODULE PaymentPages ------------------------------
(***************************************************************************)
(* The two pages on which a customer pays one order, and the DOKU overlay  *)
(* they share.                                                             *)
(*                                                                         *)
(* The payment page of the checkout submits the order, then waits for the  *)
(* money; the confirmation page lets the customer pay, and pay again.  One *)
(* of the two is mounted, or another page is.  The overlay is appended to  *)
(* the body, so it belongs to neither.  Every request is an unaborted      *)
(* fetch: its answer is handled by the page that sent it even when that    *)
(* page has been left, answers overtake each other, and any of them may be *)
(* lost after the server has acted on it.                                  *)
(*                                                                         *)
(* The server side is what OrderController and CheckoutController answer;  *)
(* how the payment status comes about is CanonicalPayment.                 *)
(***************************************************************************)
EXTENDS Naturals

CONSTANTS
  MaxAttempts,  \* order.max_payment_attempts
  Calls,        \* bound: the submit and pay requests in flight at once
  Polls         \* bound: the status requests in flight at once

ASSUME MaxAttemptsAssumption == MaxAttempts \in Nat \ {0}

VARIABLES
  page,       \* the mounted page: payment, confirm or other
  shown,      \* paymentStatus of the mounted page
  waiting,    \* payment page: waitingPayment, pendingOrder and lastPaymentUrl are set
  lastUrl,    \* payment page: the attempt lastPaymentUrl belongs to
  timedOut,   \* payment page: pollTimedOut
  busy,       \* submitLock of the mounted page
  polling,    \* pollInterval of the mounted page is running
  overlay,    \* the attempt the overlay shows, or NoOverlay
  stray,      \* the page that opened the overlay was already left
  call,       \* [Calls -> request]: submit, retry (payment page), pay (confirm page)
  poll,       \* [Polls -> request]: payment-status
  payment,    \* server: orders.payment_status, "none" without an order
  attempt,    \* server: the number of payment attempts
  open,       \* server: the last attempt has a page and is not settled
  late,       \* confirmation_expires_at has passed
  dead        \* server: the order is terminal and unpaid

viewVars == <<page, shown, waiting, lastUrl, timedOut, busy, polling>>
overlayVars == <<overlay, stray>>
serverVars == <<payment, attempt, open, late, dead>>
pageVars == <<viewVars, overlayVars, call, poll, serverVars>>

NoOverlay == 0
Settled == {"paid", "failed", "expired"}
Answers == {"none", "url", "refused", "removed", "redirect", "pending"} \cup Settled

\* live: the page that sent the request is still mounted.
Idle == [kind |-> "idle", live |-> FALSE, answer |-> "none", url |-> 0]
Requests ==
  [kind: {"idle", "submit", "retry", "pay", "payment", "confirm"}, live: BOOLEAN,
   answer: Answers, url: 0..MaxAttempts]

Sent(kind) == [kind |-> kind, live |-> TRUE, answer |-> "none", url |-> 0]

-----------------------------------------------------------------------------
(* doku-checkout.ts                                                        *)

openDokuCheckout(url, live) == overlay' = url /\ stray' = ~live

closeDokuCheckout == overlay' = NoOverlay /\ stray' = FALSE

\* The close button, the backdrop, Escape, or closeJokul from the frame.
DismissOverlay ==
  /\ overlay # NoOverlay
  /\ closeDokuCheckout
  /\ UNCHANGED <<viewVars, call, poll, serverVars>>

-----------------------------------------------------------------------------
(* Mounting and leaving.                                                   *)

Orphaned(requests) == [r \in DOMAIN requests |-> [requests[r] EXCEPT !.live = FALSE]]

\* ConfirmView's first render and effects: the order's status, polled while it
\* is pending, unless the countdown is over.
ShownAtMount ==
  IF payment \in Settled THEN payment ELSE IF late THEN "expired" ELSE "pending"

MountConfirm ==
  /\ page' = "confirm"
  /\ shown' = ShownAtMount
  /\ polling' = (ShownAtMount = "pending")
  /\ waiting' = FALSE /\ lastUrl' = 0 /\ timedOut' = FALSE /\ busy' = FALSE

\* A terminal order has no confirmation: the page is rendered without an order.
MountOther ==
  /\ page' = "other"
  /\ shown' = "pending"
  /\ polling' = FALSE /\ waiting' = FALSE /\ lastUrl' = 0 /\ timedOut' = FALSE /\ busy' = FALSE

VisitConfirm == IF dead THEN MountOther ELSE MountConfirm

\* An in-app visit: the old page's effects are cleaned up, what it sent is not.
\* Only the two payment pages close the overlay when they go.
Unmount ==
  /\ call' = Orphaned(call)
  /\ poll' = Orphaned(poll)
  /\ IF page = "other" THEN UNCHANGED overlayVars ELSE closeDokuCheckout

Leave ==
  /\ page # "other"
  /\ Unmount
  /\ MountOther
  /\ UNCHANGED serverVars

OpenConfirm ==
  /\ page = "other"
  /\ payment # "none" /\ ~dead
  /\ Unmount
  /\ MountConfirm
  /\ UNCHANGED serverVars

\* The checkout again: without items in the session it goes elsewhere at once.
OpenPayment ==
  /\ page = "other"
  /\ payment = "none"
  /\ page' = "payment"
  /\ UNCHANGED <<shown, waiting, lastUrl, timedOut, busy, polling, overlayVars, call, poll,
                 serverVars>>

\* window.location.assign: everything the old document held is gone.
Load(mount) ==
  /\ call' = [c \in Calls |-> Idle]
  /\ poll' = [p \in Polls |-> Idle]
  /\ closeDokuCheckout
  /\ mount

-----------------------------------------------------------------------------
(* The payment page: submit.                                               *)

\* The background is inert under the overlay, so a button needs it closed.
Reachable == overlay = NoOverlay

\* The order button, at the foot and in the side column.
PayButtonEnabled == page = "payment" /\ ~busy /\ ~waiting

\* "Selesaikan Pembayaran" in the panel that waits for the payment.
RetryOffered == page = "payment" /\ waiting

\* "Lanjutkan Pembayaran", "Bayar Sekarang" and the choice of methods.
PayOffered == page = "confirm" /\ shown # "paid" /\ ~busy

submit ==
  /\ Reachable /\ PayButtonEnabled
  /\ \E c \in Calls : call[c] = Idle /\ call' = [call EXCEPT ![c] = Sent("submit")]
  /\ busy' = TRUE
  /\ UNCHANGED <<page, shown, waiting, lastUrl, timedOut, polling, overlayVars, poll, serverVars>>

\* Removed items that leave others, a validation error, or no page in the answer.
SubmitRefused(c) ==
  /\ call[c].answer = "refused"
  /\ busy' = IF call[c].live THEN FALSE ELSE busy
  /\ call' = [call EXCEPT ![c] = Idle]
  /\ UNCHANGED <<page, shown, waiting, lastUrl, timedOut, polling, overlayVars, poll>>

\* Everything in the order is sold out: cart.clear, and on to the cart.
SubmitRemoved(c) ==
  /\ call[c].answer = "removed"
  /\ call' = [Orphaned(call) EXCEPT ![c] = Idle]
  /\ poll' = Orphaned(poll)
  /\ IF page = "other" THEN UNCHANGED overlayVars ELSE closeDokuCheckout
  /\ MountOther

\* To the existing order, to the order whose payment could not be created, or
\* back into the checkout.
SubmitRedirected(c) ==
  /\ call[c].answer = "redirect"
  /\ Load(MountOther) \/ Load(VisitConfirm)

SubmitAccepted(c) ==
  /\ call[c].answer = "url"
  /\ openDokuCheckout(call[c].url, call[c].live)
  /\ IF call[c].live
     THEN /\ waiting' = TRUE /\ lastUrl' = call[c].url /\ shown' = "pending"
          /\ timedOut' = FALSE /\ busy' = FALSE /\ polling' = TRUE
          /\ UNCHANGED page
     ELSE UNCHANGED viewVars
  /\ call' = [call EXCEPT ![c] = Idle]
  /\ UNCHANGED poll

SubmitAnswered(c) ==
  /\ call[c].kind = "submit"
  /\ SubmitRefused(c) \/ SubmitRemoved(c) \/ SubmitRedirected(c) \/ SubmitAccepted(c)
  /\ UNCHANGED serverVars

-----------------------------------------------------------------------------
(* The payment page: handleRetryPayment.                                   *)

\* The attempt is still open as far as the page knows.
ReopenPayment ==
  /\ Reachable /\ RetryOffered
  /\ shown = "pending"
  /\ openDokuCheckout(lastUrl, TRUE)
  /\ UNCHANGED <<viewVars, call, poll, serverVars>>

\* Nothing stops a second press while the first is on its way.
RetryPayment ==
  /\ Reachable /\ RetryOffered
  /\ shown # "pending"
  /\ \E c \in Calls : call[c] = Idle /\ call' = [call EXCEPT ![c] = Sent("retry")]
  /\ timedOut' = FALSE /\ polling' = FALSE
  /\ UNCHANGED <<page, shown, waiting, lastUrl, busy, overlayVars, poll, serverVars>>

RetryRefused(c) ==
  /\ call[c].answer = "refused"
  /\ call' = [call EXCEPT ![c] = Idle]
  /\ UNCHANGED <<viewVars, overlayVars, poll>>

RetryPaid(c) ==
  /\ call[c].answer = "paid"
  /\ call' = [Orphaned(call) EXCEPT ![c] = Idle]
  /\ poll' = Orphaned(poll)
  /\ closeDokuCheckout
  /\ VisitConfirm

\* Mutant: the poll epoch is not moved on, so polling is not armed again.
RetryAcceptedUnarmed(c) ==
  /\ call[c].answer = "url"
  /\ openDokuCheckout(call[c].url, call[c].live)
  /\ IF call[c].live
     THEN lastUrl' = call[c].url /\ shown' = "pending" /\ UNCHANGED polling
     ELSE UNCHANGED <<lastUrl, shown, polling>>
  /\ call' = [call EXCEPT ![c] = Idle]
  /\ UNCHANGED <<page, waiting, timedOut, busy, poll>>

RetryAccepted(c) ==
  /\ call[c].answer = "url"
  /\ openDokuCheckout(call[c].url, call[c].live)
  /\ IF call[c].live
     THEN lastUrl' = call[c].url /\ shown' = "pending" /\ polling' = TRUE
     ELSE UNCHANGED <<lastUrl, shown, polling>>
  /\ call' = [call EXCEPT ![c] = Idle]
  /\ UNCHANGED <<page, waiting, timedOut, busy, poll>>

RetryAnswered(c) ==
  /\ call[c].kind = "retry"
  /\ RetryRefused(c) \/ RetryPaid(c) \/ RetryAccepted(c)
  /\ UNCHANGED serverVars

-----------------------------------------------------------------------------
(* The confirmation page: handlePay and the countdown.                     *)

handlePay ==
  /\ Reachable /\ PayOffered
  /\ \E c \in Calls : call[c] = Idle /\ call' = [call EXCEPT ![c] = Sent("pay")]
  /\ busy' = TRUE
  /\ UNCHANGED <<page, shown, waiting, lastUrl, timedOut, polling, overlayVars, poll, serverVars>>

PayRefused(c) ==
  /\ call[c].answer = "refused"
  /\ busy' = IF call[c].live THEN FALSE ELSE busy
  /\ call' = [call EXCEPT ![c] = Idle]
  /\ UNCHANGED <<page, shown, waiting, lastUrl, timedOut, polling, overlayVars, poll>>

\* Mutant: the countdown ends under the overlay and leaves it there.
PayAcceptedUncovered(c) ==
  /\ call[c].answer = "url"
  /\ call' = [call EXCEPT ![c] = Idle]
  /\ openDokuCheckout(call[c].url, call[c].live)
  /\ IF ~call[c].live THEN UNCHANGED <<shown, polling, busy>>
     ELSE /\ busy' = FALSE
          /\ shown' = (IF late THEN "expired" ELSE "pending")
          /\ polling' = IF late THEN FALSE ELSE polling \/ shown # "pending"
  /\ UNCHANGED <<page, waiting, lastUrl, timedOut, poll>>

\* The status becomes pending and the overlay opens; then the effects run.  The
\* poll effect depends on the status, so it runs only if that was not pending.
\* The countdown's ends at once when the deadline is over.
PayAccepted(c) ==
  /\ call[c].answer = "url"
  /\ call' = [call EXCEPT ![c] = Idle]
  /\ IF ~call[c].live
     THEN openDokuCheckout(call[c].url, FALSE) /\ UNCHANGED <<shown, polling, busy>>
     ELSE /\ busy' = FALSE
          /\ IF late
             THEN shown' = "expired" /\ polling' = FALSE /\ closeDokuCheckout
             ELSE /\ shown' = "pending" /\ polling' = (polling \/ shown # "pending")
                  /\ openDokuCheckout(call[c].url, TRUE)
  /\ UNCHANGED <<page, waiting, lastUrl, timedOut, poll>>

PayAnswered(c) ==
  /\ call[c].kind = "pay"
  /\ PayRefused(c) \/ RetryPaid(c) \/ PayAccepted(c)
  /\ UNCHANGED serverVars

\* tick, every second while the status is pending.
CountdownEnds ==
  /\ page = "confirm" /\ shown = "pending" /\ late
  /\ shown' = "expired"
  /\ polling' = FALSE
  /\ closeDokuCheckout
  /\ UNCHANGED <<page, waiting, lastUrl, timedOut, busy, call, poll, serverVars>>

-----------------------------------------------------------------------------
(* Both pages: polling.                                                    *)

\* Every five seconds, whether or not the last answer is in.
PollTick ==
  /\ polling
  /\ \E p \in Polls : poll[p] = Idle /\ poll' = [poll EXCEPT ![p] = Sent(page)]
  /\ UNCHANGED <<viewVars, overlayVars, call, serverVars>>

\* Five minutes are over.  Only the payment page says so.
PollTimesOut ==
  /\ polling
  /\ polling' = FALSE
  /\ timedOut' = (page = "payment")
  /\ UNCHANGED <<page, shown, waiting, lastUrl, busy, overlayVars, call, poll, serverVars>>

PollPending(p) ==
  /\ poll[p].answer = "pending"
  /\ poll' = [poll EXCEPT ![p] = Idle]
  /\ UNCHANGED <<viewVars, overlayVars, call>>

\* Mutant: a paid answer stops nothing and leads nowhere.
PaymentPagePaidIgnored(p) ==
  /\ poll[p].kind = "payment" /\ poll[p].answer = "paid"
  /\ poll' = [poll EXCEPT ![p] = Idle]
  /\ UNCHANGED <<viewVars, overlayVars, call>>

\* Paid: the payment page goes to the confirmation, from wherever the customer is.
PaymentPagePaid(p) ==
  /\ poll[p].kind = "payment" /\ poll[p].answer = "paid"
  /\ call' = Orphaned(call)
  /\ poll' = [Orphaned(poll) EXCEPT ![p] = Idle]
  /\ closeDokuCheckout
  /\ VisitConfirm

\* Any other end of the payment, and the paid one on the confirmation page.  The
\* interval that is stopped is the one running now, not the one that asked.
PollSettles(p) ==
  /\ poll[p].answer \in Settled
  /\ poll[p].kind = "confirm" \/ poll[p].answer # "paid"
  /\ closeDokuCheckout
  /\ IF poll[p].live
     THEN shown' = poll[p].answer /\ polling' = FALSE
     ELSE UNCHANGED <<shown, polling>>
  /\ poll' = [poll EXCEPT ![p] = Idle]
  /\ UNCHANGED <<page, waiting, lastUrl, timedOut, busy, call>>

PollAnswered(p) ==
  /\ PollPending(p) \/ PaymentPagePaid(p) \/ PollSettles(p)
  /\ UNCHANGED serverVars

\* The catch branches.  Whatever the server did stands.
PollLost(p) ==
  /\ poll[p] # Idle
  /\ poll' = [poll EXCEPT ![p] = Idle]
  /\ UNCHANGED <<viewVars, overlayVars, call, serverVars>>

CallLost(c) ==
  /\ call[c] # Idle
  /\ call' = [call EXCEPT ![c] = Idle]
  /\ busy' = IF call[c].live /\ call[c].kind # "retry" THEN FALSE ELSE busy
  /\ UNCHANGED <<page, shown, waiting, lastUrl, timedOut, polling, overlayVars, poll, serverVars>>

-----------------------------------------------------------------------------
(* The server.                                                             *)

Answer(c, answer, url) ==
  call' = [call EXCEPT ![c].answer = answer, ![c].url = url]

\* CheckoutController::submit.  An order that exists already was found by its
\* fingerprint, or the session has no cart left.
ServeSubmit(c) ==
  /\ call[c].kind = "submit" /\ call[c].answer = "none"
  /\ \/ /\ payment = "none"
        /\ Answer(c, "refused", 0) \/ Answer(c, "removed", 0)
        /\ UNCHANGED serverVars
     \/ payment # "none" /\ Answer(c, "redirect", 0) /\ UNCHANGED serverVars
     \/ /\ payment = "none"
        /\ payment' = "pending" /\ attempt' = 1
        /\ \/ open' = TRUE /\ Answer(c, "url", 1)
           \/ open' = FALSE /\ Answer(c, "redirect", 0)
        /\ UNCHANGED <<late, dead>>
  /\ UNCHANGED <<viewVars, overlayVars, poll>>

\* OrderController::pay on an order that can still be paid: a settled status is
\* reset before the attempts are counted.
PayAttempt(c) ==
  /\ payment' = "pending"
  /\ \/ attempt < MaxAttempts /\ attempt' = attempt + 1
        /\ \/ open' = TRUE /\ Answer(c, "url", attempt + 1)
           \/ open' = FALSE /\ Answer(c, "refused", 0)
     \/ attempt = MaxAttempts /\ Answer(c, "refused", 0) /\ UNCHANGED <<attempt, open>>
  /\ UNCHANGED <<late, dead>>

\* OrderController::pay
ServePay(c) ==
  /\ call[c].kind \in {"retry", "pay"} /\ call[c].answer = "none"
  /\ \/ dead /\ Answer(c, "refused", 0) /\ UNCHANGED serverVars
     \/ ~dead /\ payment = "paid" /\ Answer(c, "paid", 0) /\ UNCHANGED serverVars
     \/ ~dead /\ payment = "pending" /\ open /\ Answer(c, "refused", 0) /\ UNCHANGED serverVars
     \/ ~dead /\ payment # "paid" /\ ~open /\ PayAttempt(c)
  /\ UNCHANGED <<viewVars, overlayVars, poll>>

\* OrderController::paymentStatus
ServePoll(p) ==
  /\ poll[p].kind # "idle" /\ poll[p].answer = "none"
  /\ poll' = [poll EXCEPT ![p].answer = payment]
  /\ UNCHANGED <<viewVars, overlayVars, call, serverVars>>

\* The gateway's word reaches the order.  An attempt that failed may be paid yet.
PaymentSettles ==
  /\ payment # "none"
  /\ \/ open /\ payment' \in Settled
     \/ payment # "paid" /\ payment' = "paid"
  /\ open' = FALSE
  /\ UNCHANGED <<viewVars, overlayVars, call, poll, attempt, late, dead>>

DeadlinePasses ==
  /\ payment # "none" /\ ~late
  /\ late' = TRUE
  /\ UNCHANGED <<viewVars, overlayVars, call, poll, payment, attempt, open, dead>>

\* Cancelled, rejected or expired before it was paid.
OrderEnds ==
  /\ payment \notin {"none", "paid"} /\ ~dead
  /\ dead' = TRUE
  /\ UNCHANGED <<viewVars, overlayVars, call, poll, payment, attempt, open, late>>

-----------------------------------------------------------------------------
Init ==
  /\ page = "payment" /\ shown = "pending"
  /\ waiting = FALSE /\ lastUrl = 0 /\ timedOut = FALSE /\ busy = FALSE /\ polling = FALSE
  /\ overlay = NoOverlay /\ stray = FALSE
  /\ call = [c \in Calls |-> Idle]
  /\ poll = [p \in Polls |-> Idle]
  /\ payment = "none" /\ attempt = 0 /\ open = FALSE /\ late = FALSE /\ dead = FALSE

CallAnswered(c) == SubmitAnswered(c) \/ RetryAnswered(c) \/ PayAnswered(c)

Next ==
  \/ DismissOverlay
  \/ Leave \/ OpenConfirm \/ OpenPayment
  \/ submit \/ ReopenPayment \/ RetryPayment \/ handlePay
  \/ CountdownEnds \/ PollTick \/ PollTimesOut
  \/ \E c \in Calls : ServeSubmit(c) \/ ServePay(c) \/ CallAnswered(c) \/ CallLost(c)
  \/ \E p \in Polls : ServePoll(p) \/ PollAnswered(p) \/ PollLost(p)
  \/ PaymentSettles \/ DeadlinePasses \/ OrderEnds

\* The interval ticks, the server serves, and a connection that loses answers
\* lets some through in the end.
Fairness ==
  /\ WF_pageVars(PollTick)
  /\ \A p \in Polls : SF_pageVars(ServePoll(p)) /\ SF_pageVars(PollAnswered(p))

Spec == Init /\ [][Next]_pageVars /\ Fairness

-----------------------------------------------------------------------------
\* Every variable has its type.
PagesTypeOK ==
  /\ page \in {"payment", "confirm", "other"}
  /\ shown \in {"pending"} \cup Settled
  /\ waiting \in BOOLEAN /\ timedOut \in BOOLEAN /\ busy \in BOOLEAN /\ polling \in BOOLEAN
  /\ lastUrl \in 0..MaxAttempts
  /\ overlay \in 0..MaxAttempts /\ stray \in BOOLEAN
  /\ call \in [Calls -> Requests]
  /\ poll \in [Polls -> Requests]
  /\ payment \in {"none", "pending"} \cup Settled
  /\ attempt \in 0..MaxAttempts
  /\ open \in BOOLEAN /\ late \in BOOLEAN /\ dead \in BOOLEAN

\* The panel that says the status is updated automatically tells the truth: as
\* long as the payment page waits for a pending payment and has not announced
\* that it gave up, it polls.  Retries, answers of older polls and pressing the
\* button twice all stop and start the one interval.
WaitingIsWatched ==
  page = "payment" /\ waiting /\ shown = "pending" /\ ~timedOut => polling

\* An overlay that the mounted page opened never covers a result: once the page
\* knows the payment failed, expired or succeeded, the panel with the way on can
\* be reached.
OverlayMeansPending == overlay # NoOverlay /\ ~stray => shown = "pending"

\* A paid order is noticed by the page that waits for it, unless the customer
\* leaves, the page announced that it gave up, or it shows a result already.
PaidIsNoticed ==
  (page = "payment" /\ waiting /\ payment = "paid")
    ~> (page # "payment" \/ shown # "pending" \/ timedOut)
=============================================================================
