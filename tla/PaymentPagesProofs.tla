--------------------------- MODULE PaymentPagesProofs ---------------------------
(***************************************************************************)
(* Proofs about PaymentPages: for any number of requests in flight and any *)
(* limit of attempts, the payment page polls while it says that it waits,  *)
(* and no overlay of the mounted page covers a result.  Both rest on what  *)
(* leaving a page does to the requests it sent and to the overlay.         *)
(***************************************************************************)
EXTENDS PaymentPages, TLAPS

\* A page that does not pay anything keeps no payment state.
Blank == page = "other" => shown = "pending" /\ ~polling /\ ~waiting

\* An overlay of the mounted page has a payment page under it.
Owned == overlay # NoOverlay /\ ~stray => page # "other"

\* A request whose page is still mounted was sent by one of the two pages.
Alive ==
  /\ \A c \in Calls : call[c].live => page # "other"
  /\ \A p \in Polls : poll[p].live => page # "other"

\* What the properties say of the view and of the overlay.
ViewInv == Blank /\ Owned /\ WaitingIsWatched /\ OverlayMeansPending

ServerOK ==
  /\ payment \in {"none", "pending"} \cup Settled
  /\ attempt \in 0..MaxAttempts
  /\ open \in BOOLEAN /\ late \in BOOLEAN /\ dead \in BOOLEAN

ViewOK ==
  /\ page \in {"payment", "confirm", "other"}
  /\ shown \in {"pending"} \cup Settled
  /\ waiting \in BOOLEAN /\ timedOut \in BOOLEAN /\ busy \in BOOLEAN /\ polling \in BOOLEAN
  /\ lastUrl \in 0..MaxAttempts
  /\ overlay \in 0..MaxAttempts /\ stray \in BOOLEAN

CallsOK == call \in [Calls -> Requests]
PollsOK == poll \in [Polls -> Requests]

PagesInv == ViewOK /\ CallsOK /\ PollsOK /\ ServerOK /\ Alive /\ ViewInv

\* The type invariant, by what it is about.
LEMMA TypeParts == PagesTypeOK <=> ViewOK /\ CallsOK /\ PollsOK /\ ServerOK
  BY DEF PagesTypeOK, ViewOK, CallsOK, PollsOK, ServerOK

-----------------------------------------------------------------------------
(* Requests.                                                               *)

\* What is put in place of a request is a request.
LEMMA RequestKinds ==
  /\ Idle \in Requests /\ ~Idle.live
  /\ \A kind \in {"submit", "retry", "pay", "payment", "confirm"} : Sent(kind) \in Requests
  /\ \A q \in Requests :
       q.url \in 0..MaxAttempts /\ q.live \in BOOLEAN /\ q.answer \in Answers
<1>1. 0 \in 0..MaxAttempts /\ "none" \in Answers
  BY MaxAttemptsAssumption DEF Answers
<1>2. Idle \in Requests /\ ~Idle.live
  BY <1>1 DEF Idle, Requests
<1>3. \A kind \in {"submit", "retry", "pay", "payment", "confirm"} : Sent(kind) \in Requests
  BY <1>1 DEF Sent, Requests
<1>4. \A q \in Requests :
        q.url \in 0..MaxAttempts /\ q.live \in BOOLEAN /\ q.answer \in Answers
  BY DEF Requests
<1> QED
  BY <1>2, <1>3, <1>4

\* One request that ends, is sent or is answered.
LEMMA OneRequest ==
  ASSUME NEW D, NEW f \in [D -> Requests], NEW d \in D, NEW q \in Requests
  PROVE  /\ [f EXCEPT ![d] = q] \in [D -> Requests]
         /\ [f EXCEPT ![d] = q][d] = q
         /\ \A e \in D : e # d => [f EXCEPT ![d] = q][e] = f[e]
  OBVIOUS

\* What becomes of the requests of a page that is left.
LEMMA OrphanedKinds ==
  ASSUME NEW D, NEW f \in [D -> Requests]
  PROVE  /\ Orphaned(f) \in [D -> Requests]
         /\ \A d \in D : ~Orphaned(f)[d].live
         /\ \A d \in D : [Orphaned(f) EXCEPT ![d] = Idle] \in [D -> Requests]
         /\ \A d, e \in D : ~[Orphaned(f) EXCEPT ![d] = Idle][e].live
<1>1. DOMAIN f = D /\ \A d \in D : f[d] \in Requests
  OBVIOUS
<1>2. \A d \in D : Orphaned(f)[d] = [f[d] EXCEPT !.live = FALSE]
  BY <1>1 DEF Orphaned
<1>3. \A d \in D : Orphaned(f)[d] \in Requests /\ ~Orphaned(f)[d].live
  <2> SUFFICES ASSUME NEW d \in D
               PROVE  [f[d] EXCEPT !.live = FALSE] \in Requests
                      /\ ~[f[d] EXCEPT !.live = FALSE].live
    BY <1>2
  <2>1. PICK q \in Requests : q = f[d]
    BY <1>1
  <2>2. [q EXCEPT !.live = FALSE] \in Requests /\ ~[q EXCEPT !.live = FALSE].live
    BY DEF Requests
  <2> QED
    BY <2>1, <2>2
<1>4. Orphaned(f) \in [D -> Requests]
  BY <1>1, <1>3 DEF Orphaned
<1>5. ASSUME NEW d \in D
      PROVE  /\ [Orphaned(f) EXCEPT ![d] = Idle] \in [D -> Requests]
             /\ \A e \in D : ~[Orphaned(f) EXCEPT ![d] = Idle][e].live
  BY <1>3, <1>4, RequestKinds
<1> QED
  BY <1>3, <1>4, <1>5

\* Leaving a page for another takes the overlay along, if the page owned it.
LEMMA UnmountKinds ==
  ASSUME PagesInv, Unmount
  PROVE  /\ CallsOK' /\ PollsOK' /\ Alive'
         /\ overlay' \in 0..MaxAttempts /\ stray' \in BOOLEAN
         /\ overlay' # NoOverlay => stray'
<1>1. CallsOK /\ PollsOK /\ ViewOK /\ Owned /\ 0 \in 0..MaxAttempts
  BY MaxAttemptsAssumption DEF PagesInv, ViewInv
<1>2. CallsOK' /\ PollsOK' /\ Alive'
  BY <1>1, OrphanedKinds DEF Unmount, CallsOK, PollsOK, Alive
<1>3. /\ overlay' \in 0..MaxAttempts /\ stray' \in BOOLEAN
      /\ overlay' # NoOverlay => stray'
  BY <1>1 DEF Unmount, ViewOK, Owned, overlayVars, closeDokuCheckout, NoOverlay
<1> QED
  BY <1>2, <1>3

\* What a mounted page shows and holds.
LEMMA MountKinds ==
  ASSUME ServerOK, MountConfirm \/ MountOther
  PROVE  /\ page' \in {"confirm", "other"}
         /\ shown' \in {"pending"} \cup Settled
         /\ waiting' = FALSE /\ timedOut' \in BOOLEAN /\ busy' \in BOOLEAN
         /\ polling' \in BOOLEAN /\ lastUrl' \in 0..MaxAttempts
         /\ page' = "other" => shown' = "pending" /\ ~polling'
<1>1. 0 \in 0..MaxAttempts
  BY MaxAttemptsAssumption
<1> QED
  BY <1>1 DEF MountConfirm, MountOther, ShownAtMount, ServerOK, Settled

\* A mounted page without a stale overlay of its own.
LEMMA MountKeeps ==
  ASSUME PagesInv, ServerOK', MountConfirm \/ MountOther, CallsOK', PollsOK',
         overlay' \in 0..MaxAttempts, stray' \in BOOLEAN, overlay' # NoOverlay => stray',
         Alive'
  PROVE  PagesInv'
<1>1. ServerOK
  BY DEF PagesInv
<1>2. ViewOK'
  BY <1>1, MountKinds DEF ViewOK
<1>3. ViewInv'
  BY <1>1, MountKinds DEF ViewInv, Blank, Owned, WaitingIsWatched, OverlayMeansPending
<1> QED
  BY <1>2, <1>3 DEF PagesInv

\* The view stays when nothing it shows changes.
LEMMA ViewStays ==
  ASSUME PagesInv, UNCHANGED viewVars, UNCHANGED overlayVars
  PROVE  ViewInv' /\ ViewOK'
  BY DEF PagesInv, ViewInv, viewVars, overlayVars, Blank, Owned, WaitingIsWatched,
     OverlayMeansPending, ViewOK

\* A request ends and its page stays.
LEMMA CallEnds ==
  ASSUME PagesInv, NEW c \in Calls, call' = [call EXCEPT ![c] = Idle],
         UNCHANGED <<page, poll>>
  PROVE  CallsOK' /\ PollsOK' /\ Alive'
  BY OneRequest, RequestKinds DEF PagesInv, CallsOK, PollsOK, Alive

LEMMA PollEnds ==
  ASSUME PagesInv, NEW p \in Polls, poll' = [poll EXCEPT ![p] = Idle],
         UNCHANGED <<page, call>>
  PROVE  CallsOK' /\ PollsOK' /\ Alive'
  BY OneRequest, RequestKinds DEF PagesInv, CallsOK, PollsOK, Alive

\* A page sends a request.
LEMMA CallSent ==
  ASSUME PagesInv, NEW c \in Calls, NEW kind \in {"submit", "retry", "pay"}, page # "other",
         call' = [call EXCEPT ![c] = Sent(kind)], UNCHANGED <<page, poll>>
  PROVE  CallsOK' /\ PollsOK' /\ Alive'
  BY OneRequest, RequestKinds DEF PagesInv, CallsOK, PollsOK, Alive

\* The server answers one.
LEMMA CallServed ==
  ASSUME PagesInv, NEW c \in Calls, NEW a \in Answers, NEW n \in 0..MaxAttempts,
         Answer(c, a, n), UNCHANGED <<page, poll>>
  PROVE  CallsOK' /\ PollsOK' /\ Alive'
<1>1. CallsOK /\ PollsOK /\ Alive
  BY DEF PagesInv
<1>2. call' = [call EXCEPT ![c] = [call[c] EXCEPT !.answer = a, !.url = n]]
  BY <1>1 DEF Answer, CallsOK
<1>3. call[c] \in Requests
  BY <1>1 DEF CallsOK
<1>4. PICK q \in Requests : q = [call[c] EXCEPT !.answer = a, !.url = n]
                          /\ q.live = call[c].live
  <2>1. PICK r \in Requests : r = call[c]
    BY <1>3
  <2>2. /\ [r EXCEPT !.answer = a, !.url = n] \in Requests
        /\ [r EXCEPT !.answer = a, !.url = n].live = r.live
    BY DEF Requests
  <2> QED
    BY <2>1, <2>2
<1>5. CallsOK'
  BY <1>1, <1>2, <1>4 DEF CallsOK
<1>6. \A d \in Calls : call'[d].live = call[d].live
  BY <1>1, <1>2, <1>4, OneRequest DEF CallsOK
<1> QED
  BY <1>1, <1>5, <1>6 DEF Alive, PollsOK

\* A status request likewise.
LEMMA PollServed ==
  ASSUME PagesInv, NEW p \in Polls, NEW a \in Answers,
         poll' = [poll EXCEPT ![p].answer = a], UNCHANGED <<page, call>>
  PROVE  CallsOK' /\ PollsOK' /\ Alive'
<1>1. CallsOK /\ PollsOK /\ Alive
  BY DEF PagesInv
<1>2. poll' = [poll EXCEPT ![p] = [poll[p] EXCEPT !.answer = a]]
  BY <1>1 DEF PollsOK
<1>3. PICK r \in Requests : r = poll[p]
  BY <1>1 DEF PollsOK
<1>4. [r EXCEPT !.answer = a] \in Requests /\ [r EXCEPT !.answer = a].live = r.live
  BY DEF Requests
<1>5. PollsOK'
  BY <1>1, <1>2, <1>3, <1>4 DEF PollsOK
<1>6. \A d \in Polls : poll'[d].live = poll[d].live
  BY <1>1, <1>2, <1>3, <1>4, OneRequest DEF PollsOK
<1> QED
  BY <1>1, <1>5, <1>6 DEF Alive, CallsOK

-----------------------------------------------------------------------------
(* Steps of the customer.                                                  *)

\* A closed overlay.
LEMMA ClosedKinds ==
  ASSUME closeDokuCheckout
  PROVE  /\ overlay' \in 0..MaxAttempts /\ stray' \in BOOLEAN
         /\ overlay' = NoOverlay
<1>1. NoOverlay \in 0..MaxAttempts
  BY MaxAttemptsAssumption DEF NoOverlay
<1> QED
  BY <1>1 DEF closeDokuCheckout

LEMMA CustomerKeeps ==
  ASSUME PagesInv,
         \/ DismissOverlay \/ Leave \/ OpenConfirm \/ OpenPayment
         \/ submit \/ ReopenPayment \/ RetryPayment \/ handlePay
  PROVE  PagesInv'
<1>1. ViewOK /\ CallsOK /\ PollsOK /\ ServerOK /\ Alive /\ ViewInv
  BY DEF PagesInv
<1>2. CASE DismissOverlay
  <2>1. ViewOK' /\ ViewInv'
    BY <1>1, <1>2, ClosedKinds DEF DismissOverlay, viewVars, ViewOK, ViewInv, Blank, Owned,
       WaitingIsWatched, OverlayMeansPending
  <2> QED
    BY <1>1, <1>2, <2>1 DEF DismissOverlay, viewVars, serverVars, PagesInv, CallsOK, PollsOK,
       ServerOK, Alive
<1>3. CASE Leave
  <2>1. ServerOK'
    BY <1>1, <1>3 DEF Leave, serverVars, ServerOK
  <2> QED
    BY <1>3, <2>1, UnmountKinds, MountKeeps DEF Leave
<1>4. CASE OpenConfirm
  <2>1. ServerOK'
    BY <1>1, <1>4 DEF OpenConfirm, serverVars, ServerOK
  <2> QED
    BY <1>4, <2>1, UnmountKinds, MountKeeps DEF OpenConfirm
<1>5. CASE OpenPayment
  <2>1. ViewOK' /\ ViewInv'
    BY <1>1, <1>5 DEF OpenPayment, overlayVars, ViewOK, ViewInv, Blank, Owned,
       WaitingIsWatched, OverlayMeansPending
  <2>2. Alive'
    BY <1>1, <1>5 DEF OpenPayment, Alive
  <2> QED
    BY <1>1, <1>5, <2>1, <2>2 DEF OpenPayment, serverVars, PagesInv, CallsOK, PollsOK, ServerOK
<1>6. CASE submit
  <2>1. ViewOK' /\ ViewInv' /\ ServerOK' /\ page # "other"
    BY <1>1, <1>6 DEF submit, PayButtonEnabled, overlayVars, serverVars, ViewOK, ServerOK,
       ViewInv, Blank, Owned, WaitingIsWatched, OverlayMeansPending
  <2>2. CallsOK' /\ PollsOK' /\ Alive'
    BY <1>6, <2>1, CallSent DEF submit
  <2> QED
    BY <2>1, <2>2 DEF PagesInv
<1>7. CASE ReopenPayment
  <2>1. ViewOK' /\ ViewInv'
    BY <1>1, <1>7 DEF ReopenPayment, RetryOffered, openDokuCheckout, viewVars, ViewOK,
       ViewInv, Blank, Owned, WaitingIsWatched, OverlayMeansPending
  <2> QED
    BY <1>1, <1>7, <2>1 DEF ReopenPayment, viewVars, serverVars, PagesInv, CallsOK, PollsOK,
       ServerOK, Alive
<1>8. CASE RetryPayment
  <2>1. ViewOK' /\ ViewInv' /\ ServerOK' /\ page # "other"
    BY <1>1, <1>8 DEF RetryPayment, RetryOffered, overlayVars, serverVars, ViewOK, ServerOK,
       ViewInv, Blank, Owned, WaitingIsWatched, OverlayMeansPending
  <2>2. CallsOK' /\ PollsOK' /\ Alive'
    BY <1>8, <2>1, CallSent DEF RetryPayment
  <2> QED
    BY <2>1, <2>2 DEF PagesInv
<1>9. CASE handlePay
  <2>1. ViewOK' /\ ViewInv' /\ ServerOK' /\ page # "other"
    BY <1>1, <1>9 DEF handlePay, PayOffered, overlayVars, serverVars, ViewOK, ServerOK,
       ViewInv, Blank, Owned, WaitingIsWatched, OverlayMeansPending
  <2>2. CallsOK' /\ PollsOK' /\ Alive'
    BY <1>9, <2>1, CallSent DEF handlePay
  <2> QED
    BY <2>1, <2>2 DEF PagesInv
<1> QED
  BY <1>2, <1>3, <1>4, <1>5, <1>6, <1>7, <1>8, <1>9

-----------------------------------------------------------------------------
(* Answers to submit, retry and pay.                                       *)

\* Another document or another page in place of this one.
LEMMA LoadKeeps ==
  ASSUME PagesInv, UNCHANGED serverVars, Load(MountOther) \/ Load(VisitConfirm)
  PROVE  PagesInv'
<1>1. ServerOK /\ ServerOK'
  BY DEF PagesInv, ServerOK, serverVars
<1>2. CallsOK' /\ PollsOK' /\ Alive'
  BY RequestKinds DEF Load, CallsOK, PollsOK, Alive
<1>3. overlay' \in 0..MaxAttempts /\ stray' \in BOOLEAN /\ overlay' = NoOverlay
  BY ClosedKinds DEF Load
<1>4. MountConfirm \/ MountOther
  BY DEF Load, VisitConfirm
<1> QED
  BY <1>1, <1>2, <1>3, <1>4, MountKeeps

\* An answer that takes the customer to another page of the application.
LEMMA VisitKeeps ==
  ASSUME PagesInv, UNCHANGED serverVars, MountOther \/ VisitConfirm,
         CallsOK', PollsOK', Alive',
         overlay' \in 0..MaxAttempts, stray' \in BOOLEAN, overlay' # NoOverlay => stray'
  PROVE  PagesInv'
<1>1. ServerOK'
  BY DEF PagesInv, ServerOK, serverVars
<1> QED
  BY <1>1, MountKeeps DEF VisitConfirm

\* The answer "paid" to a retry or a payment.
LEMMA RetryPaidKeeps ==
  ASSUME PagesInv, NEW c \in Calls, RetryPaid(c), UNCHANGED serverVars
  PROVE  PagesInv'
<1>1. CallsOK /\ PollsOK
  BY DEF PagesInv
<1>2. CallsOK' /\ PollsOK' /\ Alive'
  BY <1>1, OrphanedKinds DEF RetryPaid, CallsOK, PollsOK, Alive
<1>3. overlay' \in 0..MaxAttempts /\ stray' \in BOOLEAN /\ overlay' = NoOverlay
  BY ClosedKinds DEF RetryPaid
<1> QED
  BY <1>2, <1>3, VisitKeeps DEF RetryPaid

LEMMA SubmitKeeps ==
  ASSUME PagesInv, NEW c \in Calls, SubmitAnswered(c)
  PROVE  PagesInv'
<1>1. ViewOK /\ CallsOK /\ PollsOK /\ ServerOK /\ Alive /\ ViewInv /\ UNCHANGED serverVars
  BY DEF PagesInv, SubmitAnswered
<1>2. ServerOK'
  BY <1>1 DEF ServerOK, serverVars
<1>3. call[c].url \in 0..MaxAttempts /\ call[c].live \in BOOLEAN
  BY <1>1, RequestKinds DEF CallsOK
<1>4. CASE SubmitRefused(c)
  <2>1. CallsOK' /\ PollsOK' /\ Alive'
    BY <1>4, CallEnds DEF SubmitRefused
  <2>2. ViewOK' /\ ViewInv'
    BY <1>1, <1>4 DEF SubmitRefused, overlayVars, ViewOK, ViewInv, Blank, Owned,
       WaitingIsWatched, OverlayMeansPending
  <2> QED
    BY <1>2, <2>1, <2>2 DEF PagesInv
<1>5. CASE SubmitRemoved(c)
  <2>1. CallsOK' /\ PollsOK' /\ Alive'
    BY <1>1, <1>5, OrphanedKinds DEF SubmitRemoved, CallsOK, PollsOK, Alive
  <2>2. overlay' \in 0..MaxAttempts /\ stray' \in BOOLEAN /\ (overlay' # NoOverlay => stray')
    <3>1. CASE page = "other"
      BY <1>1, <1>5, <3>1 DEF SubmitRemoved, overlayVars, ViewOK, ViewInv, Owned
    <3>2. CASE page # "other"
      BY <1>5, <3>2, ClosedKinds DEF SubmitRemoved
    <3> QED
      BY <3>1, <3>2
  <2> QED
    BY <1>1, <1>5, <2>1, <2>2, VisitKeeps DEF SubmitRemoved
<1>6. CASE SubmitRedirected(c)
  BY <1>1, <1>6, LoadKeeps DEF SubmitRedirected
<1>7. CASE SubmitAccepted(c)
  <2>1. CallsOK' /\ PollsOK' /\ Alive'
    <3>1. call' = [call EXCEPT ![c] = Idle] /\ UNCHANGED <<page, poll>>
      BY <1>7 DEF SubmitAccepted, viewVars
    <3> QED
      BY <3>1, CallEnds
  <2>2. ViewOK' /\ ViewInv'
    <3>1. overlay' = call[c].url /\ stray' = ~call[c].live
      BY <1>7 DEF SubmitAccepted, openDokuCheckout
    <3>2. CASE call[c].live
      <4>1. page # "other"
        BY <1>1, <3>2 DEF Alive
      <4> QED
        BY <1>1, <1>3, <1>7, <3>1, <3>2, <4>1 DEF SubmitAccepted, ViewOK, ViewInv, Blank,
           Owned, WaitingIsWatched, OverlayMeansPending
    <3>3. CASE ~call[c].live
      BY <1>1, <1>3, <1>7, <3>1, <3>3 DEF SubmitAccepted, viewVars, ViewOK, ViewInv, Blank,
         Owned, WaitingIsWatched, OverlayMeansPending
    <3> QED
      BY <3>2, <3>3
  <2> QED
    BY <1>2, <2>1, <2>2 DEF PagesInv
<1> QED
  BY <1>4, <1>5, <1>6, <1>7 DEF SubmitAnswered

LEMMA RetryKeeps ==
  ASSUME PagesInv, NEW c \in Calls, RetryAnswered(c)
  PROVE  PagesInv'
<1>1. ViewOK /\ CallsOK /\ PollsOK /\ ServerOK /\ Alive /\ ViewInv /\ UNCHANGED serverVars
  BY DEF PagesInv, RetryAnswered
<1>2. ServerOK'
  BY <1>1 DEF ServerOK, serverVars
<1>3. call[c].url \in 0..MaxAttempts /\ call[c].live \in BOOLEAN
  BY <1>1, RequestKinds DEF CallsOK
<1>4. CASE RetryRefused(c)
  <2>1. UNCHANGED <<page, poll>>
    BY <1>4 DEF RetryRefused, viewVars
  <2>2. CallsOK' /\ PollsOK' /\ Alive'
    BY <1>4, <2>1, CallEnds DEF RetryRefused
  <2> QED
    BY <1>2, <1>4, <2>2, ViewStays DEF RetryRefused, PagesInv
<1>5. CASE RetryPaid(c)
  BY <1>1, <1>5, RetryPaidKeeps
<1>6. CASE RetryAccepted(c)
  <2>1. CallsOK' /\ PollsOK' /\ Alive'
    BY <1>6, CallEnds DEF RetryAccepted
  <2>2. ViewOK' /\ ViewInv'
    <3>1. overlay' = call[c].url /\ stray' = ~call[c].live
      BY <1>6 DEF RetryAccepted, openDokuCheckout
    <3>2. CASE call[c].live
      <4>1. page # "other"
        BY <1>1, <3>2 DEF Alive
      <4> QED
        BY <1>1, <1>3, <1>6, <3>1, <3>2, <4>1 DEF RetryAccepted, ViewOK, ViewInv, Blank,
           Owned, WaitingIsWatched, OverlayMeansPending
    <3>3. CASE ~call[c].live
      BY <1>1, <1>3, <1>6, <3>1, <3>3 DEF RetryAccepted, ViewOK, ViewInv, Blank,
         Owned, WaitingIsWatched, OverlayMeansPending
    <3> QED
      BY <3>2, <3>3
  <2> QED
    BY <1>2, <2>1, <2>2 DEF PagesInv
<1> QED
  BY <1>4, <1>5, <1>6 DEF RetryAnswered

LEMMA PayKeeps ==
  ASSUME PagesInv, NEW c \in Calls, PayAnswered(c)
  PROVE  PagesInv'
<1>1. ViewOK /\ CallsOK /\ PollsOK /\ ServerOK /\ Alive /\ ViewInv /\ UNCHANGED serverVars
  BY DEF PagesInv, PayAnswered
<1>2. ServerOK'
  BY <1>1 DEF ServerOK, serverVars
<1>3. call[c].url \in 0..MaxAttempts /\ call[c].live \in BOOLEAN
  BY <1>1, RequestKinds DEF CallsOK
<1>4. CASE PayRefused(c)
  <2>1. CallsOK' /\ PollsOK' /\ Alive'
    BY <1>4, CallEnds DEF PayRefused
  <2>2. ViewOK' /\ ViewInv'
    BY <1>1, <1>4 DEF PayRefused, overlayVars, ViewOK, ViewInv, Blank, Owned,
       WaitingIsWatched, OverlayMeansPending
  <2> QED
    BY <1>2, <2>1, <2>2 DEF PagesInv
<1>5. CASE RetryPaid(c)
  BY <1>1, <1>5, RetryPaidKeeps
<1>6. CASE PayAccepted(c)
  <2>1. CallsOK' /\ PollsOK' /\ Alive'
    BY <1>6, CallEnds DEF PayAccepted
  <2>2. CASE call[c].live /\ late
    <3>1. closeDokuCheckout /\ shown' = "expired" /\ polling' = FALSE /\ busy' = FALSE
          /\ page # "other"
      BY <1>1, <1>6, <2>2 DEF PayAccepted, Alive
    <3>2. ViewOK' /\ ViewInv'
      BY <1>1, <1>6, <3>1, ClosedKinds DEF PayAccepted, ViewOK, ViewInv, Blank, Owned,
         WaitingIsWatched, OverlayMeansPending, Settled
    <3> QED
      BY <1>2, <2>1, <3>2 DEF PagesInv
  <2>3. CASE call[c].live /\ ~late
    <3>1. /\ overlay' = call[c].url /\ stray' = FALSE /\ shown' = "pending" /\ busy' = FALSE
          /\ polling' = (polling \/ shown # "pending")
          /\ page # "other"
      BY <1>1, <1>6, <2>3 DEF PayAccepted, Alive, openDokuCheckout
    <3>2. ViewOK' /\ ViewInv'
      BY <1>1, <1>3, <1>6, <3>1 DEF PayAccepted, ViewOK, ViewInv, Blank, Owned,
         WaitingIsWatched, OverlayMeansPending
    <3> QED
      BY <1>2, <2>1, <3>2 DEF PagesInv
  <2>4. CASE ~call[c].live
    <3>1. overlay' = call[c].url /\ stray' = TRUE /\ UNCHANGED <<shown, polling, busy>>
      BY <1>6, <2>4 DEF PayAccepted, openDokuCheckout
    <3>2. ViewOK' /\ ViewInv'
      BY <1>1, <1>3, <1>6, <3>1 DEF PayAccepted, ViewOK, ViewInv, Blank, Owned,
         WaitingIsWatched, OverlayMeansPending
    <3> QED
      BY <1>2, <2>1, <3>2 DEF PagesInv
  <2> QED
    BY <2>2, <2>3, <2>4
<1> QED
  BY <1>4, <1>5, <1>6 DEF PayAnswered

-----------------------------------------------------------------------------
(* Polling and the countdown.                                              *)

LEMMA TimersKeep ==
  ASSUME PagesInv, CountdownEnds \/ PollTick \/ PollTimesOut
  PROVE  PagesInv'
<1>1. ViewOK /\ CallsOK /\ PollsOK /\ ServerOK /\ Alive /\ ViewInv
  BY DEF PagesInv
<1>2. UNCHANGED serverVars
  BY DEF CountdownEnds, PollTick, PollTimesOut
<1>3. ServerOK'
  BY <1>1, <1>2 DEF ServerOK, serverVars
<1>4. CASE CountdownEnds
  <2>1. CallsOK' /\ PollsOK' /\ Alive'
    BY <1>1, <1>4 DEF CountdownEnds, CallsOK, PollsOK, Alive
  <2>2. ViewOK' /\ ViewInv'
    BY <1>1, <1>4, ClosedKinds DEF CountdownEnds, ViewOK, ViewInv, Blank, Owned,
       WaitingIsWatched, OverlayMeansPending, Settled
  <2> QED
    BY <1>3, <2>1, <2>2 DEF PagesInv
<1>5. CASE PollTick
  <2>1. PICK p \in Polls : poll' = [poll EXCEPT ![p] = Sent(page)]
    BY <1>5 DEF PollTick
  <2>2. page \in {"payment", "confirm"}
    BY <1>1, <1>5 DEF PollTick, ViewOK, ViewInv, Blank
  <2>3. Sent(page) \in Requests
    BY <2>2, RequestKinds
  <2>4. PollsOK' /\ CallsOK' /\ UNCHANGED <<page, call>>
    BY <1>1, <1>5, <2>1, <2>3 DEF PollTick, PollsOK, CallsOK, viewVars
  <2>5. Alive'
    BY <1>1, <2>2, <2>4 DEF Alive
  <2> QED
    BY <1>3, <1>5, <2>4, <2>5, ViewStays DEF PollTick, PagesInv
<1>6. CASE PollTimesOut
  <2>1. CallsOK' /\ PollsOK' /\ Alive'
    BY <1>1, <1>6 DEF PollTimesOut, CallsOK, PollsOK, Alive
  <2>2. ViewOK' /\ ViewInv'
    BY <1>1, <1>6 DEF PollTimesOut, overlayVars, ViewOK, ViewInv, Blank, Owned,
       WaitingIsWatched, OverlayMeansPending
  <2> QED
    BY <1>3, <2>1, <2>2 DEF PagesInv
<1> QED
  BY <1>4, <1>5, <1>6

LEMMA PollKeeps ==
  ASSUME PagesInv, NEW p \in Polls, PollAnswered(p)
  PROVE  PagesInv'
<1>1. ViewOK /\ CallsOK /\ PollsOK /\ ServerOK /\ Alive /\ ViewInv /\ UNCHANGED serverVars
  BY DEF PagesInv, PollAnswered
<1>2. ServerOK'
  BY <1>1 DEF ServerOK, serverVars
<1>3. CASE PollPending(p)
  <2>1. poll' = [poll EXCEPT ![p] = Idle] /\ UNCHANGED <<page, call>>
    BY <1>3 DEF PollPending, viewVars
  <2>2. CallsOK' /\ PollsOK' /\ Alive'
    BY <2>1, PollEnds
  <2> QED
    BY <1>2, <1>3, <2>2, ViewStays DEF PollPending, PagesInv
<1>4. CASE PaymentPagePaid(p)
  <2>1. CallsOK' /\ PollsOK' /\ Alive'
    BY <1>1, <1>4, OrphanedKinds DEF PaymentPagePaid, CallsOK, PollsOK, Alive
  <2>2. overlay' \in 0..MaxAttempts /\ stray' \in BOOLEAN /\ overlay' = NoOverlay
    BY <1>4, ClosedKinds DEF PaymentPagePaid
  <2> QED
    BY <1>1, <1>4, <2>1, <2>2, VisitKeeps DEF PaymentPagePaid
<1>5. CASE PollSettles(p)
  <2>1. CallsOK' /\ PollsOK' /\ Alive'
    BY <1>5, PollEnds DEF PollSettles
  <2>2. overlay' \in 0..MaxAttempts /\ stray' \in BOOLEAN /\ overlay' = NoOverlay
    BY <1>5, ClosedKinds DEF PollSettles
  <2>3. CASE poll[p].live
    <3>1. shown' \in Settled /\ polling' = FALSE /\ page # "other"
      BY <1>1, <1>5, <2>3 DEF PollSettles, Alive
    <3>2. shown' # "pending"
      BY <3>1 DEF Settled
    <3>3. ViewOK' /\ ViewInv'
      BY <1>1, <1>5, <2>2, <3>1, <3>2 DEF PollSettles, ViewOK, ViewInv, Blank, Owned,
         WaitingIsWatched, OverlayMeansPending
    <3> QED
      BY <1>2, <2>1, <3>3 DEF PagesInv
  <2>4. CASE ~poll[p].live
    <3>1. UNCHANGED <<shown, polling>>
      BY <1>5, <2>4 DEF PollSettles
    <3>2. ViewOK' /\ ViewInv'
      BY <1>1, <1>5, <2>2, <3>1 DEF PollSettles, ViewOK, ViewInv, Blank, Owned,
         WaitingIsWatched, OverlayMeansPending
    <3> QED
      BY <1>2, <2>1, <3>2 DEF PagesInv
  <2> QED
    BY <2>3, <2>4
<1> QED
  BY <1>3, <1>4, <1>5 DEF PollAnswered

LEMMA LossKeeps ==
  ASSUME PagesInv, \/ \E c \in Calls : CallLost(c)
                   \/ \E p \in Polls : PollLost(p)
  PROVE  PagesInv'
<1>1. ViewOK /\ CallsOK /\ PollsOK /\ ServerOK /\ Alive /\ ViewInv /\ UNCHANGED serverVars
  BY DEF PagesInv, CallLost, PollLost
<1>2. ServerOK'
  BY <1>1 DEF ServerOK, serverVars
<1>3. ASSUME NEW c \in Calls, CallLost(c)
      PROVE  PagesInv'
  <2>1. CallsOK' /\ PollsOK' /\ Alive'
    BY <1>3, CallEnds DEF CallLost
  <2>2. busy' \in BOOLEAN
    BY <1>1, <1>3 DEF CallLost, ViewOK
  <2>3. ViewOK' /\ ViewInv'
    BY <1>1, <1>3, <2>2 DEF CallLost, overlayVars, ViewOK, ViewInv, Blank, Owned,
       WaitingIsWatched, OverlayMeansPending
  <2> QED
    BY <1>2, <2>1, <2>3 DEF PagesInv
<1>4. ASSUME NEW p \in Polls, PollLost(p)
      PROVE  PagesInv'
  <2>1. poll' = [poll EXCEPT ![p] = Idle] /\ UNCHANGED <<page, call>>
    BY <1>4 DEF PollLost, viewVars
  <2>2. CallsOK' /\ PollsOK' /\ Alive'
    BY <2>1, PollEnds
  <2> QED
    BY <1>2, <1>4, <2>2, ViewStays DEF PollLost, PagesInv
<1> QED
  BY <1>3, <1>4

-----------------------------------------------------------------------------
(* The server.                                                             *)

\* An attempt below the limit makes another one within it.
LEMMA NextAttempt ==
  ASSUME NEW n \in 0..MaxAttempts, n < MaxAttempts
  PROVE  n + 1 \in 0..MaxAttempts
  BY MaxAttemptsAssumption

LEMMA ServeKeeps ==
  ASSUME PagesInv, NEW c \in Calls, ServeSubmit(c) \/ ServePay(c)
  PROVE  PagesInv'
<1>1. ViewOK /\ CallsOK /\ PollsOK /\ ServerOK /\ Alive /\ ViewInv
  BY DEF PagesInv
<1>2. UNCHANGED viewVars /\ UNCHANGED overlayVars /\ UNCHANGED <<page, poll>>
  BY DEF ServeSubmit, ServePay, viewVars
<1>3. ViewOK' /\ ViewInv'
  BY <1>2, ViewStays
<1>4. 0 \in 0..MaxAttempts /\ 1 \in 0..MaxAttempts
  BY MaxAttemptsAssumption
<1>5. {"refused", "removed", "redirect", "url", "paid"} \subseteq Answers
  BY DEF Answers, Settled
<1>6. ASSUME NEW a \in Answers, NEW n \in 0..MaxAttempts, Answer(c, a, n), ServerOK'
      PROVE  PagesInv'
  BY <1>2, <1>3, <1>6, CallServed DEF PagesInv
<1>7. UNCHANGED serverVars => ServerOK'
  BY <1>1 DEF ServerOK, serverVars
<1>8. CASE ServeSubmit(c)
  <2>1. CASE /\ payment' = "pending" /\ attempt' = 1
             /\ \/ open' = TRUE /\ Answer(c, "url", 1)
                \/ open' = FALSE /\ Answer(c, "redirect", 0)
             /\ UNCHANGED <<late, dead>>
    <3>1. ServerOK'
      BY <1>1, <1>4, <2>1 DEF ServerOK
    <3> QED
      BY <1>4, <1>5, <1>6, <2>1, <3>1
  <2>2. CASE UNCHANGED serverVars /\ \E a \in {"refused", "removed", "redirect"} : Answer(c, a, 0)
    BY <1>4, <1>5, <1>6, <1>7, <2>2
  <2> QED
    BY <1>8, <2>1, <2>2 DEF ServeSubmit
<1>9. CASE ServePay(c)
  <2>1. CASE PayAttempt(c)
    <3>1. CASE attempt < MaxAttempts /\ attempt' = attempt + 1
               /\ \/ open' = TRUE /\ Answer(c, "url", attempt + 1)
                  \/ open' = FALSE /\ Answer(c, "refused", 0)
      <4>1. attempt + 1 \in 0..MaxAttempts
        BY <1>1, <3>1, NextAttempt DEF ServerOK
      <4>2. open' \in BOOLEAN /\ attempt' \in 0..MaxAttempts
        BY <3>1, <4>1
      <4>3. ServerOK'
        BY <1>1, <2>1, <4>2 DEF PayAttempt, ServerOK
      <4>4. PICK a \in {"url", "refused"}, n \in {0, attempt + 1} : Answer(c, a, n)
        BY <3>1
      <4> QED
        BY <1>4, <1>5, <1>6, <4>1, <4>3, <4>4
    <3>2. CASE Answer(c, "refused", 0) /\ UNCHANGED <<attempt, open>>
      <4>1. ServerOK'
        BY <1>1, <2>1, <3>2 DEF PayAttempt, ServerOK
      <4> QED
        BY <1>4, <1>5, <1>6, <3>2, <4>1
    <3> QED
      BY <2>1, <3>1, <3>2 DEF PayAttempt
  <2>2. CASE UNCHANGED serverVars /\ \E a \in {"refused", "paid"} : Answer(c, a, 0)
    BY <1>4, <1>5, <1>6, <1>7, <2>2
  <2> QED
    BY <1>9, <2>1, <2>2 DEF ServePay
<1> QED
  BY <1>8, <1>9

\* A status request is told the status of the order; with an order of no status
\* there is nobody who asks.
LEMMA ServePollKeeps ==
  ASSUME PagesInv, NEW p \in Polls, ServePoll(p)
  PROVE  PagesInv'
<1>1. ServerOK /\ ServerOK'
  BY DEF PagesInv, ServePoll, serverVars, ServerOK
<1>2. payment \in Answers
  BY <1>1 DEF ServerOK, Answers, Settled
<1>3. CallsOK' /\ PollsOK' /\ Alive'
  <2>1. poll' = [poll EXCEPT ![p].answer = payment] /\ UNCHANGED <<page, call>>
    BY DEF ServePoll, viewVars
  <2> QED
    BY <1>2, <2>1, PollServed
<1> QED
  BY <1>1, <1>3, ViewStays DEF ServePoll, PagesInv

LEMMA ServerKeeps ==
  ASSUME PagesInv, PaymentSettles \/ DeadlinePasses \/ OrderEnds
  PROVE  PagesInv'
<1>1. ServerOK'
  BY DEF PagesInv, ServerOK, PaymentSettles, DeadlinePasses, OrderEnds, Settled
<1>2. UNCHANGED viewVars /\ UNCHANGED overlayVars /\ UNCHANGED <<page, call, poll>>
  BY DEF PaymentSettles, DeadlinePasses, OrderEnds, viewVars
<1>3. CallsOK' /\ PollsOK' /\ Alive'
  BY <1>2 DEF PagesInv, CallsOK, PollsOK, Alive
<1> QED
  BY <1>1, <1>2, <1>3, ViewStays DEF PagesInv

-----------------------------------------------------------------------------
(* The theorems.                                                           *)

LEMMA InitPages == Init => PagesInv
<1> SUFFICES ASSUME Init PROVE PagesInv
  OBVIOUS
<1>1. 0 \in 0..MaxAttempts
  BY MaxAttemptsAssumption
<1>2. ViewOK /\ ServerOK
  BY <1>1 DEF Init, ViewOK, ServerOK, NoOverlay
<1>3. CallsOK /\ PollsOK /\ Alive
  BY RequestKinds DEF Init, CallsOK, PollsOK, Alive
<1>4. ViewInv
  BY DEF Init, ViewInv, Blank, Owned, WaitingIsWatched, OverlayMeansPending
<1> QED
  BY <1>2, <1>3, <1>4 DEF PagesInv

LEMMA StepKeepsPages ==
  ASSUME PagesInv, [Next]_pageVars
  PROVE  PagesInv'
<1>1. CASE UNCHANGED pageVars
  <2>1. CallsOK' /\ PollsOK' /\ ServerOK' /\ Alive'
    BY <1>1 DEF PagesInv, pageVars, viewVars, serverVars, CallsOK, PollsOK, ServerOK, Alive
  <2> QED
    BY <1>1, <2>1, ViewStays DEF pageVars, PagesInv
<1>2. CASE Next
  BY <1>2, CustomerKeeps, TimersKeep, SubmitKeeps, RetryKeeps, PayKeeps, PollKeeps, LossKeeps,
     ServeKeeps, ServePollKeeps, ServerKeeps DEF Next, CallAnswered
<1> QED
  BY <1>1, <1>2

\* The invariant holds for any number of attempts and of requests in flight.
THEOREM PagesInvariant == Spec => []PagesInv
<1>1. Init => PagesInv
  BY InitPages
<1>2. PagesInv /\ [Next]_pageVars => PagesInv'
  BY StepKeepsPages
<1> QED
  BY <1>1, <1>2, PTL DEF Spec

\* The kinds: no attempt beyond the limit is ever opened.
THEOREM PagesTypeOKHolds == Spec => []PagesTypeOK
<1>1. PagesInv => PagesTypeOK
  BY TypeParts DEF PagesInv
<1> QED
  BY <1>1, PagesInvariant, PTL

\* The panel that says the status is updated automatically tells the truth.
THEOREM WaitingIsWatchedHolds == Spec => []WaitingIsWatched
<1>1. PagesInv => WaitingIsWatched
  BY DEF PagesInv, ViewInv
<1> QED
  BY <1>1, PagesInvariant, PTL

\* The overlay of the mounted page never covers a result.
THEOREM OverlayMeansPendingHolds == Spec => []OverlayMeansPending
<1>1. PagesInv => OverlayMeansPending
  BY DEF PagesInv, ViewInv
<1> QED
  BY <1>1, PagesInvariant, PTL
=============================================================================
