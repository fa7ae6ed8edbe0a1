----------------------------- MODULE PaymentMessaging -----------------------------
(***************************************************************************)
(* A success report of the gateway from end to end: the webhook records it *)
(* and creates its outbox row in one transaction (payment.paid), and the   *)
(* outbox tells the outlet (the listener in AppServiceProvider).           *)
(***************************************************************************)
EXTENDS WebhookIngress, PaymentOutbox

messagingVars == <<ingressVars, outboxVars, failures>>

\* CanonicalPaymentTransitionService::apply commits the payment and the row;
\* only the first success of an attempt changes it and creates one.
Transition(q) ==
  /\ Apply(q)
  /\ IF recorded THEN UNCHANGED outboxVars ELSE Emit

MessagingInit == IngressInit /\ OutboxInit /\ FailuresInit

\* The gateway sends the report, again and again until it has its answer.
GatewaySends(q) == Receive(q)

IngressStep(q) ==
  \/ Transition(q)
  \/ GatewaySends(q) /\ UNCHANGED outboxVars
  \/ RequestStep(q) /\ UNCHANGED outboxVars
  \/ RequestFailure(q) /\ UNCHANGED outboxVars

OutboxStep(j) == CommandClaims(j) \/ JobStep(j) \/ JobFailure(j)

MessagingNext ==
  \/ \E q \in Requests : IngressStep(q)
  \/ ClaimGrowsOld /\ UNCHANGED outboxVars
  \/ \E j \in Jobs : OutboxStep(j) /\ UNCHANGED ingressVars
  \/ Tick /\ UNCHANGED ingressVars

\* Time runs on past the claim of a request or a job that is still at it: a
\* request that takes five minutes, a queue that is five minutes behind.
Overrun ==
  \/ ClaimGrowsOld /\ \E q \in Requests : log.claim = q /\ request[q] # "free"
  \/ /\ Tick /\ row.claimAge + 1 >= Lease
     /\ \E j \in Jobs : row.claim = j /\ job[j].at # "free"

\* The gateway repeats itself, requests and jobs that run go on, time passes,
\* and the command is scheduled every minute.  Claims may be overrun for as long
\* as they like, but not for ever.  Failures are never owed.
MessagingFairness ==
  /\ \A q \in Requests :
       /\ WF_messagingVars(GatewaySends(q) /\ UNCHANGED outboxVars)
       /\ WF_messagingVars(Transition(q))
       /\ WF_messagingVars(RequestStep(q) /\ UNCHANGED outboxVars)
  /\ WF_messagingVars(ClaimGrowsOld /\ UNCHANGED outboxVars)
  /\ \A j \in Jobs : WF_messagingVars(JobStep(j) /\ UNCHANGED ingressVars)
  /\ WF_messagingVars((\E j \in Jobs : CommandClaims(j)) /\ UNCHANGED ingressVars)
  /\ WF_messagingVars(Tick /\ UNCHANGED ingressVars)
  /\ <>[][~Overrun]_messagingVars

MessagingSpec == MessagingInit /\ [][MessagingNext]_messagingVars /\ MessagingFairness

-----------------------------------------------------------------------------
(* Properties.                                                             *)

\* Both ends are of their kinds, and failures stay within their bound.
MessagingTypeOK == IngressTypeOK /\ OutboxTypeOK /\ failures \in 0..MaxFailures

\* Two workers never tell the listener at the same time: a consumer claim is
\* only taken over from a worker that is no longer there, because the queue kills
\* a job before its claim runs out.
OneDeliversAtATime ==
  \A i, j \in Jobs :
    {job[i].at, job[j].at} \subseteq {"delivers", "completes"} => i = j

\* The listener is called a second time only after something failed, however
\* many jobs were queued for the row: each repetition costs a failure.
RepeatsNeedFailures == effects <= failures + 1

\* PaymentMessaging implements ReportedPayment: the report is recorded by the
\* transition, answered by the log's claim, and noted in consumer_status.
Report == INSTANCE ReportedPayment WITH
  told <- effects, noted <- consumer.status = "completed"

\* No answer before the commit, no call of the listener before the row exists or
\* after the consumer is completed, and in the end both have happened.
ImplementsReportedPayment == Report!ReportSpec
=============================================================================
