------------------------------ MODULE WebhookIngress ------------------------------
(***************************************************************************)
(* How one success report of the gateway comes in                          *)
(* (DokuWebhookIngressService::receive).  The gateway sends the same       *)
(* request until it is answered with 200, the next one possibly before the *)
(* last is answered.  A report is logged under its Request-Id, claimed     *)
(* with a token for five minutes, handed to the payment transition, and    *)
(* closed only by the request whose token the log still carries.           *)
(*                                                                         *)
(* Nothing bounds how long a request takes, so the claim can run out under *)
(* a request that is alive.  Requests with a bad signature, or with a body *)
(* other than the first one's, are refused without a write and left out.   *)
(***************************************************************************)
EXTENDS Failures

CONSTANTS
  Requests,     \* HTTP requests that may be under way at once
  NoRequest

ASSUME NoRequestAssumption == NoRequest \notin Requests

VARIABLES
  log,          \* the payment_webhook_logs row: status, claim, is the claim old
  request,      \* where each request is in receive()
  acknowledged, \* the gateway has been answered with 200
  recorded      \* the payment transition was committed

ingressVars == <<log, request, acknowledged, recorded>>

Goes(q, from, to) == request[q] = from /\ request' = [request EXCEPT ![q] = to]

-----------------------------------------------------------------------------
\* The row is created by the first request and found by the others; two that
\* create it at once meet in the unique index.
Receive(q) ==
  /\ ~acknowledged
  /\ Goes(q, "free", "logged")
  /\ log' = IF log.status = "none" THEN [log EXCEPT !.status = "received"] ELSE log
  /\ UNCHANGED <<acknowledged, recorded, failures>>

AlreadyProcessed(q) ==
  /\ log.status = "processed"
  /\ Goes(q, "logged", "free")
  /\ acknowledged' = TRUE
  /\ UNCHANGED <<log, recorded, failures>>

\* Answered with 202: another request is at it.
StillProcessing(q) ==
  /\ log.status = "processing" /\ ~log.old
  /\ Goes(q, "logged", "free")
  /\ UNCHANGED <<log, acknowledged, recorded, failures>>

Claim(q) ==
  /\ log.status # "processed"
  /\ ~(log.status = "processing" /\ ~log.old)
  /\ Goes(q, "logged", "claimed")
  /\ log' = [status |-> "processing", claim |-> q, old |-> FALSE]
  /\ UNCHANGED <<acknowledged, recorded, failures>>

\* handleNormalizedWebhook: a report of what is recorded changes nothing.
Apply(q) ==
  /\ Goes(q, "claimed", "applied")
  /\ recorded' = TRUE
  /\ UNCHANGED <<log, acknowledged, failures>>

\* Mutant: the answer is 200 whoever holds the claim, and from the start.
FinishAnyway(q) ==
  /\ request[q] \in {"claimed", "applied"}
  /\ request' = [request EXCEPT ![q] = "free"]
  /\ log' = [status |-> "processed", claim |-> NoRequest, old |-> FALSE]
  /\ acknowledged' = TRUE
  /\ UNCHANGED <<recorded, failures>>

\* Answered with 409 when another request has taken the claim over.
Finish(q) ==
  /\ Goes(q, "applied", "free")
  /\ IF log.claim = q
       THEN /\ log' = [status |-> "processed", claim |-> NoRequest, old |-> FALSE]
            /\ acknowledged' = TRUE
       ELSE UNCHANGED <<log, acknowledged>>
  /\ UNCHANGED <<recorded, failures>>

\* The transition throws, or what follows its commit: the row is retryable, if
\* it is still this request's.
Throw(q) ==
  /\ request[q] \in {"claimed", "applied"}
  /\ Goes(q, request[q], "free")
  /\ log' = IF log.claim = q
              THEN [status |-> "retryable", claim |-> NoRequest, old |-> FALSE] ELSE log
  /\ Fails
  /\ UNCHANGED <<acknowledged, recorded>>

Die(q) ==
  /\ request[q] # "free"
  /\ Goes(q, request[q], "free")
  /\ Fails
  /\ UNCHANGED <<log, acknowledged, recorded>>

\* Five minutes after the claim.
ClaimGrowsOld ==
  /\ log.status = "processing" /\ ~log.old
  /\ log' = [log EXCEPT !.old = TRUE]
  /\ UNCHANGED <<request, acknowledged, recorded, failures>>

-----------------------------------------------------------------------------
IngressInit ==
  /\ log = [status |-> "none", claim |-> NoRequest, old |-> FALSE]
  /\ request = [q \in Requests |-> "free"]
  /\ acknowledged = FALSE
  /\ recorded = FALSE

\* What a request does on its own, the transition aside.
RequestStep(q) ==
  AlreadyProcessed(q) \/ StillProcessing(q) \/ Claim(q) \/ Finish(q)

RequestFailure(q) == Throw(q) \/ Die(q)

LogStatuses == {"none", "received", "processing", "processed", "retryable"}
LogStates ==
  [status : LogStatuses, claim : Requests \cup {NoRequest}, old : BOOLEAN]

\* The row, the requests and the answers are of their kinds.
IngressTypeOK ==
  /\ log \in LogStates
  /\ request \in [Requests -> {"free", "logged", "claimed", "applied"}]
  /\ acknowledged \in BOOLEAN
  /\ recorded \in BOOLEAN
=============================================================================
