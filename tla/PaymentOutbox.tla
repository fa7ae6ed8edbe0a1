------------------------------ MODULE PaymentOutbox ------------------------------
(***************************************************************************)
(* One row of payment_outbox_events on its way to its listener             *)
(* (PaymentOutboxEvent, DispatchPaymentOutboxEvent, DispatchPaymentOutbox).*)
(*                                                                         *)
(* Two leases guard the row: the claim, under which one job at a time      *)
(* looks after it, and the consumer claim, under which one worker at a     *)
(* time tells the listener.  Each is taken, kept up and given up by single *)
(* conditional UPDATEs, which are the steps here; a worker can stop, throw *)
(* or be killed between any two of them.  Time passes in Tick: the queue   *)
(* kills a job that has run for Timeout, and a lease lasts Lease.          *)
(***************************************************************************)
EXTENDS Failures

CONSTANTS
  Jobs,         \* jobs that may be queued or running at once
  NoJob,
  Timeout,      \* how long a job may run (240 seconds)
  Lease,        \* how long a claim lasts (5 minutes)
  Backoff       \* the longest wait after a failure

ASSUME NoJobAssumption == NoJob \notin Jobs
ASSUME LeaseAssumption == Timeout \in Nat /\ Lease \in Nat /\ Timeout < Lease
ASSUME BackoffAssumption == Backoff \in Nat

VARIABLES
  row,          \* status, claim_token, age of the claim, time to next_attempt_at
  consumer,     \* the same of the consumer's columns
  job,          \* job[j]: its next statement, how long it runs, has it a token
  effects       \* how often the listener was called

outboxVars == <<row, consumer, job, effects>>

JobAt(statement) == [at |-> statement, age |-> 0, claimed |-> FALSE]
JobFree == JobAt("free")
Waiting == {"free", "command", "queued"}
Running(j) == job[j].at \notin Waiting

\* scopePending.
Pending ==
  /\ row.status = "pending" /\ row.wait = 0
  /\ row.claim = NoJob \/ row.claimAge >= Lease

At(j, from) == job[j].at = from

To(j, to) == job' = [job EXCEPT ![j].at = to]

Begins(j) == job' = [job EXCEPT ![j] = JobAt("owns")]

\* The job ends.
Ends(j) == job' = [job EXCEPT ![j] = JobFree]

ClaimRow(j) == row' = [row EXCEPT !.claim = j, !.claimAge = 0]
Unclaimed(status, wait) == [status |-> status, claim |-> NoJob, claimAge |-> 0, wait |-> wait]
ConsumerIs(status, wait) == [status |-> status, claim |-> NoJob, age |-> 0, wait |-> wait]

-----------------------------------------------------------------------------
(* Creating the row, and the command that runs every minute.               *)

\* emitEvents, in the transaction of the transition; the job that is queued
\* after the commit carries no token, and queueing it may fail.
Emit ==
  /\ row.status = "none"
  /\ row' = [row EXCEPT !.status = "pending"]
  /\ \/ UNCHANGED job
     \/ \E j \in Jobs : /\ At(j, "free")
                        /\ job' = [job EXCEPT ![j].at = "queued"]
  /\ UNCHANGED <<consumer, effects>>

CommandClaims(j) ==
  /\ At(j, "free") /\ Pending
  /\ ClaimRow(j)
  /\ job' = [job EXCEPT ![j] = [at |-> "command", age |-> 0, claimed |-> TRUE]]
  /\ UNCHANGED <<consumer, effects, failures>>

Enqueue(j) ==
  /\ At(j, "command") /\ To(j, "queued")
  /\ UNCHANGED <<row, consumer, effects, failures>>

\* releaseClaim.
EnqueueFails(j) ==
  /\ At(j, "command") /\ Ends(j) /\ Fails
  /\ row' = IF row.claim = j THEN Unclaimed(row.status, 0) ELSE row
  /\ UNCHANGED <<consumer, effects>>

-----------------------------------------------------------------------------
(* DispatchPaymentOutboxEvent::handle, statement by statement.             *)

\* A job without a token claims the row itself, if it still can.
Start(j) ==
  /\ At(j, "queued")
  /\ \/ job[j].claimed /\ UNCHANGED row /\ Begins(j)
     \/ ~job[j].claimed /\ Pending /\ ClaimRow(j) /\ Begins(j)
     \/ ~job[j].claimed /\ ~Pending /\ UNCHANGED row /\ Ends(j)
  /\ UNCHANGED <<consumer, effects, failures>>

OwnsClaim(j) ==
  /\ At(j, "owns")
  /\ IF row.status = "pending" /\ row.claim = j THEN To(j, "looks") ELSE Ends(j)
  /\ UNCHANGED <<row, consumer, effects, failures>>

ConsumerCompleted(j) ==
  /\ At(j, "looks")
  /\ To(j, IF consumer.status = "completed" THEN "marks" ELSE "takes")
  /\ UNCHANGED <<row, consumer, effects, failures>>

\* Mutant: a consumer claim is taken over however young it is.
ConsumerFreeAnyAge ==
  \/ consumer.status = "pending" /\ consumer.wait = 0
  \/ consumer.status = "processing"

ConsumerFree ==
  \/ consumer.status = "pending" /\ consumer.wait = 0
  \/ consumer.status = "processing" /\ consumer.age >= Lease

ClaimConsumer(j) ==
  /\ At(j, "takes")
  /\ IF ConsumerFree
       THEN /\ consumer' = [consumer EXCEPT !.status = "processing", !.claim = j, !.age = 0]
            /\ To(j, "renews")
       ELSE Ends(j) /\ UNCHANGED consumer
  /\ UNCHANGED <<row, effects, failures>>

\* Losing the claim here leaves the consumer claim to run out.
RenewClaim(j) ==
  /\ At(j, "renews")
  /\ IF row.claim = j
       THEN row' = [row EXCEPT !.claimAge = 0] /\ To(j, "renews_consumer")
       ELSE Ends(j) /\ UNCHANGED row
  /\ UNCHANGED <<consumer, effects, failures>>

OwnsConsumer(j) == consumer.status = "processing" /\ consumer.claim = j

RenewConsumerClaim(j) ==
  /\ At(j, "renews_consumer")
  /\ IF OwnsConsumer(j)
       THEN consumer' = [consumer EXCEPT !.age = 0] /\ To(j, "delivers")
       ELSE Ends(j) /\ UNCHANGED consumer
  /\ UNCHANGED <<row, effects, failures>>

Deliver(j) ==
  /\ At(j, "delivers") /\ To(j, "completes")
  /\ effects' = effects + 1
  /\ UNCHANGED <<row, consumer, failures>>

CompleteConsumer(j) ==
  /\ At(j, "completes")
  /\ IF OwnsConsumer(j)
       THEN /\ consumer' = ConsumerIs("completed", 0)
            /\ To(j, "marks")
       ELSE Ends(j) /\ UNCHANGED consumer
  /\ UNCHANGED <<row, effects, failures>>

OwnsRow(j) == row.status = "pending" /\ row.claim = j

MarkDelivered(j) ==
  /\ At(j, "marks") /\ Ends(j)
  /\ row' = IF OwnsRow(j) THEN Unclaimed("delivered", 0) ELSE row
  /\ UNCHANGED <<consumer, effects, failures>>

-----------------------------------------------------------------------------
(* Failures.                                                               *)

\* An exception; the listener may throw before or after it had an effect.
ThrowInJob(j) ==
  /\ Running(j) /\ job[j].at \notin {"fails_consumer", "fails"}
  /\ To(j, IF job[j].at \in {"owns", "looks", "takes"} THEN "fails" ELSE "fails_consumer")
  /\ effects' \in IF At(j, "delivers") THEN {effects, effects + 1} ELSE {effects}
  /\ Fails
  /\ UNCHANGED <<row, consumer>>

FailConsumer(j) ==
  /\ At(j, "fails_consumer") /\ To(j, "fails")
  /\ consumer' = IF OwnsConsumer(j)
                   THEN ConsumerIs("pending", Backoff)
                   ELSE consumer
  /\ UNCHANGED <<row, effects, failures>>

MarkFailed(j) ==
  /\ At(j, "fails") /\ Ends(j)
  /\ row' = IF OwnsRow(j) THEN Unclaimed("pending", Backoff) ELSE row
  /\ UNCHANGED <<consumer, effects, failures>>

\* The process or the queued job is lost, or the queue kills it at its timeout.
Kill(j) ==
  /\ ~At(j, "free")
  /\ Ends(j) /\ Fails
  /\ UNCHANGED <<row, consumer, effects>>

-----------------------------------------------------------------------------
Older(age) == IF age < Lease THEN age + 1 ELSE age
Sooner(wait) == IF wait > 0 THEN wait - 1 ELSE 0

\* Mutant: nothing stops a job that takes long.
TickNeverKills ==
  /\ row' = [row EXCEPT !.claimAge = IF row.claim = NoJob THEN 0 ELSE Older(@),
                        !.wait = Sooner(@)]
  /\ consumer' = [consumer EXCEPT !.age = IF consumer.claim = NoJob THEN 0 ELSE Older(@),
                                  !.wait = Sooner(@)]
  /\ job' = [j \in Jobs |-> IF Running(j) THEN [job[j] EXCEPT !.age = @ + 1] ELSE job[j]]
  /\ UNCHANGED <<effects, failures>>

\* Time passes; no job outlives its timeout.
Tick ==
  /\ \A j \in Jobs : Running(j) => job[j].age < Timeout
  /\ row' = [row EXCEPT !.claimAge = IF row.claim = NoJob THEN 0 ELSE Older(@),
                        !.wait = Sooner(@)]
  /\ consumer' = [consumer EXCEPT !.age = IF consumer.claim = NoJob THEN 0 ELSE Older(@),
                                  !.wait = Sooner(@)]
  /\ job' = [j \in Jobs |-> IF Running(j) THEN [job[j] EXCEPT !.age = @ + 1] ELSE job[j]]
  /\ UNCHANGED <<effects, failures>>

OutboxInit ==
  /\ row = Unclaimed("none", 0)
  /\ consumer = ConsumerIs("pending", 0)
  /\ job = [j \in Jobs |-> JobFree]
  /\ effects = 0

\* What a queued or running job does unless something fails.
JobStep(j) ==
  \/ Enqueue(j) \/ Start(j)
  \/ OwnsClaim(j) \/ ConsumerCompleted(j) \/ ClaimConsumer(j)
  \/ RenewClaim(j) \/ RenewConsumerClaim(j)
  \/ Deliver(j) \/ CompleteConsumer(j) \/ MarkDelivered(j)
  \/ FailConsumer(j) \/ MarkFailed(j)

JobFailure(j) == EnqueueFails(j) \/ ThrowInJob(j) \/ Kill(j)

Statements ==
  {"free", "command", "queued", "owns", "looks", "takes", "renews", "renews_consumer",
   "delivers", "completes", "marks", "fails_consumer", "fails"}

RowStates ==
  [status : {"none", "pending", "delivered"}, claim : Jobs \cup {NoJob},
   claimAge : 0..Lease, wait : 0..Backoff]

ConsumerStates ==
  [status : {"pending", "processing", "completed"}, claim : Jobs \cup {NoJob},
   age : 0..Lease, wait : 0..Backoff]

JobStates == [at : Statements, age : 0..Timeout, claimed : BOOLEAN]

\* The row, the consumer's columns and the jobs are of their kinds, and no job
\* runs longer than the queue lets it.
OutboxTypeOK ==
  /\ row \in RowStates
  /\ consumer \in ConsumerStates
  /\ job \in [Jobs -> JobStates]
  /\ effects \in Nat
=============================================================================
