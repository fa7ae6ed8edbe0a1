-------------------------- MODULE PaymentMessagingProofs --------------------------
(***************************************************************************)
(* Proofs about the way of a payment report.  The outbox is safe because   *)
(* of one comparison: a worker that holds the consumer claim has run for   *)
(* at least as long as the claim is old (HolderOwns), it is killed after   *)
(* Timeout, and Timeout < Lease.  So no claim runs out under its holder.   *)
(***************************************************************************)
EXTENDS PaymentMessaging, TLAPS

Holding == {"renews", "renews_consumer", "delivers", "completes"}

HolderOwns ==
  \A j \in Jobs : job[j].at \in Holding =>
    OwnsConsumer(j) /\ consumer.age <= job[j].age

\* The one call of the listener that no failure has paid for yet.
Told == consumer.status = "completed" \/ \E j \in Jobs : job[j].at = "completes"

Counted == /\ effects <= failures + 1
           /\ ~Told => effects <= failures
           /\ Told => effects > 0

\* Jobs are about a row that exists.
JobHasRow == \A j \in Jobs : job[j].at # "free" => row.status # "none"

FailuresOK == failures \in 0..MaxFailures

OutboxInv == OutboxTypeOK /\ FailuresOK /\ HolderOwns /\ Counted /\ JobHasRow

\* The log and the row follow the commit.
Booked ==
  /\ \A q \in Requests : request[q] = "applied" => recorded
  /\ log.status = "processed" => recorded
  /\ row.status # "none" => recorded
  /\ recorded => row.status # "none"

MessagingInv == IngressTypeOK /\ OutboxInv /\ Booked

OutboxShape == OutboxTypeOK /\ FailuresOK

-----------------------------------------------------------------------------
(* The steps of the webhook.                                               *)

\* Further failures pay for as many calls as there were.
LEMMA FailuresPay ==
  ASSUME NEW e \in Nat, NEW f \in Nat, NEW g \in Nat, f <= g
  PROVE  (e <= f => e <= g) /\ (e <= f + 1 => e <= g + 1)
  OBVIOUS

\* A step that neither calls nor notes keeps the count, whatever fails.
LEMMA NothingToldCounted ==
  ASSUME Counted, Told' <=> Told, effects' = effects, effects \in Nat,
         failures \in Nat, failures' \in Nat, failures <= failures'
  PROVE  Counted'
<1>1. /\ effects <= failures => effects <= failures'
      /\ effects <= failures + 1 => effects <= failures' + 1
  BY FailuresPay
<1> QED
  BY <1>1, Zenon DEF Counted

IngressQuiet(q) == GatewaySends(q) \/ RequestStep(q) \/ RequestFailure(q)

\* The log and the requests stay of their kinds, and are closed after the commit.
LEMMA IngressKeeps ==
  ASSUME MessagingInv, NEW q \in Requests, IngressQuiet(q), UNCHANGED outboxVars
  PROVE  MessagingInv'
<1> USE MaxFailuresAssumption DEF Goes
<1>1. log' \in LogStates
  <2>1. /\ \A s \in LogStatuses : [status |-> s, claim |-> NoRequest, old |-> FALSE] \in LogStates
        /\ [status |-> "processing", claim |-> q, old |-> FALSE] \in LogStates
        /\ [log EXCEPT !.status = "received"] \in LogStates
    BY DEF MessagingInv, IngressTypeOK, LogStates, LogStatuses
  <2> QED
    BY <2>1 DEF MessagingInv, IngressTypeOK, LogStatuses, IngressQuiet, GatewaySends, Receive,
       RequestStep, AlreadyProcessed, StillProcessing, Claim, Finish, RequestFailure, Throw, Die
<1>2. /\ request' \in [Requests -> {"free", "logged", "claimed", "applied"}]
      /\ acknowledged' \in BOOLEAN /\ recorded' \in BOOLEAN
  BY DEF MessagingInv, IngressTypeOK, IngressQuiet, GatewaySends, Receive,
     RequestStep, AlreadyProcessed, StillProcessing, Claim, Finish, RequestFailure, Throw, Die
<1>3. failures' \in 0..MaxFailures /\ failures <= failures'
  BY DEF MessagingInv, OutboxInv, FailuresOK, Fails, IngressQuiet, GatewaySends, Receive,
     RequestStep, AlreadyProcessed, StillProcessing, Claim, Finish, RequestFailure, Throw, Die
<1>4. OutboxInv'
  <2>1. OutboxTypeOK' /\ HolderOwns' /\ JobHasRow'
    BY DEF MessagingInv, OutboxInv, OutboxTypeOK, HolderOwns, OwnsConsumer, JobHasRow, outboxVars
  <2>2. Told' <=> Told
    BY DEF Told, outboxVars
  <2>3. effects' = effects /\ effects \in Nat /\ failures \in Nat /\ failures' \in Nat
    BY <1>3 DEF MessagingInv, OutboxInv, OutboxTypeOK, FailuresOK, outboxVars
  <2>4. Counted'
    BY <1>3, <2>2, <2>3, NothingToldCounted DEF MessagingInv, OutboxInv
  <2> QED
    BY <1>3, <2>1, <2>4 DEF OutboxInv, FailuresOK
<1>5. Booked'
  <2>1. recorded' = recorded /\ row' = row
    BY DEF outboxVars, IngressQuiet, GatewaySends, Receive, RequestStep, AlreadyProcessed,
       StillProcessing, Claim, Finish, RequestFailure, Throw, Die
  <2>2. log'.status = "processed" => recorded
    BY DEF MessagingInv, Booked, IngressTypeOK, LogStates, IngressQuiet, GatewaySends, Receive,
       RequestStep, AlreadyProcessed, StillProcessing, Claim, Finish, RequestFailure, Throw, Die
  <2>3. \E to \in {"logged", "claimed", "free"} : request' = [request EXCEPT ![q] = to]
    BY DEF IngressQuiet, GatewaySends, Receive,
       RequestStep, AlreadyProcessed, StillProcessing, Claim, Finish, RequestFailure, Throw, Die
  <2>4. \A r \in Requests : request'[r] = "applied" => request[r] = "applied"
    <3>1. PICK to \in {"logged", "claimed", "free"} : request' = [request EXCEPT ![q] = to]
      BY <2>3
    <3>2. DOMAIN request = Requests
      BY DEF MessagingInv, IngressTypeOK
    <3> QED
      BY <3>1, <3>2
  <2> QED
    BY <2>1, <2>2, <2>4 DEF MessagingInv, Booked
<1> QED
  BY <1>1, <1>2, <1>4, <1>5 DEF MessagingInv, IngressTypeOK

-----------------------------------------------------------------------------
(* The steps of the outbox.                                                *)

\* What the columns of the row are set to.
LEMMA RowIsSet ==
  ASSUME row \in RowStates, NEW j \in Jobs
  PROVE  /\ \A s \in {"none", "pending", "delivered"}, w \in {0, Backoff} :
              Unclaimed(s, w) \in RowStates
         /\ Unclaimed(row.status, 0) \in RowStates
         /\ [row EXCEPT !.claim = j, !.claimAge = 0] \in RowStates
         /\ [row EXCEPT !.claimAge = 0] \in RowStates
         /\ [row EXCEPT !.status = "pending"] \in RowStates
<1>1. 0 \in 0..Lease /\ 0 \in 0..Backoff /\ Backoff \in 0..Backoff /\ j \in Jobs \cup {NoJob}
  BY LeaseAssumption, BackoffAssumption
<1>2. \A s \in {"none", "pending", "delivered"}, w \in {0, Backoff} :
        Unclaimed(s, w) \in RowStates
  BY <1>1 DEF RowStates, Unclaimed
<1>3. Unclaimed(row.status, 0) \in RowStates
  BY <1>2 DEF RowStates
<1>4. [row EXCEPT !.claim = j, !.claimAge = 0] \in RowStates
  BY <1>1 DEF RowStates
<1>5. [row EXCEPT !.claimAge = 0] \in RowStates /\ [row EXCEPT !.status = "pending"] \in RowStates
  BY <1>1 DEF RowStates
<1> QED
  BY <1>2, <1>3, <1>4, <1>5

\* What the consumer's columns are set to.
LEMMA ConsumerIsSet ==
  ASSUME consumer \in ConsumerStates, NEW j \in Jobs
  PROVE  /\ \A s \in {"pending", "completed"}, w \in {0, Backoff} :
              ConsumerIs(s, w) \in ConsumerStates
         /\ [consumer EXCEPT !.status = "processing", !.claim = j, !.age = 0]
              \in ConsumerStates
         /\ [consumer EXCEPT !.age = 0] \in ConsumerStates
<1>1. 0 \in 0..Lease /\ 0 \in 0..Backoff /\ Backoff \in 0..Backoff /\ j \in Jobs \cup {NoJob}
  BY LeaseAssumption, BackoffAssumption
<1>2. \A s \in {"pending", "completed"}, w \in {0, Backoff} :
        ConsumerIs(s, w) \in ConsumerStates
  BY <1>1 DEF ConsumerStates, ConsumerIs
<1>3. [consumer EXCEPT !.status = "processing", !.claim = j, !.age = 0] \in ConsumerStates
  BY <1>1 DEF ConsumerStates
<1>4. [consumer EXCEPT !.age = 0] \in ConsumerStates
  BY <1>1 DEF ConsumerStates
<1> QED
  BY <1>2, <1>3, <1>4

\* A job goes to another statement, or is put into another state as a whole.
LEMMA JobIsSet ==
  ASSUME job \in [Jobs -> JobStates], NEW j \in Jobs
  PROVE  /\ \A s \in Statements : [job EXCEPT ![j].at = s] \in [Jobs -> JobStates]
         /\ [job EXCEPT ![j] = JobFree] \in [Jobs -> JobStates]
         /\ [job EXCEPT ![j] = JobAt("owns")] \in [Jobs -> JobStates]
         /\ [job EXCEPT ![j] = [at |-> "command", age |-> 0, claimed |-> TRUE]]
              \in [Jobs -> JobStates]
<1>1. 0 \in 0..Timeout
  BY LeaseAssumption
<1>2. JobAt("free") \in JobStates /\ JobAt("owns") \in JobStates
  BY <1>1 DEF JobAt, JobStates, Statements
<1>3. [at |-> "command", age |-> 0, claimed |-> TRUE] \in JobStates
  BY <1>1 DEF JobStates, Statements
<1>4. \A s \in Statements : [job[j] EXCEPT !.at = s] \in JobStates
  BY DEF JobStates
<1> QED
  BY <1>2, <1>3, <1>4 DEF JobFree

\* The row, the consumer's columns, the jobs and the failures stay of their kinds.
LEMMA JobStepShape ==
  ASSUME OutboxShape, NEW j \in Jobs, OutboxStep(j)
  PROVE  OutboxShape'
<1> USE MaxFailuresAssumption
<1> USE DEF OutboxShape, OutboxTypeOK, FailuresOK, At, To, Ends, Statements
<1>a. /\ \A s \in {"none", "pending", "delivered"}, w \in {0, Backoff} :
           Unclaimed(s, w) \in RowStates
      /\ Unclaimed(row.status, 0) \in RowStates
      /\ [row EXCEPT !.claim = j, !.claimAge = 0] \in RowStates
      /\ [row EXCEPT !.claimAge = 0] \in RowStates
  BY RowIsSet
<1>b. /\ \A s \in {"pending", "completed"}, w \in {0, Backoff} :
           ConsumerIs(s, w) \in ConsumerStates
      /\ [consumer EXCEPT !.status = "processing", !.claim = j, !.age = 0]
           \in ConsumerStates
      /\ [consumer EXCEPT !.age = 0] \in ConsumerStates
  BY ConsumerIsSet
<1>c. /\ \A s \in Statements : [job EXCEPT ![j].at = s] \in [Jobs -> JobStates]
      /\ [job EXCEPT ![j] = JobFree] \in [Jobs -> JobStates]
      /\ [job EXCEPT ![j] = JobAt("owns")] \in [Jobs -> JobStates]
      /\ [job EXCEPT ![j] = [at |-> "command", age |-> 0, claimed |-> TRUE]]
           \in [Jobs -> JobStates]
  BY JobIsSet
<1>1. CASE CommandClaims(j)
  BY <1>1, <1>a, <1>b, <1>c DEF CommandClaims, ClaimRow
<1>2. CASE Enqueue(j) \/ OwnsClaim(j) \/ ConsumerCompleted(j)
  BY <1>2, <1>a, <1>b, <1>c DEF Enqueue, OwnsClaim, ConsumerCompleted
<1>3. CASE Start(j)
  BY <1>3, <1>a, <1>b, <1>c DEF Start, ClaimRow, Begins
<1>4. CASE ClaimConsumer(j)
  BY <1>4, <1>a, <1>b, <1>c DEF ClaimConsumer
<1>5. CASE RenewClaim(j) \/ RenewConsumerClaim(j)
  BY <1>5, <1>a, <1>b, <1>c DEF RenewClaim, RenewConsumerClaim
<1>6. CASE Deliver(j)
  BY <1>6, <1>a, <1>b, <1>c DEF Deliver
<1>7. CASE CompleteConsumer(j) \/ FailConsumer(j)
  BY <1>7, <1>a, <1>b, <1>c DEF CompleteConsumer, FailConsumer
<1>8. CASE MarkDelivered(j) \/ MarkFailed(j)
  BY <1>8, <1>a, <1>b, <1>c DEF MarkDelivered, MarkFailed
<1>9. CASE EnqueueFails(j)
  BY <1>9, <1>a, <1>b, <1>c DEF EnqueueFails, Fails
<1>10. CASE ThrowInJob(j)
  BY <1>10, <1>a, <1>b, <1>c DEF ThrowInJob, Fails
<1>11. CASE Kill(j)
  BY <1>11, <1>a, <1>b, <1>c DEF Kill, Fails
<1> QED
  BY <1>1, <1>2, <1>3, <1>4, <1>5, <1>6, <1>7, <1>8, <1>9, <1>10, <1>11
  DEF OutboxStep, JobStep, JobFailure

\* The same when time passes: the guard of Tick keeps the ages of jobs bounded.
LEMMA TickShape ==
  ASSUME OutboxShape, Tick
  PROVE  OutboxShape'
<1>1. /\ \A age \in 0..Lease : Older(age) \in 0..Lease
      /\ \A wait \in 0..Backoff : Sooner(wait) \in 0..Backoff
      /\ 0 \in 0..Lease
  BY LeaseAssumption, BackoffAssumption DEF Older, Sooner
<1>2. row' \in RowStates
  <2> DEFINE age == IF row.claim = NoJob THEN 0 ELSE Older(row.claimAge)
  <2>1. age \in 0..Lease /\ Sooner(row.wait) \in 0..Backoff
    BY <1>1 DEF OutboxShape, OutboxTypeOK, RowStates
  <2>2. row' = [row EXCEPT !.claimAge = age, !.wait = Sooner(row.wait)]
    BY DEF Tick
  <2> QED
    BY <2>1, <2>2 DEF OutboxShape, OutboxTypeOK, RowStates
<1>3. consumer' \in ConsumerStates
  <2> DEFINE age == IF consumer.claim = NoJob THEN 0 ELSE Older(consumer.age)
  <2>1. age \in 0..Lease /\ Sooner(consumer.wait) \in 0..Backoff
    BY <1>1 DEF OutboxShape, OutboxTypeOK, ConsumerStates
  <2>2. consumer' = [consumer EXCEPT !.age = age, !.wait = Sooner(consumer.wait)]
    BY DEF Tick
  <2> QED
    BY <2>1, <2>2 DEF OutboxShape, OutboxTypeOK, ConsumerStates
<1>4. job' \in [Jobs -> JobStates]
  BY LeaseAssumption DEF OutboxShape, OutboxTypeOK, Tick, JobStates
<1> QED
  BY <1>2, <1>3, <1>4 DEF OutboxShape, OutboxTypeOK, FailuresOK, Tick

\* The same when the transition adds the row.
LEMMA EmitShape ==
  ASSUME OutboxShape, Emit, UNCHANGED failures
  PROVE  OutboxShape'
<1>1. row' \in RowStates
  BY DEF OutboxShape, OutboxTypeOK, Emit, RowStates
<1>2. \A j \in Jobs : [job EXCEPT ![j].at = "queued"] \in [Jobs -> JobStates]
  <2>1. \A j \in Jobs : [job[j] EXCEPT !.at = "queued"] \in JobStates
    BY DEF OutboxShape, OutboxTypeOK, JobStates, Statements
  <2> QED
    BY <2>1 DEF OutboxShape, OutboxTypeOK
<1>3. job' \in [Jobs -> JobStates]
  BY <1>2 DEF OutboxShape, OutboxTypeOK, Emit
<1> QED
  BY <1>1, <1>3 DEF OutboxShape, OutboxTypeOK, FailuresOK, Emit

-----------------------------------------------------------------------------
(* Who holds the consumer claim.                                           *)

\* A holder's claim is younger than the lease, so nobody can take it over.
LEMMA HolderIsNotReplaced ==
  ASSUME OutboxInv, NEW j \in Jobs, job[j].at \in Holding
  PROVE  /\ OwnsConsumer(j) /\ consumer.age <= job[j].age
         /\ ~ConsumerFree
         /\ \A i \in Jobs : job[i].at \in Holding => i = j
<1>1. OwnsConsumer(j) /\ consumer.age <= job[j].age
  BY DEF OutboxInv, HolderOwns
<1>2. consumer.age \in Nat /\ job[j].age \in 0..Timeout
  BY LeaseAssumption DEF OutboxInv, OutboxTypeOK, ConsumerStates, JobStates
<1>3. consumer.age < Lease
  BY <1>1, <1>2, LeaseAssumption
<1>4. ~ConsumerFree
  BY <1>1, <1>2, <1>3, LeaseAssumption DEF ConsumerFree, OwnsConsumer
<1>5. \A i \in Jobs : job[i].at \in Holding => consumer.claim = i
  BY DEF OutboxInv, HolderOwns, OwnsConsumer
<1> QED
  BY <1>1, <1>4, <1>5 DEF OwnsConsumer

\* A step of one job leaves the others where they are.
LEMMA OthersStay ==
  ASSUME OutboxInv, NEW j \in Jobs, OutboxStep(j)
  PROVE  \A i \in Jobs \ {j} : job'[i] = job[i]
<1>1. \E s : job' = [job EXCEPT ![j] = s]
  BY DEF OutboxStep, JobStep, JobFailure, At, To, Ends, Begins, CommandClaims, Enqueue,
     EnqueueFails, Start, OwnsClaim, ConsumerCompleted, ClaimConsumer, RenewClaim,
     RenewConsumerClaim, Deliver, CompleteConsumer, MarkDelivered, ThrowInJob, FailConsumer,
     MarkFailed, Kill
<1> QED
  BY <1>1 DEF OutboxInv, OutboxTypeOK

\* Where a job is after it moved or ended.
LEMMA JobMoved ==
  ASSUME job \in [Jobs -> JobStates], NEW j \in Jobs, NEW s, To(j, s)
  PROVE  job'[j].at = s /\ job'[j].age = job[j].age /\ job[j].age \in 0..Timeout
<1>1. job'[j] = [job[j] EXCEPT !.at = s] /\ job[j] \in JobStates
  BY DEF To
<1> QED
  BY <1>1 DEF JobStates

\* And after it ended.
LEMMA JobEnded ==
  ASSUME job \in [Jobs -> JobStates], NEW j \in Jobs, Ends(j)
  PROVE  job'[j].at = "free"
  BY DEF Ends, JobFree, JobAt

\* No job of another worker takes the consumer claim from its holder.
LEMMA HolderKept ==
  ASSUME OutboxInv, NEW j \in Jobs, OutboxStep(j)
  PROVE  HolderOwns'
<1> SUFFICES ASSUME NEW i \in Jobs, job'[i].at \in Holding
             PROVE  OwnsConsumer(i)' /\ consumer'.age <= job'[i].age
  BY DEF HolderOwns
<1>0. job \in [Jobs -> JobStates] /\ consumer \in ConsumerStates
  BY DEF OutboxInv, OutboxTypeOK
<1>1. CASE i # j
  <2>1. job'[i] = job[i]
    BY <1>1, OthersStay
  <2>2. /\ OwnsConsumer(i) /\ consumer.age <= job[i].age /\ ~ConsumerFree
    BY <2>1, HolderIsNotReplaced
  <2>3. ~OwnsConsumer(j)
    BY <1>1, <2>2 DEF OwnsConsumer
  <2>4. consumer' = consumer
    BY <2>2, <2>3 DEF OutboxStep, JobStep, JobFailure, CommandClaims, Enqueue,
       EnqueueFails, Start, OwnsClaim, ConsumerCompleted, ClaimConsumer, RenewClaim,
       RenewConsumerClaim, Deliver, CompleteConsumer, MarkDelivered, ThrowInJob, FailConsumer,
       MarkFailed, Kill
  <2> QED
    BY <2>1, <2>2, <2>4 DEF OwnsConsumer
<1>2. CASE i = j
  <2> USE DEF Holding
  <2>1. CASE ClaimConsumer(j)
    <3>1. To(j, "renews") /\ consumer' = [consumer EXCEPT !.status = "processing", !.claim = j, !.age = 0]
      BY <1>0, <1>2, <2>1, JobEnded DEF ClaimConsumer
    <3>2. job'[j].age \in 0..Timeout
      BY <1>0, <3>1, JobMoved
    <3>3. consumer'.status = "processing" /\ consumer'.claim = j /\ consumer'.age = 0
      BY <1>0, <3>1 DEF ConsumerStates
    <3> QED
      BY <1>2, <3>2, <3>3, LeaseAssumption DEF OwnsConsumer
  <2>2. CASE RenewClaim(j) \/ Deliver(j)
    <3>1. job[j].at \in Holding /\ consumer' = consumer
      BY <2>2 DEF RenewClaim, Deliver, At
    <3>2. \E s \in Statements : To(j, s)
      BY <1>0, <1>2, <2>2, JobEnded DEF RenewClaim, Deliver, Statements
    <3>3. job'[j].age = job[j].age
      BY <1>0, <3>2, JobMoved
    <3> QED
      BY <1>2, <3>1, <3>3, HolderIsNotReplaced DEF OwnsConsumer
  <2>3. CASE RenewConsumerClaim(j)
    <3>1. OwnsConsumer(j) /\ To(j, "delivers") /\ consumer' = [consumer EXCEPT !.age = 0]
      BY <1>0, <1>2, <2>3, JobEnded DEF RenewConsumerClaim
    <3>2. job'[j].age \in 0..Timeout
      BY <1>0, <3>1, JobMoved
    <3>3. consumer'.status = "processing" /\ consumer'.claim = j /\ consumer'.age = 0
      BY <1>0, <3>1 DEF ConsumerStates, OwnsConsumer
    <3> QED
      BY <1>2, <3>2, <3>3, LeaseAssumption DEF OwnsConsumer
  <2>4. CASE ~(ClaimConsumer(j) \/ RenewClaim(j) \/ Deliver(j) \/ RenewConsumerClaim(j))
    <3>1. \/ Ends(j) \/ \E s \in Statements \ Holding : To(j, s)
          \/ Begins(j) \/ job' = [job EXCEPT ![j] = [at |-> "command", age |-> 0, claimed |-> TRUE]]
      BY <2>4 DEF Statements, OutboxStep, JobStep, JobFailure, CommandClaims, Enqueue,
         EnqueueFails, Start, OwnsClaim, ConsumerCompleted, CompleteConsumer, MarkDelivered,
         ThrowInJob, FailConsumer, MarkFailed, Kill
    <3>2. job'[j].at \notin Holding
      BY <1>0, <3>1, JobEnded, JobMoved DEF Begins, JobAt
    <3> QED
      BY <1>2, <3>2
  <2> QED
    BY <2>1, <2>2, <2>3, <2>4
<1> QED
  BY <1>1, <1>2

-----------------------------------------------------------------------------
(* Counting the calls of the listener.                                     *)

\* Nothing else completes the consumer, or takes it back.
LEMMA OnlyCompletionNotes ==
  ASSUME OutboxInv, NEW j \in Jobs, OutboxStep(j), ~CompleteConsumer(j)
  PROVE  consumer'.status = "completed" <=> consumer.status = "completed"
<1>1. \/ consumer' = consumer
      \/ ConsumerFree /\ consumer' = [consumer EXCEPT !.status = "processing", !.claim = j, !.age = 0]
      \/ OwnsConsumer(j) /\ consumer' = [consumer EXCEPT !.age = 0]
      \/ OwnsConsumer(j) /\ consumer' = ConsumerIs("pending", Backoff)
  BY DEF OutboxStep, JobStep, JobFailure, CommandClaims, Enqueue, EnqueueFails, Start,
     OwnsClaim, ConsumerCompleted, ClaimConsumer, RenewClaim, RenewConsumerClaim, Deliver,
     MarkDelivered, ThrowInJob, FailConsumer, MarkFailed, Kill
<1>2. ConsumerFree \/ OwnsConsumer(j) => consumer.status # "completed"
  BY DEF ConsumerFree, OwnsConsumer
<1>3. /\ [consumer EXCEPT !.status = "processing", !.claim = j, !.age = 0].status = "processing"
      /\ [consumer EXCEPT !.age = 0].status = consumer.status
      /\ ConsumerIs("pending", Backoff).status = "pending"
  BY DEF OutboxInv, OutboxTypeOK, ConsumerIs, ConsumerStates
<1>4. CASE ConsumerFree \/ OwnsConsumer(j)
  BY <1>1, <1>2, <1>3, <1>4
<1>5. CASE consumer' = consumer
  BY <1>5
<1> QED
  BY <1>1, <1>4, <1>5

\* A call is paid for by a failure, or it is the one that is being noted.
LEMMA CallsCounted ==
  ASSUME OutboxInv, NEW j \in Jobs, OutboxStep(j)
  PROVE  Counted'
<1>0. /\ job \in [Jobs -> JobStates] /\ consumer \in ConsumerStates
      /\ effects \in Nat /\ failures \in Nat
  BY MaxFailuresAssumption DEF OutboxInv, OutboxTypeOK, FailuresOK
<1>1. CASE Deliver(j)
  <2>1. job[j].at \in Holding /\ To(j, "completes") /\ effects' = effects + 1
        /\ consumer' = consumer /\ failures' = failures
    BY <1>1 DEF Deliver, At, Holding
  <2>2. ~Told
    BY <1>1, <2>1, HolderIsNotReplaced DEF Told, OwnsConsumer, Deliver, At, Holding
  <2>3. Told'
    BY <1>0, <2>1, JobMoved DEF Told
  <2> QED
    BY <1>0, <2>1, <2>2, <2>3 DEF OutboxInv, Counted
<1>2. CASE CompleteConsumer(j)
  <2>1. job[j].at = "completes" /\ OwnsConsumer(j)
    BY <1>2, HolderIsNotReplaced DEF CompleteConsumer, At, Holding
  <2>2. consumer' = ConsumerIs("completed", 0) /\ effects' = effects /\ failures' = failures
    BY <1>2, <2>1 DEF CompleteConsumer
  <2>3. Told /\ Told'
    BY <2>1, <2>2 DEF Told, ConsumerIs
  <2> QED
    BY <1>0, <2>2, <2>3 DEF OutboxInv, Counted
<1>3. CASE ThrowInJob(j) \/ Kill(j)
  <2>1. failures' = failures + 1 /\ consumer' = consumer
    BY <1>3 DEF ThrowInJob, Kill, Fails
  <2>2. Told' => Told
    <3>1. job'[j].at # "completes"
      BY <1>0, <1>3, JobMoved, JobEnded DEF ThrowInJob, Kill
    <3> QED
      BY <2>1, <3>1, OthersStay DEF Told
  <2>3. CASE effects' = effects
    BY <1>0, <2>1, <2>2, <2>3 DEF OutboxInv, Counted
  <2>4. CASE effects' # effects
    <3>1. job[j].at = "delivers" /\ effects' = effects + 1
      BY <1>3, <2>4 DEF ThrowInJob, Kill, At
    <3>2. ~Told
      BY <3>1, HolderIsNotReplaced DEF Told, OwnsConsumer, Holding
    <3> QED
      BY <1>0, <2>1, <2>2, <3>1, <3>2 DEF OutboxInv, Counted
  <2> QED
    BY <2>3, <2>4
<1>4. CASE ~(Deliver(j) \/ CompleteConsumer(j) \/ ThrowInJob(j) \/ Kill(j))
  <2>1. effects' = effects /\ failures' \in {failures, failures + 1}
    BY <1>4 DEF OutboxStep, JobStep, JobFailure, CommandClaims, Enqueue,
       EnqueueFails, Start, OwnsClaim, ConsumerCompleted, ClaimConsumer, RenewClaim,
       RenewConsumerClaim, MarkDelivered, FailConsumer, MarkFailed, Fails
  <2>2. job[j].at # "completes" /\ job'[j].at # "completes"
    <3>1. \/ Ends(j) \/ \E s \in Statements \ {"completes"} : To(j, s)
          \/ Begins(j) \/ job' = [job EXCEPT ![j] = [at |-> "command", age |-> 0, claimed |-> TRUE]]
      BY <1>4 DEF Statements, OutboxStep, JobStep, JobFailure, CommandClaims, Enqueue,
         EnqueueFails, Start, OwnsClaim, ConsumerCompleted, ClaimConsumer, RenewClaim,
         RenewConsumerClaim, MarkDelivered, FailConsumer, MarkFailed
    <3>2. job[j].at # "completes"
      BY <1>4 DEF At, OutboxStep, JobStep, JobFailure, CommandClaims, Enqueue,
         EnqueueFails, Start, OwnsClaim, ConsumerCompleted, ClaimConsumer, RenewClaim,
         RenewConsumerClaim, MarkDelivered, FailConsumer, MarkFailed
    <3> QED
      BY <1>0, <3>1, <3>2, JobEnded, JobMoved DEF Begins, JobAt
  <2>3. consumer'.status = "completed" <=> consumer.status = "completed"
    BY <1>4, OnlyCompletionNotes
  <2>4. Told' <=> Told
    BY <2>2, <2>3, OthersStay DEF Told
  <2> QED
    BY <1>0, <2>1, <2>4, NothingToldCounted DEF OutboxInv
<1> QED
  BY <1>1, <1>2, <1>3, <1>4

\* A job runs only for a row that exists, and no row disappears.
LEMMA RowsStay ==
  ASSUME OutboxInv, NEW j \in Jobs, OutboxStep(j)
  PROVE  JobHasRow' /\ (row'.status = "none" <=> row.status = "none")
<1>0. row \in RowStates
  BY DEF OutboxInv, OutboxTypeOK
<1>1. row.status # "none"
  BY DEF OutboxInv, JobHasRow, OutboxStep, JobStep, JobFailure, At, Pending, Running, Waiting,
     CommandClaims, Enqueue, EnqueueFails, Start, OwnsClaim, ConsumerCompleted, ClaimConsumer,
     RenewClaim, RenewConsumerClaim, Deliver, CompleteConsumer, MarkDelivered, ThrowInJob,
     FailConsumer, MarkFailed, Kill
<1>2. \/ row' = row \/ ClaimRow(j) \/ row' = Unclaimed(row.status, 0)
      \/ row' = [row EXCEPT !.claimAge = 0]
      \/ row' = Unclaimed("delivered", 0) \/ row' = Unclaimed("pending", Backoff)
  BY DEF OutboxStep, JobStep, JobFailure,
     CommandClaims, Enqueue, EnqueueFails, Start, OwnsClaim, ConsumerCompleted, ClaimConsumer,
     RenewClaim, RenewConsumerClaim, Deliver, CompleteConsumer, MarkDelivered, ThrowInJob,
     FailConsumer, MarkFailed, Kill
<1>3. row'.status # "none"
  <2>1. CASE row' = row \/ ClaimRow(j) \/ row' = [row EXCEPT !.claimAge = 0]
    BY <1>0, <1>1, <2>1 DEF RowStates, ClaimRow
  <2>2. CASE \E s \in {row.status, "delivered", "pending"}, w \in {0, Backoff} : row' = Unclaimed(s, w)
    BY <1>1, <2>2 DEF Unclaimed
  <2> QED
    BY <1>2, <2>1, <2>2
<1> QED
  BY <1>1, <1>3 DEF JobHasRow

\* Every step of a job keeps what holds of the outbox.
LEMMA JobStepKeeps ==
  ASSUME OutboxInv, NEW j \in Jobs, OutboxStep(j)
  PROVE  OutboxInv'
<1>1. OutboxShape'
  BY JobStepShape DEF OutboxInv, OutboxShape
<1> QED
  BY <1>1, HolderKept, CallsCounted, RowsStay DEF OutboxInv, OutboxShape

\* So does the passing of time: the ages of a claim and of its holder grow alike.
LEMMA TickKeeps ==
  ASSUME OutboxInv, Tick
  PROVE  OutboxInv'
<1>0. job \in [Jobs -> JobStates] /\ consumer \in ConsumerStates /\ row \in RowStates
  BY DEF OutboxInv, OutboxTypeOK
<1>1. OutboxShape'
  BY TickShape DEF OutboxInv, OutboxShape
<1>2. \A j \in Jobs : job'[j].at = job[j].at
  BY <1>0 DEF Tick, JobStates
<1>3. consumer'.status = consumer.status /\ consumer'.claim = consumer.claim
  BY <1>0 DEF Tick, ConsumerStates
<1>4. row'.status = row.status
  BY <1>0 DEF Tick, RowStates
<1>5. HolderOwns'
  <2> SUFFICES ASSUME NEW j \in Jobs, job'[j].at \in Holding
               PROVE  OwnsConsumer(j)' /\ consumer'.age <= job'[j].age
    BY DEF HolderOwns
  <2>1. OwnsConsumer(j) /\ consumer.age <= job[j].age
    BY <1>2 DEF OutboxInv, HolderOwns
  <2>2. job'[j].age = job[j].age + 1
    <3>1. Running(j)
      BY <1>2 DEF Running, Waiting, Holding
    <3>2. job'[j] = [job[j] EXCEPT !.age = job[j].age + 1]
      BY <1>0, <3>1 DEF Tick
    <3> QED
      BY <1>0, <3>2 DEF JobStates
  <2>3. consumer'.age = Older(consumer.age)
    <3>1. consumer.claim # NoJob
      BY <2>1, NoJobAssumption DEF OwnsConsumer
    <3> QED
      BY <1>0, <3>1 DEF Tick, ConsumerStates
  <2>4. consumer.age \in 0..Lease /\ job[j].age \in 0..Timeout
    BY <1>0 DEF ConsumerStates, JobStates
  <2>5. consumer'.age <= job'[j].age
    BY <2>1, <2>2, <2>3, <2>4, LeaseAssumption DEF Older
  <2> QED
    BY <1>3, <2>1, <2>5 DEF OwnsConsumer
<1>6. Counted'
  <2>1. Told' <=> Told
    BY <1>2, <1>3 DEF Told
  <2>2. effects' = effects /\ failures' = failures
    BY DEF Tick
  <2> QED
    BY <2>1, <2>2, Zenon DEF OutboxInv, Counted
<1>7. JobHasRow'
  BY <1>2, <1>4 DEF OutboxInv, JobHasRow
<1> QED
  BY <1>1, <1>5, <1>6, <1>7 DEF OutboxInv, OutboxShape

\* And the transition that adds the row.
LEMMA EmitKeeps ==
  ASSUME OutboxInv, Emit, UNCHANGED failures
  PROVE  OutboxInv' /\ row'.status # "none"
<1>0. job \in [Jobs -> JobStates] /\ row \in RowStates
  BY DEF OutboxInv, OutboxTypeOK
<1>1. OutboxShape'
  BY EmitShape DEF OutboxInv, OutboxShape
<1>2. row'.status # "none"
  BY <1>0 DEF Emit, RowStates
<1>3. \A j \in Jobs : job'[j] = job[j] \/ (job[j].at = "free" /\ job'[j].at = "queued")
  <2>1. CASE UNCHANGED job
    <3>1. \A j \in Jobs : job'[j] = job[j]
      BY <2>1
    <3> QED
      BY <3>1
  <2>2. ASSUME NEW i \in Jobs, job[i].at = "free", job' = [job EXCEPT ![i].at = "queued"]
        PROVE  \A j \in Jobs : job'[j] = job[j] \/ (job[j].at = "free" /\ job'[j].at = "queued")
    <3>1. job'[i].at = "queued"
      BY <1>0, <2>2, JobMoved DEF To
    <3>2. \A j \in Jobs \ {i} : job'[j] = job[j]
      BY <1>0, <2>2
    <3> QED
      BY <2>2, <3>1, <3>2
  <2> QED
    BY <2>1, <2>2 DEF Emit, At
<1>4. consumer' = consumer /\ effects' = effects /\ failures' = failures
  BY DEF Emit
<1>5. HolderOwns'
  BY <1>3, <1>4 DEF OutboxInv, HolderOwns, Holding, OwnsConsumer
<1>6. Counted'
  <2>1. Told' <=> Told
    BY <1>3, <1>4 DEF Told
  <2> QED
    BY <1>4, <2>1, Zenon DEF OutboxInv, Counted
<1> QED
  BY <1>1, <1>2, <1>5, <1>6 DEF OutboxInv, OutboxShape, JobHasRow

-----------------------------------------------------------------------------
(* The whole.                                                              *)

\* The transition, with or without a row to add.
LEMMA TransitionKeeps ==
  ASSUME MessagingInv, NEW q \in Requests, Transition(q)
  PROVE  MessagingInv'
<1>1. /\ log' = log /\ acknowledged' = acknowledged /\ recorded' = TRUE
      /\ request' = [request EXCEPT ![q] = "applied"] /\ failures' = failures
  BY DEF Transition, Apply, Goes
<1>2. IngressTypeOK'
  BY <1>1 DEF MessagingInv, IngressTypeOK
<1>3. OutboxInv' /\ row'.status # "none"
  <2>1. CASE recorded
    <3>1. UNCHANGED outboxVars
      BY <2>1 DEF Transition
    <3> QED
      BY <1>1, <2>1, <3>1 DEF MessagingInv, Booked, OutboxInv, OutboxTypeOK, FailuresOK,
         HolderOwns, OwnsConsumer, Counted, Told, JobHasRow, outboxVars
  <2>2. CASE ~recorded
    BY <1>1, <2>2, EmitKeeps DEF Transition, MessagingInv
  <2> QED
    BY <2>1, <2>2
<1>4. Booked'
  BY <1>1, <1>3 DEF Booked
<1> QED
  BY <1>2, <1>3, <1>4 DEF MessagingInv

\* Nothing has happened yet.
LEMMA MessagingInitially ==
  ASSUME MessagingInit
  PROVE  MessagingInv
<1> USE MaxFailuresAssumption, LeaseAssumption, BackoffAssumption
<1>1. IngressTypeOK
  BY DEF MessagingInit, IngressInit, IngressTypeOK, LogStates, LogStatuses
<1>2. 0 \in 0..Lease /\ 0 \in 0..Backoff /\ 0 \in 0..Timeout
  OBVIOUS
<1>3. OutboxTypeOK
  BY <1>2 DEF MessagingInit, OutboxInit, OutboxTypeOK, RowStates, ConsumerStates, JobStates,
     Unclaimed, ConsumerIs, JobFree, JobAt, Statements
<1>4. \A j \in Jobs : job[j].at = "free"
  BY DEF MessagingInit, OutboxInit, JobFree, JobAt
<1>5. ~Told /\ effects = 0 /\ failures = 0
  BY <1>4 DEF MessagingInit, FailuresInit, OutboxInit, Told, ConsumerIs
<1>6. Counted
  BY <1>5 DEF Counted
<1>7. HolderOwns /\ JobHasRow
  BY <1>4 DEF HolderOwns, Holding, JobHasRow
<1>8. Booked
  BY DEF MessagingInit, IngressInit, OutboxInit, Booked, Unclaimed
<1> QED
  BY <1>1, <1>3, <1>5, <1>6, <1>7, <1>8 DEF MessagingInv, OutboxInv, FailuresOK

\* Every step keeps the invariant.
LEMMA MessagingInvKept ==
  ASSUME MessagingInv, [MessagingNext]_messagingVars
  PROVE  MessagingInv'
<1>1. CASE UNCHANGED messagingVars
  BY <1>1 DEF messagingVars, ingressVars, outboxVars, MessagingInv, IngressTypeOK, Booked,
     OutboxInv, OutboxTypeOK, FailuresOK, HolderOwns, OwnsConsumer, Counted, Told, JobHasRow
<1>2. ASSUME NEW q \in Requests, IngressStep(q)
      PROVE  MessagingInv'
  BY <1>2, TransitionKeeps, IngressKeeps DEF IngressStep, IngressQuiet
<1>3. CASE ClaimGrowsOld /\ UNCHANGED outboxVars
  <2>1. /\ log' = [log EXCEPT !.old = TRUE] /\ log.status = "processing"
        /\ UNCHANGED <<request, acknowledged, recorded, failures>>
    BY <1>3 DEF ClaimGrowsOld
  <2>2. IngressTypeOK' /\ log'.status = "processing"
    BY <2>1 DEF MessagingInv, IngressTypeOK, LogStates
  <2>3. OutboxInv'
    BY <1>3, <2>1 DEF MessagingInv, OutboxInv, OutboxTypeOK, FailuresOK, HolderOwns,
       OwnsConsumer, Counted, Told, JobHasRow, outboxVars
  <2>4. Booked'
    BY <1>3, <2>1, <2>2 DEF MessagingInv, Booked, outboxVars
  <2> QED
    BY <2>2, <2>3, <2>4 DEF MessagingInv
<1>4. ASSUME OutboxInv', row'.status = "none" <=> row.status = "none", UNCHANGED ingressVars
      PROVE  MessagingInv'
  BY <1>4 DEF MessagingInv, IngressTypeOK, Booked, ingressVars
<1>5. ASSUME NEW j \in Jobs, OutboxStep(j), UNCHANGED ingressVars
      PROVE  MessagingInv'
  BY <1>4, <1>5, JobStepKeeps, RowsStay DEF MessagingInv
<1>6. CASE Tick /\ UNCHANGED ingressVars
  <2>1. row'.status = row.status
    BY <1>6 DEF Tick, MessagingInv, OutboxInv, OutboxTypeOK, RowStates
  <2> QED
    BY <1>4, <1>6, <2>1, TickKeeps DEF MessagingInv
<1> QED
  BY <1>1, <1>2, <1>3, <1>5, <1>6 DEF MessagingNext

\* The invariant the others rest on: holders own their claim, calls are counted,
\* the log and the row follow the commit.
THEOREM MessagingInvariant == MessagingSpec => []MessagingInv
<1>1. MessagingInit => MessagingInv
  BY MessagingInitially
<1>2. MessagingInv /\ [MessagingNext]_messagingVars => MessagingInv'
  BY MessagingInvKept
<1> QED
  BY <1>1, <1>2, PTL DEF MessagingSpec

\* The parts of a report's way are always of their kinds, and a job never runs
\* longer than its timeout, for any number of requests and jobs.
THEOREM MessagingTypeOKHolds == MessagingSpec => []MessagingTypeOK
<1>1. MessagingInv => MessagingTypeOK
  BY DEF MessagingInv, MessagingTypeOK, OutboxInv, FailuresOK
<1> QED
  BY <1>1, MessagingInvariant, PTL

\* No two workers tell the listener at once, whatever the timeout and the lease
\* are, as long as the timeout is the shorter one: PaymentOutboxEvent's consumer
\* claim cannot run out under a living job.
THEOREM OneDeliversAtATimeHolds == MessagingSpec => []OneDeliversAtATime
<1>1. MessagingInv => OneDeliversAtATime
  <2> SUFFICES ASSUME MessagingInv, NEW i \in Jobs, NEW j \in Jobs,
                      {job[i].at, job[j].at} \subseteq {"delivers", "completes"}
               PROVE  i = j
    BY DEF OneDeliversAtATime
  <2>1. job[i].at \in Holding /\ job[j].at \in Holding
    BY DEF Holding
  <2> QED
    BY <2>1, HolderIsNotReplaced DEF MessagingInv
<1> QED
  BY <1>1, MessagingInvariant, PTL

\* However many jobs are queued for a row, the listener is not called more often
\* than something failed, and once more (DispatchPaymentOutboxEvent::handle).
THEOREM RepeatsNeedFailuresHolds == MessagingSpec => []RepeatsNeedFailures
<1>1. MessagingInv => RepeatsNeedFailures
  BY DEF MessagingInv, OutboxInv, Counted, RepeatsNeedFailures
<1> QED
  BY <1>1, MessagingInvariant, PTL

-----------------------------------------------------------------------------
(* The implementation of ReportedPayment, liveness aside.                  *)

\* What the job does to the listener and to consumer_status, and what no other
\* step does.
LEMMA JobImplements ==
  ASSUME MessagingInv, NEW j \in Jobs, OutboxStep(j), UNCHANGED ingressVars
  PROVE  [Report!ReportNext]_(Report!reportVars)
<1>0. consumer \in ConsumerStates /\ effects \in Nat
  BY DEF MessagingInv, OutboxInv, OutboxTypeOK
<1>1. recorded /\ UNCHANGED <<recorded, acknowledged>>
  BY DEF MessagingInv, Booked, OutboxInv, JobHasRow, ingressVars, OutboxStep, JobStep,
     JobFailure, At, Pending, Running, Waiting, CommandClaims, Enqueue, EnqueueFails, Start,
     OwnsClaim, ConsumerCompleted, ClaimConsumer, RenewClaim, RenewConsumerClaim, Deliver,
     CompleteConsumer, MarkDelivered, ThrowInJob, FailConsumer, MarkFailed, Kill
<1>2. CASE effects' # effects
  <2>1. effects' = effects + 1 /\ job[j].at = "delivers" /\ consumer' = consumer
    BY <1>2 DEF OutboxStep, JobStep, JobFailure, At, CommandClaims, Enqueue, EnqueueFails, Start,
       OwnsClaim, ConsumerCompleted, ClaimConsumer, RenewClaim, RenewConsumerClaim, Deliver,
       CompleteConsumer, MarkDelivered, ThrowInJob, FailConsumer, MarkFailed, Kill
  <2>2. consumer.status # "completed"
    BY <2>1, HolderIsNotReplaced DEF MessagingInv, Holding, OwnsConsumer
  <2> QED
    BY <1>1, <2>1, <2>2 DEF Report!ReportNext, Report!Tell
<1>3. CASE effects' = effects /\ CompleteConsumer(j)
  <2>1. job[j].at = "completes"
    BY <1>3 DEF CompleteConsumer, At
  <2>2. OwnsConsumer(j) /\ Told
    BY <2>1, HolderIsNotReplaced DEF MessagingInv, Holding, Told
  <2>3. effects > 0 /\ consumer'.status = "completed"
    BY <1>3, <2>2 DEF CompleteConsumer, ConsumerIs, MessagingInv, OutboxInv, Counted
  <2> QED
    BY <1>1, <1>3, <2>3 DEF Report!ReportNext, Report!Note
<1>4. CASE effects' = effects /\ ~CompleteConsumer(j)
  <2>1. consumer'.status = "completed" <=> consumer.status = "completed"
    BY <1>4, OnlyCompletionNotes DEF MessagingInv
  <2> QED
    BY <1>1, <1>4, <2>1 DEF Report!reportVars
<1> QED
  BY <1>2, <1>3, <1>4

\* Every step of the composition is a step of ReportedPayment or none of it.
LEMMA StepImplements ==
  ASSUME MessagingInv, [MessagingNext]_messagingVars
  PROVE  [Report!ReportNext]_(Report!reportVars)
<1>1. CASE UNCHANGED messagingVars
  BY <1>1 DEF messagingVars, ingressVars, outboxVars, Report!reportVars
<1>2. ASSUME NEW q \in Requests, Transition(q)
      PROVE  [Report!ReportNext]_(Report!reportVars)
  <2>1. recorded' = TRUE /\ UNCHANGED <<acknowledged, effects, consumer>>
    BY <1>2 DEF Transition, Apply, Emit, outboxVars
  <2> QED
    BY <2>1 DEF Report!ReportNext, Report!Record
<1>3. ASSUME NEW q \in Requests, IngressQuiet(q), UNCHANGED outboxVars
      PROVE  [Report!ReportNext]_(Report!reportVars)
  <2>1. UNCHANGED <<recorded, effects, consumer>>
    BY <1>3 DEF outboxVars, IngressQuiet, GatewaySends, Receive, RequestStep, AlreadyProcessed,
       StillProcessing, Claim, Finish, RequestFailure, Throw, Die
  <2>2. acknowledged' = acknowledged \/ (recorded /\ acknowledged' = TRUE)
    BY <1>3 DEF MessagingInv, Booked, IngressQuiet, GatewaySends, Receive, RequestStep,
       AlreadyProcessed, StillProcessing, Claim, Finish, RequestFailure, Throw, Die, Goes
  <2> QED
    BY <2>1, <2>2 DEF Report!ReportNext, Report!Acknowledge, Report!reportVars
<1>4. CASE ClaimGrowsOld /\ UNCHANGED outboxVars
  BY <1>4 DEF ClaimGrowsOld, outboxVars, Report!reportVars
<1>5. ASSUME NEW j \in Jobs, OutboxStep(j), UNCHANGED ingressVars
      PROVE  [Report!ReportNext]_(Report!reportVars)
  BY <1>5, JobImplements
<1>6. CASE Tick /\ UNCHANGED ingressVars
  <2>1. consumer'.status = consumer.status /\ effects' = effects
    BY <1>6 DEF Tick, MessagingInv, OutboxInv, OutboxTypeOK, ConsumerStates
  <2> QED
    BY <1>6, <2>1 DEF ingressVars, Report!reportVars
<1> QED
  BY <1>1, <1>2, <1>3, <1>4, <1>5, <1>6 DEF MessagingNext, IngressStep, IngressQuiet

\* PaymentMessaging implements ReportedPayment step by step: no answer to the
\* gateway before the commit of CanonicalPaymentTransitionService, no call of the
\* listener before it or after the consumer is completed.
THEOREM MessagingImplementsReports ==
  MessagingSpec => Report!ReportInit /\ [][Report!ReportNext]_(Report!reportVars)
<1>1. MessagingInit => Report!ReportInit
  BY DEF MessagingInit, IngressInit, OutboxInit, ConsumerIs, Report!ReportInit
<1>2. MessagingInv /\ [MessagingNext]_messagingVars => [Report!ReportNext]_(Report!reportVars)
  BY StepImplements
<1> QED
  BY <1>1, <1>2, MessagingInvariant, PTL DEF MessagingSpec
=============================================================================
