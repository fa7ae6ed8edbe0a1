----------------------------- MODULE PaymentProofs -----------------------------
(***************************************************************************)
(* Proofs about CanonicalPayment and Refunds, for every number of          *)
(* attempts, of reconciliations and of accounts, every choice of outcomes  *)
(* and every move of the order: types, single opening, payment status,     *)
(* what an order keeps and owes, and that money is sent back once.         *)
(***************************************************************************)
EXTENDS Refunds, FiniteSetTheorems, TLAPS

-----------------------------------------------------------------------------
(* The steps.                                                              *)

\* Every step, by the part of the state it writes.  Polling and paying both
\* end in SyncStatus.
LEMMA PaymentCases ==
  ASSUME [PaymentNext]_paymentVars
  PROVE  \/ UNCHANGED paymentVars
         \/ \E a \in Attempts :
              \/ GatewayOpens(a) \/ GatewayDecides(a)
              \/ StartCall(a) \/ ExpireLease(a)
              \/ CallSucceeds(a) \/ CallRefused(a) \/ CallInconclusive(a)
              \/ ClaimInquiry(a) \/ AnswerInquiry(a)
              \/ \E matches \in BOOLEAN : InquirySucceeded(a, matches)
              \/ InquiryFailed(a) \/ InquiryPending(a) \/ InquiryInconclusive(a)
              \/ ExpireUnknown(a)
              \/ \E s \in Statements, matches \in BOOLEAN :
                   Webhook(a, s, matches) \/ SyncStatus(a, s, matches)
         \/ PaySyncUnanswered \/ PayResets \/ PreparePayment
         \/ \E to \in Statuses : OrderMoves(to)
         \/ OrderJumps
<1>1. ASSUME NEW a \in Attempts, Reports(a)
      PROVE  \E s \in Statements, matches \in BOOLEAN :
               Webhook(a, s, matches) \/ SyncStatus(a, s, matches)
  BY <1>1 DEF Reports, PollStatus
<1>2. ASSUME NEW s \in Statements, NEW matches \in BOOLEAN, PaySyncs(s, matches)
      PROVE  \E a \in Attempts : SyncStatus(a, s, matches)
  BY <1>2 DEF PaySyncs
<1> QED
  BY <1>1, <1>2 DEF PaymentNext, Gateway, Creation, Reconciliation, Pay

-----------------------------------------------------------------------------
(* Types.                                                                  *)

Settlements == {"pending", "unknown", "failed", "expired", "paid"}

\* settlementRank ranks the five settlements of the column.
LEMMA RankedSettlements == DOMAIN settlementRank = Settlements
BY DEF settlementRank, Settlements

\* Every statement names a settlement, and only a success names paid.
LEMMA TargetType ==
  ASSUME NEW s \in Statements
  PROVE  /\ Target[s] \in Settlements
         /\ Target[s] = "paid" <=> s = "SUCCESS"
BY DEF Target, Statements, Settlements

\* The status graph leads to statuses, never back before checkout.
LEMMA TransitionsType ==
  \A s \in Statuses : TRANSITIONS[s] \subseteq Statuses \ {"absent"}
BY DEF Statuses, TRANSITIONS

\* A settlement only rises: it becomes paid by a success, and stays paid.
LEMMA SettledByRises ==
  ASSUME NEW a \in Attempts, NEW s \in Statements, settlement[a] \in Settlements
  PROVE  /\ SettledBy(a, s) \in Settlements
         /\ SettledBy(a, s) = "paid" <=> s = "SUCCESS" \/ settlement[a] = "paid"
<1>1. settlementRank[settlement[a]] \in 10..50 /\ settlementRank[Target[s]] \in 10..50
  BY TargetType DEF settlementRank, Settlements
<1>2. settlementRank[settlement[a]] = 50 <=> settlement[a] = "paid"
  BY DEF settlementRank, Settlements
<1>3. settlementRank[Target[s]] = 50 <=> s = "SUCCESS"
  BY TargetType DEF settlementRank, Settlements
<1> QED
  BY <1>1, <1>2, <1>3, TargetType DEF SettledBy

\* The projection never writes a status of the refund process.
LEMMA ProjectedType ==
  \A c, s, v : Projected(c, s, v) \in {"paid", "pending", "expired", "failed"}
BY DEF Projected

\* What a payment may do to the order, its claim and the obligations.
LEMMA ClaimOrRefundType ==
  ASSUME PaymentTypeOK, NEW a \in Attempts, ClaimOrRefund(a)
  PROVE  /\ status' \in Statuses \ {"absent"}
         /\ claimant' \in Attempts \cup {NoAttempt}
         /\ owed' \subseteq Attempts \X Reasons
BY DEF PaymentTypeOK, ClaimOrRefund, ClaimOrRefundLater, CompleteFromPayment, Owe,
       Statuses, TRANSITIONS, Reasons

\* The same for the step of apply that may hand a payment on to it.
LEMMA FulfilType ==
  ASSUME PaymentTypeOK, NEW a \in Attempts, NEW s, NEW matches, Fulfil(a, s, matches)
  PROVE  /\ status' \in Statuses \ {"absent"}
         /\ claimant' \in Attempts \cup {NoAttempt}
         /\ owed' \subseteq Attempts \X Reasons
BY ClaimOrRefundType DEF Fulfil, PaymentTypeOK

\* What stays typed when a settlement is written.
LEMMA SettleType ==
  ASSUME PaymentTypeOK, NEW a \in Attempts, NEW s \in Settlements, NEW v \in SUBSET Attempts,
         Settle(a, s, v)
  PROVE  /\ settlement' \in [Attempts -> Settlements]
         /\ verified' \subseteq Attempts
         /\ reviewed' \subseteq Attempts
         /\ regressed' \subseteq Attempts
BY RankedSettlements DEF Settle, PaymentTypeOK

\* What an applied event writes is in range.
LEMMA ApplyType ==
  ASSUME PaymentTypeOK, NEW a \in Attempts, NEW s \in Statements, NEW matches \in BOOLEAN,
         apply(a, s, matches)
  PROVE  /\ status' \in Statuses \ {"absent"}
         /\ payment' \in {"pending", "paid", "failed", "expired", "refund_pending"}
         /\ claimant' \in Attempts \cup {NoAttempt}
         /\ settlement' \in [Attempts -> Settlements]
         /\ verified' \subseteq Attempts
         /\ owed' \subseteq Attempts \X Reasons
         /\ reviewed' \subseteq Attempts
         /\ regressed' \subseteq Attempts
<1>1. SettledBy(a, s) \in Settlements
  BY SettledByRises, RankedSettlements DEF PaymentTypeOK
<1>2. VerifiedBy(a, s, matches) \in SUBSET Attempts
  BY DEF VerifiedBy, PaymentTypeOK
<1>3. Settle(a, SettledBy(a, s), VerifiedBy(a, s, matches))
  BY DEF apply
<1>4. Fulfil(a, s, matches)
  BY DEF apply
<1>5. payment' \in {"paid", "pending", "expired", "failed"}
  BY ProjectedType DEF apply
<1> QED
  BY <1>1, <1>2, <1>3, <1>4, <1>5, SettleType, FulfilType

\* An order that dies asks for a refund of an attempt it has.
LEMMA DieType ==
  ASSUME PaymentTypeOK, NEW to \in Statuses \ {"absent"}, Die(to)
  PROVE  /\ status' \in Statuses \ {"absent"}
         /\ payment' \in {"pending", "paid", "failed", "expired", "refund_pending"}
         /\ owed' \subseteq Attempts \X Reasons
BY DEF PaymentTypeOK, Die, Reasons

\* Every step of attempts, order and gateway keeps the types.
LEMMA TypeStep == PaymentTypeOK /\ [PaymentNext]_paymentVars => PaymentTypeOK'
<1> SUFFICES ASSUME PaymentTypeOK, [PaymentNext]_paymentVars
             PROVE  PaymentTypeOK'
  OBVIOUS
<1> USE RankedSettlements
<1>1. CASE UNCHANGED paymentVars
  BY <1>1 DEF paymentVars, orderVars, attemptVars, processVars, historyVars, PaymentTypeOK
<1>2. ASSUME NEW a \in Attempts, GatewayOpens(a) \/ GatewayDecides(a)
      PROVE  PaymentTypeOK'
  <2>1. PICK said1 \in Seq(Statements) : said' = [said EXCEPT ![a] = said1]
    <3>1. CASE GatewayOpens(a)
      <4>1. <<"PENDING">> \in Seq(Statements)
        BY DEF Statements
      <4> QED
        BY <3>1, <4>1 DEF GatewayOpens
    <3>2. CASE GatewayDecides(a)
      <4>1. PICK s \in Outcomes : said' = [said EXCEPT ![a] = Append(said[a], s)]
        BY <3>2 DEF GatewayDecides
      <4>2. s \in Statements
        BY OutcomesAssumption DEF Statements
      <4>3. Append(said[a], s) \in Seq(Statements)
        BY <4>2 DEF PaymentTypeOK
      <4> QED
        BY <4>1, <4>3
    <3> QED
      BY <1>2, <3>1, <3>2
  <2>2. said' \in [Attempts -> Seq(Statements)]
    BY <2>1 DEF PaymentTypeOK
  <2> QED
    BY <1>2, <2>2 DEF GatewayOpens, GatewayDecides, PaymentTypeOK, orderVars, attemptVars,
                      processVars, historyVars
<1>3. ASSUME NEW a \in Attempts,
             \/ StartCall(a) \/ ExpireLease(a)
             \/ CallSucceeds(a) \/ CallRefused(a) \/ CallInconclusive(a)
      PROVE  PaymentTypeOK'
  BY <1>3 DEF StartCall, ExpireLease, CallSucceeds, CallRefused, CallInconclusive,
              PaymentTypeOK, orderVars, attemptVars, historyVars
<1>4. ASSUME NEW a \in Attempts, ClaimInquiry(a)
      PROVE  PaymentTypeOK'
  <2>1. tries' \in [Attempts -> 0..MaxInquiries]
    BY <1>4, AttemptsAssumption DEF ClaimInquiry, PaymentTypeOK
  <2> QED
    BY <1>4, <2>1 DEF ClaimInquiry, PaymentTypeOK, orderVars, historyVars
<1>5. ASSUME NEW a \in Attempts, AnswerInquiry(a)
      PROVE  PaymentTypeOK'
  <2>1. said[a] # <<>> => said[a][Len(said[a])] \in Statements
    BY DEF PaymentTypeOK
  <2>2. inquiry' \in [Attempts -> Statements \cup {"none", "asked", "LOST", "NOT_FOUND"}]
    BY <1>5, <2>1 DEF AnswerInquiry, PaymentTypeOK
  <2> QED
    BY <1>5, <2>2 DEF AnswerInquiry, PaymentTypeOK, orderVars, attemptVars, historyVars
<1>6. ASSUME NEW a \in Attempts, NEW matches \in BOOLEAN, InquirySucceeded(a, matches)
      PROVE  PaymentTypeOK'
  <2>1. "SUCCESS" \in Statements /\ apply(a, "SUCCESS", matches)
    BY <1>6 DEF InquirySucceeded, Statements
  <2> QED
    BY <1>6, <2>1, ApplyType DEF InquirySucceeded, EndInquiry, PaymentTypeOK
<1>7. ASSUME NEW a \in Attempts, InquiryFailed(a)
      PROVE  PaymentTypeOK'
  <2>1. inquiry[a] \in Statements /\ Target[inquiry[a]] \in Settlements
    BY <1>7, TargetType DEF InquiryFailed, Statements
  <2>2. payment' \in {"paid", "pending", "expired", "failed"}
    BY <1>7, ProjectedType DEF InquiryFailed
  <2>3. /\ settlement' \in [Attempts -> Settlements]
        /\ verified' \subseteq Attempts
        /\ reviewed' \subseteq Attempts
        /\ regressed' \subseteq Attempts
    BY <1>7, <2>1, SettleType DEF InquiryFailed, PaymentTypeOK
  <2>4. /\ status' \in Statuses \ {"absent"}
        /\ claimant' \in Attempts \cup {NoAttempt}
        /\ owed' \subseteq Attempts \X Reasons
    BY <1>7, FulfilType DEF InquiryFailed
  <2> QED
    BY <1>7, <2>2, <2>3, <2>4 DEF InquiryFailed, EndInquiry, PaymentTypeOK
<1>8. ASSUME NEW a \in Attempts, InquiryPending(a) \/ InquiryInconclusive(a)
      PROVE  PaymentTypeOK'
  <2>1. payment' \in {"pending", "paid", "failed", "expired", "refund_pending"}
    BY <1>8, ProjectedType DEF InquiryPending, InquiryInconclusive, PaymentTypeOK, orderVars
  <2>2. settlement' \in [Attempts -> Settlements]
    BY <1>8 DEF InquiryPending, InquiryInconclusive, PaymentTypeOK, Settlements
  <2> QED
    BY <1>8, <2>1, <2>2 DEF InquiryPending, InquiryInconclusive, EndInquiry, PaymentTypeOK, orderVars
<1>9. ASSUME NEW a \in Attempts, ExpireUnknown(a)
      PROVE  PaymentTypeOK'
  <2>1. /\ settlement' \in [Attempts -> Settlements]
        /\ verified' \subseteq Attempts
        /\ reviewed' \subseteq Attempts
        /\ regressed' \subseteq Attempts
    BY <1>9, SettleType DEF ExpireUnknown, PaymentTypeOK, Settlements
  <2>2. /\ status' \in Statuses \ {"absent"}
        /\ payment' \in {"pending", "paid", "failed", "expired", "refund_pending"}
        /\ owed' \subseteq Attempts \X Reasons
    <3>1. "expired" \in Statuses \ {"absent"}
      BY DEF Statuses, TRANSITIONS
    <3> QED
      BY <1>9, <3>1, DieType DEF ExpireUnknown, PaymentTypeOK
  <2> QED
    BY <1>9, <2>1, <2>2 DEF ExpireUnknown, PaymentTypeOK
<1>10. ASSUME NEW a \in Attempts, NEW s \in Statements, NEW matches \in BOOLEAN,
              Webhook(a, s, matches)
       PROVE  PaymentTypeOK'
  <2>1. apply(a, s, matches)
    BY <1>10 DEF Webhook
  <2> QED
    BY <1>10, <2>1, ApplyType DEF Webhook, PaymentTypeOK, processVars
<1>11. ASSUME NEW a \in Attempts, NEW s \in Statements, NEW matches \in BOOLEAN,
              SyncStatus(a, s, matches), resetting' \in BOOLEAN
       PROVE  PaymentTypeOK'
  <2>1. creation' \in [Attempts -> {"absent", "initiated", "pending", "created", "unknown", "failed"}]
    BY <1>11 DEF SyncStatus, PaymentTypeOK
  <2>2. CASE apply(a, s, matches)
    BY <1>11, <2>1, <2>2, ApplyType DEF SyncStatus, PaymentTypeOK
  <2>3. CASE UNCHANGED <<orderVars, settlement, verified, owed, reviewed, regressed>>
    BY <1>11, <2>1, <2>3 DEF SyncStatus, PaymentTypeOK, orderVars
  <2> QED
    BY <1>11, <2>2, <2>3 DEF SyncStatus
<1>12. CASE PaySyncUnanswered \/ PayResets \/ PreparePayment
  BY <1>12 DEF PaySyncUnanswered, PayResets, PreparePayment, PaymentTypeOK, orderVars,
               attemptVars, processVars, historyVars
<1>13. ASSUME NEW to \in Statuses, OrderMoves(to)
       PROVE  PaymentTypeOK'
  <2>1. to \in Statuses \ {"absent"}
    BY <1>13, TransitionsType DEF OrderMoves, PaymentTypeOK
  <2> QED
    BY <1>13, <2>1, DieType DEF OrderMoves, PaymentTypeOK, attemptVars, processVars, historyVars
<1>14. CASE OrderJumps
  <2>1. {"completed", "ready_for_pickup"} \subseteq Statuses \ {"absent"}
    BY DEF Statuses, TRANSITIONS
  <2> QED
    BY <1>14, <2>1 DEF OrderJumps, PaymentTypeOK, attemptVars, processVars, historyVars
<1>15. ASSUME NEW s \in Statements, NEW matches \in BOOLEAN, PaySyncs(s, matches)
       PROVE  PaymentTypeOK'
  BY <1>11, <1>15 DEF PaySyncs
<1>16. ASSUME NEW a \in Attempts, Reports(a)
       PROVE  PaymentTypeOK'
  BY <1>10, <1>11, <1>16 DEF Reports, PollStatus, PaymentTypeOK
<1> QED
  BY <1>1, <1>2, <1>3, <1>4, <1>5, <1>6, <1>7, <1>8, <1>9, <1>12, <1>13, <1>14, <1>15, <1>16
     DEF PaymentNext, Gateway, Creation, Reconciliation, Pay

\* The order and its attempts stay in the ranges of their columns.
THEOREM PaymentTypeOKHolds == PaymentSpec => []PaymentTypeOK
<1>1. PaymentInit => PaymentTypeOK
  <2>1. "pending_confirmation" \in Statuses \ {"absent"}
    BY DEF Statuses, TRANSITIONS
  <2>2. <<>> \in Seq(Statements)
    OBVIOUS
  <2>3. 0 \in 0..MaxInquiries
    BY AttemptsAssumption
  <2> SUFFICES ASSUME PaymentInit PROVE PaymentTypeOK
    OBVIOUS
  <2>4. said \in [Attempts -> Seq(Statements)]
    BY <2>2 DEF PaymentInit
  <2>5. tries \in [Attempts -> 0..MaxInquiries]
    BY <2>3 DEF PaymentInit
  <2>6. settlement \in [Attempts -> Settlements]
    BY DEF PaymentInit, Settlements
  <2> QED
    BY <2>1, <2>4, <2>5, <2>6, RankedSettlements DEF PaymentInit, PaymentTypeOK
<1> QED
  BY <1>1, TypeStep, PTL DEF PaymentSpec

-----------------------------------------------------------------------------
(* The rows of the attempts and their requests.                            *)

\* Attempts are numbered in the order they are made; nothing is known of one
\* without a row; its request left "initiated" behind when it is over; an
\* answer to an inquiry is something the gateway said.
Numbered == \E n \in 0..MaxAttempts : Placed = 1..n

AttemptInv ==
  /\ Numbered
  /\ \A a \in Attempts :
       /\ creation[a] = "absent" =>
            call[a] = "none" /\ said[a] = <<>> /\ inquiry[a] = "none" /\ a \notin verified
       /\ call[a] \in {"late", "answered", "refused"} => creation[a] # "initiated"
       /\ inquiry[a] = "SUCCESS" => "SUCCESS" \in SaidOf(a)

\* What the gateway said it has said.
LEMMA SaidGrows ==
  ASSUME PaymentTypeOK, [PaymentNext]_paymentVars, NEW a \in Attempts
  PROVE  SaidOf(a) \subseteq SaidOf(a)'
<1>1. CASE UNCHANGED said
  BY <1>1 DEF SaidOf
<1>2. ASSUME NEW b \in Attempts, GatewayOpens(b)
      PROVE  SaidOf(a) \subseteq SaidOf(a)'
  BY <1>2 DEF GatewayOpens, SaidOf, PaymentTypeOK
<1>3. ASSUME NEW b \in Attempts, GatewayDecides(b)
      PROVE  SaidOf(a) \subseteq SaidOf(a)'
  <2>1. PICK s \in Outcomes : said' = [said EXCEPT ![b] = Append(said[b], s)]
    BY <1>3 DEF GatewayDecides
  <2>2. said[a] \in Seq(Statements) /\ said[b] \in Seq(Statements)
    BY DEF PaymentTypeOK
  <2>3. ASSUME NEW i \in DOMAIN said[a]
        PROVE  i \in DOMAIN said'[a] /\ said'[a][i] = said[a][i]
    BY <2>1, <2>2, OutcomesAssumption DEF PaymentTypeOK, Statements
  <2> QED
    BY <2>3 DEF SaidOf
<1>4. UNCHANGED said \/ \E b \in Attempts : GatewayOpens(b) \/ GatewayDecides(b)
  BY PaymentCases
     DEF StartCall, ExpireLease, CallSucceeds, CallRefused, CallInconclusive, ClaimInquiry,
         AnswerInquiry, InquirySucceeded, InquiryFailed, InquiryPending, InquiryInconclusive,
         EndInquiry, ExpireUnknown, Webhook, SyncStatus, PaySyncUnanswered, PayResets,
         PreparePayment, OrderMoves, OrderJumps, paymentVars
<1> QED
  BY <1>1, <1>2, <1>3, <1>4

\* Rows stay, and only the next free number gets a new one.
LEMMA NumberedStep ==
  ASSUME PaymentTypeOK, AttemptInv, [PaymentNext]_paymentVars
  PROVE  /\ Numbered'
         /\ \A a \in Attempts : creation'[a] = "absent" => creation[a] = "absent"
<1>1. CASE PreparePayment
  <2>1. PICK n \in 0..MaxAttempts : Placed = 1..n
    BY DEF AttemptInv, Numbered
  <2>2. Cardinality(Placed) = n
    BY <2>1, FS_Interval
  <2>3. n + 1 \in Attempts /\ creation' = [creation EXCEPT ![n + 1] = "initiated"]
    BY <1>1, <2>2, AttemptsAssumption DEF PreparePayment, Attempts
  <2>4. Placed' = Placed \cup {n + 1}
    BY <2>3 DEF Placed, PaymentTypeOK
  <2>5. Placed' = 1..(n + 1)
    BY <2>1, <2>4
  <2> QED
    BY <2>3, <2>5, AttemptsAssumption DEF Numbered, PaymentTypeOK, Attempts
<1>2. ASSUME \A a \in Attempts : creation'[a] = "absent" <=> creation[a] = "absent"
      PROVE  Numbered' /\ \A a \in Attempts : creation'[a] = "absent" => creation[a] = "absent"
  <2>1. Placed' = Placed
    BY <1>2 DEF Placed
  <2> QED
    BY <1>2, <2>1 DEF Numbered, AttemptInv
<1>3. CASE ~PreparePayment
  <2> DEFINE Moved(b) ==
        creation[b] # "absent" /\ \E v \in {"pending", "created", "unknown", "failed"} :
          creation' = [creation EXCEPT ![b] = v]
  <2>1. ASSUME NEW b \in Attempts,
               \/ CallSucceeds(b) \/ CallRefused(b) \/ CallInconclusive(b) \/ ExpireLease(b)
               \/ ExpireUnknown(b)
        PROVE  Moved(b) \/ UNCHANGED creation
    BY <2>1 DEF CallSucceeds, CallRefused, CallInconclusive, ExpireLease, ExpireUnknown, AttemptInv
  <2>2. ASSUME NEW b \in Attempts, NEW matches \in BOOLEAN,
               InquirySucceeded(b, matches) \/ InquiryFailed(b) \/ InquiryPending(b)
        PROVE  Moved(b) \/ UNCHANGED creation
    BY <2>2 DEF InquirySucceeded, InquiryFailed, InquiryPending, AttemptInv
  <2>3. ASSUME NEW b \in Attempts, InquiryInconclusive(b)
        PROVE  Moved(b) \/ UNCHANGED creation
    BY <2>3 DEF InquiryInconclusive, AttemptInv
  <2>4. ASSUME NEW b \in Attempts, NEW s \in Statements, NEW matches \in BOOLEAN,
               SyncStatus(b, s, matches)
        PROVE  Moved(b) \/ UNCHANGED creation
    BY <2>4 DEF SyncStatus
  <2>5. UNCHANGED creation \/ \E b \in Attempts : Moved(b)
    BY <1>3, <2>1, <2>2, <2>3, <2>4, PaymentCases
       DEF GatewayOpens, GatewayDecides, StartCall, ClaimInquiry, AnswerInquiry, Webhook,
           PaySyncUnanswered, PayResets, OrderMoves, OrderJumps, paymentVars, attemptVars
  <2>6. \A a \in Attempts : creation'[a] = "absent" <=> creation[a] = "absent"
    BY <2>5 DEF PaymentTypeOK
  <2> QED
    BY <1>2, <2>6
<1> QED
  BY <1>1, <1>3

\* An applied event verifies at most its own attempt, and only as a success.
LEMMA ApplyVerifies ==
  ASSUME NEW a \in Attempts, NEW s \in Statements, NEW matches, apply(a, s, matches)
  PROVE  /\ verified \subseteq verified'
         /\ verified' \subseteq verified \cup {a}
         /\ a \in verified' => a \in verified \/ s = "SUCCESS"
BY DEF apply, Settle, VerifiedBy

\* Every step keeps it.
LEMMA AttemptStep == PaymentTypeOK /\ AttemptInv /\ [PaymentNext]_paymentVars => AttemptInv'
<1> SUFFICES ASSUME PaymentTypeOK, AttemptInv, [PaymentNext]_paymentVars
             PROVE  AttemptInv'
  OBVIOUS
<1> DEFINE RowFree(b) ==
      creation[b] = "absent" =>
        call[b] = "none" /\ said[b] = <<>> /\ inquiry[b] = "none" /\ b \notin verified
    RequestOver(b) == call[b] \in {"late", "answered", "refused"} => creation[b] # "initiated"
    Said(b) == inquiry[b] = "SUCCESS" => "SUCCESS" \in SaidOf(b)
<1>1. \A b \in Attempts : RowFree(b) /\ RequestOver(b) /\ Said(b)
  BY DEF AttemptInv
<1>2. Numbered' /\ \A b \in Attempts : creation'[b] = "absent" => creation[b] = "absent"
  BY NumberedStep
<1>3. \A b \in Attempts : "SUCCESS" \in SaidOf(b) => "SUCCESS" \in SaidOf(b)'
  BY SaidGrows
<1>4. SUFFICES ASSUME NEW b \in Attempts
               PROVE  RowFree(b)' /\ RequestOver(b)' /\ Said(b)'
  BY <1>2 DEF AttemptInv
<1>5. CASE UNCHANGED paymentVars
  BY <1>1, <1>5 DEF paymentVars, orderVars, attemptVars, processVars, SaidOf
<1>6. ASSUME NEW a \in Attempts, GatewayOpens(a) \/ GatewayDecides(a)
      PROVE  RowFree(b)' /\ RequestOver(b)' /\ Said(b)'
  <2>1. creation[a] # "absent" /\ UNCHANGED <<creation, call, inquiry, verified>>
    BY <1>1, <1>6 DEF GatewayOpens, GatewayDecides, orderVars, attemptVars, processVars
  <2>2. b # a => said'[b] = said[b]
    BY <1>6 DEF GatewayOpens, GatewayDecides, PaymentTypeOK
  <2> QED
    BY <1>1, <1>3, <2>1, <2>2
<1>7. ASSUME NEW a \in Attempts,
             \/ StartCall(a) \/ ExpireLease(a)
             \/ CallSucceeds(a) \/ CallRefused(a) \/ CallInconclusive(a)
      PROVE  RowFree(b)' /\ RequestOver(b)' /\ Said(b)'
  <2>1. UNCHANGED <<said, inquiry, verified>>
    BY <1>7 DEF StartCall, ExpireLease, CallSucceeds, CallRefused, CallInconclusive,
                orderVars, attemptVars, processVars
  <2>2. Said(b)'
    BY <1>1, <1>3, <2>1
  <2>3. creation[a] # "absent" /\ \A c \in Attempts \ {a} : creation'[c] = creation[c] /\ call'[c] = call[c]
    BY <1>1, <1>7 DEF StartCall, ExpireLease, CallSucceeds, CallRefused, CallInconclusive,
                attemptVars, PaymentTypeOK
  <2>4. creation'[a] # "absent" /\ RequestOver(a)'
    BY <1>1, <1>7 DEF StartCall, ExpireLease, CallSucceeds, CallRefused, CallInconclusive,
                      attemptVars, PaymentTypeOK
  <2> QED
    BY <1>1, <2>1, <2>2, <2>3, <2>4
<1>8. ASSUME NEW a \in Attempts, ClaimInquiry(a) \/ AnswerInquiry(a)
      PROVE  RowFree(b)' /\ RequestOver(b)' /\ Said(b)'
  <2>1. UNCHANGED <<said, creation, call, verified>> /\ creation[a] # "absent"
    BY <1>1, <1>8 DEF ClaimInquiry, AnswerInquiry, orderVars, attemptVars
  <2>2. b # a => inquiry'[b] = inquiry[b]
    BY <1>8 DEF ClaimInquiry, AnswerInquiry, PaymentTypeOK
  <2>3. inquiry'[a] = "SUCCESS" => "SUCCESS" \in SaidOf(a)
    <3>1. said[a] # <<>> => Len(said[a]) \in DOMAIN said[a]
      BY DEF PaymentTypeOK
    <3> QED
      BY <1>8, <3>1 DEF ClaimInquiry, AnswerInquiry, PaymentTypeOK, SaidOf
  <2> QED
    BY <1>1, <1>3, <2>1, <2>2, <2>3
<1>9. ASSUME NEW a \in Attempts, creation[a] # "absent", UNCHANGED <<said, call>>,
             verified' \subseteq verified \cup {a},
             inquiry' \in {inquiry, [inquiry EXCEPT ![a] = "none"]},
             UNCHANGED creation \/
               \E v \in {"pending", "created", "unknown", "failed"} :
                 creation' = [creation EXCEPT ![a] = v]
      PROVE  RowFree(b)' /\ RequestOver(b)' /\ Said(b)'
  BY <1>1, <1>2, <1>3, <1>9 DEF PaymentTypeOK
<1>10. ASSUME NEW a \in Attempts, NEW matches \in BOOLEAN, InquirySucceeded(a, matches)
       PROVE  RowFree(b)' /\ RequestOver(b)' /\ Said(b)'
  <2>1. verified' \subseteq verified \cup {a}
    BY <1>10, ApplyVerifies DEF InquirySucceeded, Statements
  <2> QED
    BY <1>1, <1>9, <1>10, <2>1 DEF InquirySucceeded, EndInquiry
<1>11. ASSUME NEW a \in Attempts,
              InquiryFailed(a) \/ InquiryPending(a) \/ InquiryInconclusive(a) \/ ExpireUnknown(a)
       PROVE  RowFree(b)' /\ RequestOver(b)' /\ Said(b)'
  <2>1. /\ creation[a] # "absent" /\ verified' = verified /\ UNCHANGED <<said, call>>
        /\ inquiry' = [inquiry EXCEPT ![a] = "none"]
    BY <1>1, <1>11 DEF InquiryFailed, InquiryPending, InquiryInconclusive, ExpireUnknown, EndInquiry,
                       Settle
  <2>2. UNCHANGED creation \/
          \E v \in {"pending", "created", "unknown", "failed"} :
            creation' = [creation EXCEPT ![a] = v]
    BY <1>11 DEF InquiryFailed, InquiryPending, InquiryInconclusive, ExpireUnknown
  <2> QED
    BY <1>9, <2>1, <2>2
<1>12. ASSUME NEW a \in Attempts, NEW s \in Statements, NEW matches \in BOOLEAN,
              Webhook(a, s, matches) \/ SyncStatus(a, s, matches)
       PROVE  RowFree(b)' /\ RequestOver(b)' /\ Said(b)'
  <2>1. creation[a] # "absent"
    <3>1. said[a] = <<>> => SaidOf(a) = {}
      BY DEF SaidOf
    <3> QED
      BY <1>1, <1>12, <3>1 DEF Webhook, SyncStatus, Placed
  <2>2. verified' \subseteq verified \cup {a}
    BY <1>12, ApplyVerifies DEF Webhook, SyncStatus
  <2>3. UNCHANGED <<said, call, inquiry>>
    BY <1>12 DEF Webhook, SyncStatus, processVars
  <2>4. UNCHANGED creation \/ creation' = [creation EXCEPT ![a] = "failed"]
    BY <1>12 DEF Webhook, SyncStatus
  <2> QED
    BY <1>9, <2>1, <2>2, <2>3, <2>4
<1>13. CASE PaySyncUnanswered \/ PayResets \/ OrderJumps \/ \E to \in Statuses : OrderMoves(to)
  BY <1>1, <1>3, <1>13 DEF PaySyncUnanswered, PayResets, OrderJumps, OrderMoves, orderVars,
                           attemptVars, processVars
<1>14. CASE PreparePayment
  <2>1. UNCHANGED <<said, call, inquiry, verified>>
    BY <1>14 DEF PreparePayment, processVars
  <2>2. PICK n \in 0..MaxAttempts : Placed = 1..n
    BY DEF AttemptInv, Numbered
  <2>3. Cardinality(Placed) = n
    BY <2>2, FS_Interval
  <2>4. creation' = [creation EXCEPT ![n + 1] = "initiated"] /\ n + 1 \notin Placed
    <3>1. n + 1 \notin 1..n
      BY <2>2
    <3> QED
      BY <1>14, <2>2, <2>3, <3>1 DEF PreparePayment
  <2>5. b = n + 1 => call[b] = "none"
    BY <1>1, <2>4 DEF Placed
  <2> QED
    BY <1>1, <1>2, <1>3, <2>1, <2>4, <2>5 DEF PaymentTypeOK
<1> QED
  BY <1>5, <1>6, <1>7, <1>8, <1>10, <1>11, <1>12, <1>13, <1>14, PaymentCases

\* It holds from checkout on.
LEMMA AttemptInvHolds == PaymentSpec => []AttemptInv
<1>1. PaymentInit => AttemptInv
  <2> SUFFICES ASSUME PaymentInit PROVE AttemptInv
    OBVIOUS
  <2>1. Placed = 1..0
    BY DEF PaymentInit, Placed
  <2>2. Numbered
    BY <2>1, AttemptsAssumption DEF Numbered
  <2> QED
    BY <2>2 DEF PaymentInit, AttemptInv
<1> QED
  BY <1>1, AttemptStep, PaymentTypeOKHolds, PTL DEF PaymentSpec

\* Whatever leases lapse and customers repeat, a second request never opens an
\* attempt whose first request may have reached the gateway.
THEOREM OpenedOnceHolds == PaymentSpec => OpenedOnce
<1>1. PaymentTypeOK /\ AttemptInv /\ [PaymentNext]_paymentVars =>
        [\A a \in Attempts : call[a] # "none" /\ call'[a] = "out" => call[a] = "out"]_paymentVars
  <2> SUFFICES ASSUME PaymentTypeOK, AttemptInv, [PaymentNext]_paymentVars, NEW a \in Attempts,
                      call[a] # "none", call'[a] = "out"
               PROVE  call[a] = "out"
    OBVIOUS
  <2>1. ASSUME NEW b \in Attempts, StartCall(b)
        PROVE  call[a] = "out"
    BY <2>1 DEF StartCall, AttemptInv, PaymentTypeOK
  <2>2. ASSUME NEW b \in Attempts,
               \/ ExpireLease(b) \/ CallSucceeds(b) \/ CallRefused(b) \/ CallInconclusive(b)
        PROVE  call[a] = "out"
    BY <2>2 DEF ExpireLease, CallSucceeds, CallRefused, CallInconclusive, PaymentTypeOK
  <2>3. CASE UNCHANGED call
    BY <2>3
  <2>4. \/ UNCHANGED call
        \/ \E b \in Attempts :
             StartCall(b) \/ ExpireLease(b) \/ CallSucceeds(b) \/ CallRefused(b) \/ CallInconclusive(b)
    BY PaymentCases
       DEF GatewayOpens, GatewayDecides, ClaimInquiry, AnswerInquiry, InquirySucceeded,
           InquiryFailed, InquiryPending, InquiryInconclusive, EndInquiry, ExpireUnknown, Webhook,
           SyncStatus, PaySyncUnanswered, PayResets, PreparePayment, OrderMoves, OrderJumps,
           paymentVars, processVars
  <2> QED
    BY <2>1, <2>2, <2>3, <2>4
<1> QED
  BY <1>1, PaymentTypeOKHolds, AttemptInvHolds, PTL DEF PaymentSpec, OpenedOnce

-----------------------------------------------------------------------------
(* The money.  Few steps touch what an order was paid and what it owes.     *)

moneyVars == <<status, payment, claimant, settlement, verified, owed, reviewed, regressed, unpaid>>

\* An event that the gateway sent is applied to an attempt with a row.
Applied(a, s, matches) ==
  /\ creation[a] # "absent"
  /\ s = "SUCCESS" => "SUCCESS" \in SaidOf(a)
  /\ apply(a, s, matches)
  /\ UNCHANGED unpaid

\* The steps that touch it.
LEMMA MoneyCases ==
  ASSUME PaymentTypeOK, AttemptInv, [PaymentNext]_paymentVars
  PROVE  \/ UNCHANGED moneyVars
         \/ \E a \in Attempts, s \in Statements, matches \in BOOLEAN : Applied(a, s, matches)
         \/ \E a \in Attempts : InquiryFailed(a) \/ InquiryPending(a) \/ ExpireUnknown(a)
         \/ PayResets
         \/ \E to \in Statuses : OrderMoves(to)
         \/ OrderJumps
<1>1. ASSUME NEW a \in Attempts, NEW matches \in BOOLEAN, InquirySucceeded(a, matches)
      PROVE  Applied(a, "SUCCESS", matches) /\ "SUCCESS" \in Statements
  BY <1>1 DEF InquirySucceeded, EndInquiry, Applied, AttemptInv, Statements
<1>2. ASSUME NEW a \in Attempts, NEW s \in Statements, NEW matches \in BOOLEAN,
             Webhook(a, s, matches) \/ SyncStatus(a, s, matches)
      PROVE  Applied(a, s, matches) \/ UNCHANGED moneyVars
  <2>1. creation[a] # "absent"
    <3>1. said[a] = <<>> => SaidOf(a) = {}
      BY DEF SaidOf
    <3> QED
      BY <1>2, <3>1 DEF Webhook, SyncStatus, Placed, AttemptInv
  <2> QED
    BY <1>2, <2>1 DEF Webhook, SyncStatus, Applied, moneyVars, orderVars
<1> QED
  BY <1>1, <1>2, PaymentCases
     DEF GatewayOpens, GatewayDecides, StartCall, ExpireLease, CallSucceeds, CallRefused,
         CallInconclusive, ClaimInquiry, AnswerInquiry, InquiryInconclusive, EndInquiry,
         PaySyncUnanswered, PreparePayment, paymentVars, orderVars, attemptVars, historyVars,
         moneyVars

\* The four things a statement can do to an order.
IdleFor(a, s, matches) ==
  /\ UNCHANGED <<status, claimant, owed>>
  /\ SettledBy(a, s) = "paid" /\ a \in VerifiedBy(a, s, matches) =>
       status = "awaiting_preparation" /\ settlement[a] = "paid"
  /\ SettledBy(a, s) = "paid" => status \notin Dead

Queued ==
  /\ status = "pending_confirmation" /\ status' = "awaiting_preparation"
  /\ UNCHANGED <<claimant, owed>>

OwedBack(a) ==
  /\ status \in Dead \/ status = "awaiting_preparation" \/ claimant \notin {a, NoAttempt}
  /\ status = "awaiting_preparation" => settlement[a] # "paid"
  /\ status # "pending_confirmation"
  /\ UNCHANGED <<status, claimant>>
  /\ owed' = owed \cup {<<a, IF status \in Dead THEN "late_payment" ELSE "duplicate_paid_attempt">>}

Claimed(a) ==
  /\ status \notin Dead \cup {"pending_confirmation", "awaiting_preparation"}
  /\ status' = "completed"
  /\ claimant \in {a, NoAttempt} /\ claimant' = a
  /\ UNCHANGED owed

\* What apply hands on to claimOrRefund is one of them.
LEMMA FulfilCases ==
  ASSUME NEW a \in Attempts, NEW s, NEW matches, Fulfil(a, s, matches)
  PROVE  \/ IdleFor(a, s, matches)
         \/ /\ SettledBy(a, s) = "paid"
            /\ a \in VerifiedBy(a, s, matches) \/ status \in Dead
            /\ Queued \/ OwedBack(a) \/ Claimed(a)
<1>1. CASE SettledBy(a, s) = "paid" /\ (a \in VerifiedBy(a, s, matches) \/ status \in Dead)
  <2>1. ClaimOrRefund(a)
    BY <1>1 DEF Fulfil
  <2>2. CASE status = "pending_confirmation"
    BY <1>1, <2>1, <2>2 DEF ClaimOrRefund, Queued
  <2>3. CASE status = "awaiting_preparation"
    BY <1>1, <2>1, <2>3 DEF ClaimOrRefund, OwedBack, IdleFor, Owe, Dead
  <2>4. CASE status \notin {"pending_confirmation", "awaiting_preparation"}
    BY <1>1, <2>1, <2>4 DEF ClaimOrRefund, ClaimOrRefundLater, CompleteFromPayment, OwedBack,
                            Claimed, Owe, Dead
  <2> QED
    BY <2>2, <2>3, <2>4
<1>2. CASE ~(SettledBy(a, s) = "paid" /\ (a \in VerifiedBy(a, s, matches) \/ status \in Dead))
  BY <1>2 DEF Fulfil, IdleFor
<1> QED
  BY <1>1, <1>2

\* Where the status graph leads: the queue is entered from pending only, and
\* nothing leads out of a dead or completed order.
LEMMA TransitionsForward ==
  ASSUME NEW s \in Statuses, NEW to \in TRANSITIONS[s]
  PROVE  /\ s \notin Dead \cup {"completed"}
         /\ to # "pending_confirmation"
         /\ to \in Dead \cup NeedsPayment \cup {"awaiting_preparation", "failed_delivery"}
         /\ to = "failed_delivery" => s = "delivering"
BY DEF Statuses, TRANSITIONS, Dead, NeedsPayment

-----------------------------------------------------------------------------
(* Work is paid for.                                                       *)

\* Verified means that the gateway reported a success; a paid order and an
\* order past payment have a verified attempt.
PaidInv ==
  /\ \A a \in verified : "SUCCESS" \in SaidOf(a)
  /\ payment = "paid" => verified # {}
  /\ status \in PastPayment => verified # {}

\* The projection says paid only for a verified attempt.
LEMMA ProjectedPaid ==
  ASSUME NEW c, NEW s, NEW v
  PROVE  Projected(c, s, v) = "paid" <=>
           \E a \in Attempts : c[a] # "absent" /\ s[a] = "paid" /\ a \in v
BY DEF Projected

\* Dying changes the payment status to one that is not paid, or not at all.
LEMMA DieUnpays ==
  ASSUME NEW to, Die(to)
  PROVE  status' = to /\ payment' # "paid"
BY DEF Die

\* Every step keeps it.
LEMMA PaidStep ==
  PaymentTypeOK /\ AttemptInv /\ PaidInv /\ [PaymentNext]_paymentVars => PaidInv'
<1> SUFFICES ASSUME PaymentTypeOK, AttemptInv, PaidInv, [PaymentNext]_paymentVars
             PROVE  PaidInv'
  OBVIOUS
<1>1. \A a \in Attempts : "SUCCESS" \in SaidOf(a) => "SUCCESS" \in SaidOf(a)'
  BY SaidGrows
<1>2. verified \subseteq Attempts
  BY DEF PaymentTypeOK
<1>3. CASE UNCHANGED moneyVars
  BY <1>1, <1>2, <1>3 DEF moneyVars, PaidInv
<1>4. ASSUME NEW a \in Attempts, NEW s \in Statements, NEW matches \in BOOLEAN,
             Applied(a, s, matches)
      PROVE  PaidInv'
  <2>1. verified' = VerifiedBy(a, s, matches) /\ verified \subseteq verified'
    BY <1>4 DEF Applied, apply, Settle, VerifiedBy
  <2>2. \A b \in verified' : "SUCCESS" \in SaidOf(b)'
    BY <1>1, <1>2, <1>4, <2>1, ApplyVerifies DEF Applied, PaidInv
  <2>3. payment' = "paid" => verified' # {}
    BY <1>4, ProjectedPaid DEF Applied, apply
  <2>4. status' \in PastPayment => verified' # {}
    BY <1>4, <2>1, FulfilCases
       DEF Applied, apply, IdleFor, Queued, OwedBack, Claimed, PaidInv, PastPayment, NeedsPayment, Dead
  <2> QED
    BY <2>2, <2>3, <2>4 DEF PaidInv
<1>5. ASSUME NEW a \in Attempts, InquiryFailed(a)
      PROVE  PaidInv'
  <2>1. verified' = verified /\ VerifiedBy(a, inquiry[a], FALSE) = verified
    BY <1>5 DEF InquiryFailed, Settle, VerifiedBy
  <2>2. payment' = "paid" => verified # {}
    BY <1>5, ProjectedPaid DEF InquiryFailed
  <2>3. status' \in PastPayment => verified # {}
    BY <1>5, <2>1, FulfilCases
       DEF InquiryFailed, IdleFor, Queued, OwedBack, Claimed, PaidInv, PastPayment, NeedsPayment, Dead
  <2> QED
    BY <1>1, <1>2, <2>1, <2>2, <2>3 DEF PaidInv
<1>6. ASSUME NEW a \in Attempts, InquiryPending(a)
      PROVE  PaidInv'
  BY <1>1, <1>2, <1>6, ProjectedPaid DEF InquiryPending, PaidInv
<1>7. ASSUME NEW a \in Attempts, ExpireUnknown(a)
      PROVE  PaidInv'
  <2>1. verified' = verified
    BY <1>7 DEF ExpireUnknown, Settle
  <2>2. \/ UNCHANGED <<status, payment>>
        \/ status' = "expired" /\ payment' # "paid"
    BY <1>7, DieUnpays DEF ExpireUnknown
  <2> QED
    BY <1>1, <1>2, <2>1, <2>2 DEF PaidInv, PastPayment, NeedsPayment
<1>8. CASE PayResets
  BY <1>1, <1>2, <1>8 DEF PayResets, attemptVars, PaidInv
<1>9. ASSUME NEW to \in Statuses, OrderMoves(to)
      PROVE  PaidInv'
  <2>1. verified' = verified
    BY <1>9 DEF OrderMoves, attemptVars
  <2>2. CASE to \in Dead
    BY <1>1, <1>2, <1>9, <2>1, <2>2, DieUnpays DEF OrderMoves, PaidInv, PastPayment, NeedsPayment, Dead
  <2>3. CASE to \notin Dead
    <3>1. status' = to /\ payment' = payment
      BY <1>9, <2>3 DEF OrderMoves
    <3>2. to \in NeedsPayment \/ status = "delivering"
      BY <1>9, <2>3, TransitionsForward DEF OrderMoves, PaymentTypeOK
    <3> QED
      BY <1>1, <1>2, <1>9, <2>1, <3>1, <3>2 DEF OrderMoves, PaidInv, PastPayment, NeedsPayment
  <2> QED
    BY <2>2, <2>3
<1>10. CASE OrderJumps
  BY <1>1, <1>2, <1>10 DEF OrderJumps, attemptVars, PaidInv, PastPayment, NeedsPayment
<1> QED
  BY <1>3, <1>4, <1>5, <1>6, <1>7, <1>8, <1>9, <1>10, MoneyCases

\* It holds from checkout on.
LEMMA PaidInvHolds == PaymentSpec => []PaidInv
<1>1. PaymentInit => PaidInv
  BY DEF PaymentInit, PaidInv, PastPayment, NeedsPayment
<1> QED
  BY <1>1, PaidStep, PaymentTypeOKHolds, AttemptInvHolds, PTL DEF PaymentSpec

\* No order gets past the customer's part unless the gateway reported a success
\* of an attempt whose amount was right, whatever arrives in whatever order.
THEOREM WorkIsPaidForHolds == PaymentSpec => []WorkIsPaidFor
<1>1. PaidInv => WorkIsPaidFor
  BY DEF PaidInv, WorkIsPaidFor
<1> QED
  BY <1>1, PaidInvHolds, PTL

-----------------------------------------------------------------------------
(* The payment status.                                                     *)

\* Every step keeps status and attempts in agreement.
LEMMA ProjectionStep ==
  PaymentTypeOK /\ AttemptInv /\ ProjectionAgrees /\ [PaymentNext]_paymentVars => ProjectionAgrees'
<1> SUFFICES ASSUME PaymentTypeOK, AttemptInv, ProjectionAgrees, [PaymentNext]_paymentVars
             PROVE  ProjectionAgrees'
  OBVIOUS
<1>1. verified \subseteq Attempts
  BY DEF PaymentTypeOK
<1>2. \A a \in verified : creation[a] # "absent"
  BY <1>1 DEF AttemptInv
<1>3. CASE UNCHANGED moneyVars
  BY <1>3 DEF moneyVars, ProjectionAgrees, Bought
<1>4. ASSUME NEW a \in Attempts, NEW s \in Statements, NEW matches \in BOOLEAN,
             Applied(a, s, matches)
      PROVE  ProjectionAgrees'
  <2>1. \A b \in verified' : b \in Attempts /\ creation[b] # "absent"
    BY <1>1, <1>2, <1>4, ApplyVerifies DEF Applied
  <2>2. payment' = "paid" <=> Bought' # {}
    BY <1>4, <2>1, ProjectedPaid DEF Applied, apply, Bought
  <2> QED
    BY <2>2 DEF ProjectionAgrees
<1>5. ASSUME NEW a \in Attempts, InquiryFailed(a) \/ InquiryPending(a)
      PROVE  ProjectionAgrees'
  <2>1. verified' = verified /\ \A b \in Attempts : creation[b] # "absent" => creation'[b] # "absent"
    BY <1>5, NumberedStep DEF InquiryFailed, InquiryPending, Settle, PaymentTypeOK
  <2>2. payment' = Projected(creation', settlement', verified) => (payment' = "paid" <=> Bought' # {})
    BY <1>1, <1>2, <2>1, ProjectedPaid DEF Bought
  <2>3. CASE payment' = Projected(creation', settlement', verified)
    BY <2>2, <2>3 DEF ProjectionAgrees
  <2>4. CASE InquiryPending(a) /\ UNCHANGED <<settlement, payment>>
    BY <2>1, <2>4 DEF InquiryPending, EndInquiry, ProjectionAgrees, Bought
  <2> QED
    BY <1>5, <2>1, <2>3, <2>4 DEF InquiryFailed, InquiryPending
<1>6. ASSUME NEW a \in Attempts, ExpireUnknown(a)
      PROVE  ProjectionAgrees'
  <2>1. CASE status \in Dead \cup {"completed"}
    <3>1. UNCHANGED <<status, payment, verified, unpaid>>
      BY <1>6, <2>1 DEF ExpireUnknown, Settle
    <3>2. Bought' \subseteq Bought
      BY <1>6, <3>1 DEF ExpireUnknown, Settle, Bought, PaymentTypeOK
    <3>3. regressed' = {} => regressed = {} /\ Bought' = Bought
      BY <1>6, <3>1 DEF ExpireUnknown, Settle, Bought, PaymentTypeOK
    <3> QED
      BY <3>1, <3>2, <3>3 DEF ProjectionAgrees
  <2>2. CASE status \notin Dead \cup {"completed"}
    BY <1>6, <2>2, DieUnpays DEF ExpireUnknown, ProjectionAgrees, Dead
  <2> QED
    BY <2>1, <2>2
<1>7. CASE PayResets
  BY <1>7 DEF PayResets, attemptVars, ProjectionAgrees, Bought, PaymentTypeOK
<1>8. ASSUME NEW to \in Statuses, OrderMoves(to)
      PROVE  ProjectionAgrees'
  <2>1. UNCHANGED <<verified, settlement, regressed, unpaid>> /\ status \notin Dead
    BY <1>8, TransitionsForward DEF OrderMoves, attemptVars, historyVars, PaymentTypeOK
  <2> QED
    BY <1>8, <2>1, DieUnpays DEF OrderMoves, ProjectionAgrees, Bought
<1>9. CASE OrderJumps
  BY <1>9 DEF OrderJumps, attemptVars, historyVars, ProjectionAgrees, Bought, Dead
<1> QED
  BY <1>3, <1>4, <1>5, <1>6, <1>7, <1>8, <1>9, MoneyCases

\* The payment status of a living order follows its attempts through every
\* interleaving; pay's unguarded reset and the overwritten settlement are the
\* only ways past the projection.
THEOREM ProjectionAgreesHolds == PaymentSpec => []ProjectionAgrees
<1>1. PaymentInit => ProjectionAgrees
  BY DEF PaymentInit, ProjectionAgrees, Bought
<1> QED
  BY <1>1, ProjectionStep, PaymentTypeOKHolds, AttemptInvHolds, PTL DEF PaymentSpec

-----------------------------------------------------------------------------
(* The ledger of an order.                                                 *)

\* The payments that nothing accounts for yet.
Spare == Bought \ (Owed \cup reviewed \cup {claimant})

\* A pending order has neither payment nor debt; only a verified attempt claims
\* an order, and completes it; a verified attempt is paid unless it was
\* overwritten, a paid one is verified or was under review.
LedgerOK ==
  /\ status = "pending_confirmation" => verified = {} /\ owed = {} /\ claimant = NoAttempt
  /\ claimant # NoAttempt => claimant \in verified /\ status = "completed"
  /\ \A a \in verified : settlement[a] = "paid" \/ a \in regressed
  /\ \A a \in Attempts : settlement[a] = "paid" => a \in verified \cup reviewed

\* At most one payment is spare, and an unclaimed order in the works has one
\* that it does not owe.
SpareOK ==
  regressed = {} =>
    /\ \A a, b \in Spare : a = b
    /\ status \in PastPayment /\ claimant = NoAttempt => Bought \ Owed # {}

\* An order that lives owes duplicates only.  What a dead one bought is owed by
\* its own reason but for one payment, for which the order's end stands.
Covered(a) == <<a, "late_payment">> \in owed \/ <<a, "duplicate_paid_attempt">> \in owed
Uncovered == {a \in Bought \ reviewed : ~Covered(a)}

DeadDebtOK ==
  /\ status \notin Dead => \A o \in owed : o[2] = "duplicate_paid_attempt"
  /\ status \in Dead /\ regressed = {} /\ ~unpaid =>
       /\ \A a, b \in Uncovered : a = b
       /\ Uncovered # {} => \E x \in Attempts : <<x, "order_ended">> \in owed

DebtInv == LedgerOK /\ SpareOK /\ DeadDebtOK

\* An obligation more makes its attempt owed, and no other.
LEMMA OwedGrows ==
  ASSUME NEW a, NEW r, owed' = owed \cup {<<a, r>>}
  PROVE  Owed' = Owed \cup {a}
<1>1. <<a, r>>[1] = a
  OBVIOUS
<1>2. ASSUME NEW x
      PROVE  x \in Owed' <=> x \in Owed \cup {a}
  BY <1>1 DEF Owed
<1> QED
  BY <1>2

\* The settlement of an attempt and its verification after an applied event.
LEMMA AppliedBought ==
  ASSUME PaymentTypeOK, LedgerOK,
         NEW a \in Attempts, NEW s \in Statements, NEW matches \in BOOLEAN, Applied(a, s, matches)
  PROVE  /\ verified' = VerifiedBy(a, s, matches)
         /\ settlement' = [settlement EXCEPT ![a] = SettledBy(a, s)]
         /\ Bought \subseteq Bought' /\ Bought' \subseteq Bought \cup {a}
         /\ a \in Bought' <=> SettledBy(a, s) = "paid" /\ a \in verified'
         /\ reviewed \subseteq reviewed' /\ regressed' = regressed
         /\ SettledBy(a, s) = "paid" /\ a \notin verified' => a \in reviewed'
         /\ settlement[a] = "paid" => SettledBy(a, s) = "paid"
         /\ \A b \in verified' : settlement'[b] = "paid" \/ b \in regressed'
         /\ \A b \in Attempts : settlement'[b] = "paid" => b \in verified' \cup reviewed'
<1>1. SettledBy(a, s) = "paid" <=> s = "SUCCESS" \/ settlement[a] = "paid"
  BY SettledByRises, RankedSettlements DEF PaymentTypeOK
<1>2. /\ verified' = VerifiedBy(a, s, matches)
      /\ settlement' = [settlement EXCEPT ![a] = SettledBy(a, s)]
      /\ reviewed' = IF SettledBy(a, s) = "paid" /\ a \notin verified'
                     THEN reviewed \cup {a} ELSE reviewed
      /\ regressed' = regressed
  BY <1>1 DEF Applied, apply, Settle
<1>3. /\ verified \subseteq verified' /\ verified' \subseteq verified \cup {a}
      /\ a \in verified' => a \in verified \/ s = "SUCCESS"
  BY ApplyVerifies DEF Applied
<1>4. verified \subseteq Attempts /\ settlement \in [Attempts -> Settlements]
  BY RankedSettlements DEF PaymentTypeOK
<1>5. Bought \subseteq Bought' /\ Bought' \subseteq Bought \cup {a}
  BY <1>1, <1>2, <1>3, <1>4 DEF Bought
<1>6. a \in Bought' <=> SettledBy(a, s) = "paid" /\ a \in verified'
  BY <1>2, <1>4 DEF Bought
<1>7. \A b \in verified' : settlement'[b] = "paid" \/ b \in regressed'
  BY <1>1, <1>2, <1>3, <1>4 DEF LedgerOK
<1>8. \A b \in Attempts : settlement'[b] = "paid" => b \in verified' \cup reviewed'
  BY <1>1, <1>2, <1>3, <1>4 DEF LedgerOK
<1> QED
  BY <1>1, <1>2, <1>5, <1>6, <1>7, <1>8

\* An applied event keeps the ledger.
LEMMA AppliedLedger ==
  ASSUME PaymentTypeOK, LedgerOK,
         NEW a \in Attempts, NEW s \in Statements, NEW matches \in BOOLEAN, Applied(a, s, matches)
  PROVE  LedgerOK'
<1> USE AppliedBought
<1>1. Fulfil(a, s, matches)
  BY DEF Applied, apply
<1>2. verified \subseteq verified' /\ (verified = {} => verified' \subseteq {a})
  BY ApplyVerifies DEF Applied
<1>3. CASE IdleFor(a, s, matches)
  <2>1. status = "pending_confirmation" => verified' = {}
    <3>1. SUFFICES ASSUME status = "pending_confirmation", a \in verified' PROVE FALSE
      BY <1>2 DEF LedgerOK
    <3>2. s = "SUCCESS"
      BY <3>1, ApplyVerifies DEF LedgerOK, Applied
    <3>3. SettledBy(a, s) = "paid"
      BY <3>2, SettledByRises, RankedSettlements DEF PaymentTypeOK
    <3> QED
      BY <1>3, <3>1, <3>3 DEF IdleFor
  <2> QED
    BY <1>2, <1>3, <2>1 DEF IdleFor, LedgerOK
<1>4. ASSUME SettledBy(a, s) = "paid", a \in VerifiedBy(a, s, matches) \/ status \in Dead, Queued
      PROVE  LedgerOK'
  BY <1>2, <1>4 DEF Queued, LedgerOK
<1>5. CASE OwedBack(a)
  BY <1>2, <1>5 DEF OwedBack, LedgerOK
<1>6. ASSUME SettledBy(a, s) = "paid", a \in VerifiedBy(a, s, matches) \/ status \in Dead, Claimed(a)
      PROVE  LedgerOK'
  BY <1>2, <1>6 DEF Claimed, LedgerOK
<1> QED
  BY <1>1, <1>3, <1>4, <1>5, <1>6, FulfilCases

\* A failed answer overwrites the settlement, and applies to a paid attempt only.
LEMMA FailedLedger ==
  ASSUME PaymentTypeOK, LedgerOK, NEW a \in Attempts, InquiryFailed(a)
  PROVE  /\ LedgerOK'
         /\ regressed' = {} =>
              /\ settlement[a] # "paid" /\ regressed = {}
              /\ Bought' = Bought
              /\ UNCHANGED <<status, claimant, owed, reviewed, unpaid>>
<1>1. /\ inquiry[a] \in Statements /\ inquiry[a] # "SUCCESS"
      /\ Fulfil(a, inquiry[a], FALSE)
  BY DEF InquiryFailed, Statements
<1>2. SettledBy(a, inquiry[a]) = "paid" <=> settlement[a] = "paid"
  BY <1>1, SettledByRises, RankedSettlements DEF PaymentTypeOK
<1>3. Target[inquiry[a]] \in Settlements \ {"paid"}
  BY <1>1, TargetType
<1>4. /\ settlement' = [settlement EXCEPT ![a] = Target[inquiry[a]]]
      /\ verified' = verified /\ VerifiedBy(a, inquiry[a], FALSE) = verified
      /\ reviewed' = reviewed /\ unpaid' = unpaid
      /\ regressed' = IF settlement[a] = "paid" THEN regressed \cup {a} ELSE regressed
  BY <1>3 DEF InquiryFailed, Settle, VerifiedBy, EndInquiry
<1>5. /\ \A b \in verified' : settlement'[b] = "paid" \/ b \in regressed'
      /\ \A b \in Attempts : settlement'[b] = "paid" => b \in verified' \cup reviewed'
  BY <1>3, <1>4 DEF LedgerOK, PaymentTypeOK
<1>6. LedgerOK'
  <2>1. CASE IdleFor(a, inquiry[a], FALSE)
    BY <1>4, <1>5, <2>1 DEF IdleFor, LedgerOK
  <2>2. CASE Queued
    BY <1>4, <1>5, <2>2 DEF Queued, LedgerOK
  <2>3. CASE OwedBack(a)
    BY <1>4, <1>5, <2>3 DEF OwedBack, LedgerOK
  <2>4. CASE Claimed(a) /\ (a \in VerifiedBy(a, inquiry[a], FALSE) \/ status \in Dead)
    BY <1>4, <1>5, <2>4 DEF Claimed, LedgerOK
  <2> QED
    BY <1>1, <2>1, <2>2, <2>3, <2>4, FulfilCases
<1>7. ASSUME regressed' = {}
      PROVE  /\ settlement[a] # "paid" /\ regressed = {}
             /\ Bought' = Bought
             /\ UNCHANGED <<status, claimant, owed, reviewed, unpaid>>
  <2>1. settlement[a] # "paid" /\ regressed = {}
    BY <1>4, <1>7
  <2>2. UNCHANGED <<status, claimant, owed>>
    BY <1>1, <1>2, <2>1 DEF Fulfil
  <2>3. Bought' = Bought
    BY <1>3, <1>4, <2>1 DEF Bought, PaymentTypeOK
  <2> QED
    BY <1>4, <2>1, <2>2, <2>3
<1> QED
  BY <1>6, <1>7

\* An order that dies keeps its debts and adds its end at most.
LEMMA DieOwes ==
  ASSUME NEW to, Die(to)
  PROVE  /\ status' = to
         /\ \A o \in owed' : o \in owed \/ o[2] = "order_ended"
         /\ owed \subseteq owed' /\ Owed \subseteq Owed'
         /\ payment = "paid" => \E x \in Attempts : <<x, "order_ended">> \in owed'
<1>1. /\ status' = to
      /\ owed \subseteq owed'
      /\ \A o \in owed' : o \in owed \/ o[2] = "order_ended"
  <2>1. \A x : <<x, "order_ended">>[2] = "order_ended"
    OBVIOUS
  <2> QED
    BY <2>1 DEF Die
<1>2. Owed \subseteq Owed'
  BY <1>1 DEF Owed
<1>3. payment = "paid" => \E x \in Attempts : <<x, "order_ended">> \in owed'
  BY DEF Die
<1> QED
  BY <1>1, <1>2, <1>3

\* The deadline of an unknown attempt overwrites its settlement, and may end
\* the order.
LEMMA ExpiredLedger ==
  ASSUME PaymentTypeOK, LedgerOK, NEW a \in Attempts, ExpireUnknown(a)
  PROVE  /\ LedgerOK'
         /\ UNCHANGED <<claimant, verified, reviewed, unpaid>>
         /\ regressed' = {} => regressed = {} /\ Bought' = Bought
         /\ \/ status \in Dead \cup {"completed"} /\ UNCHANGED <<status, payment, owed>>
            \/ status \notin Dead \cup {"completed"} /\ Die("expired")
<1>1. /\ settlement' = [settlement EXCEPT ![a] = "failed"]
      /\ verified' = verified /\ reviewed' = reviewed
      /\ regressed' = IF settlement[a] = "paid" THEN regressed \cup {a} ELSE regressed
      /\ claimant' = claimant /\ unpaid' = unpaid
      /\ \/ status \in Dead \cup {"completed"} /\ UNCHANGED <<status, payment, owed>>
         \/ status \notin Dead \cup {"completed"} /\ Die("expired")
  BY DEF ExpireUnknown, Settle
<1>2. /\ \A b \in verified' : settlement'[b] = "paid" \/ b \in regressed'
      /\ \A b \in Attempts : settlement'[b] = "paid" => b \in verified' \cup reviewed'
  BY <1>1 DEF LedgerOK, PaymentTypeOK
<1>3. LedgerOK'
  BY <1>1, <1>2, DieOwes DEF LedgerOK
<1>4. regressed' = {} => regressed = {} /\ Bought' = Bought
  BY <1>1 DEF Bought, PaymentTypeOK
<1> QED
  BY <1>1, <1>3, <1>4

\* The order moves, and its attempts stay as they are.
LEMMA MovedLedger ==
  ASSUME PaymentTypeOK, PaidInv, LedgerOK,
         NEW to \in Statuses, OrderMoves(to)
  PROVE  /\ LedgerOK'
         /\ UNCHANGED <<claimant, verified, settlement, reviewed, regressed, unpaid>>
         /\ Bought' = Bought
         /\ status \notin Dead \cup {"completed"}
         /\ \/ to \in Dead /\ Die(to)
            \/ to \notin Dead /\ status' = to /\ owed' = owed /\ status \in PastPayment
<1>1. /\ UNCHANGED <<claimant, verified, settlement, reviewed, regressed, unpaid>>
      /\ to \in TRANSITIONS[status] /\ status \in Statuses \ {"absent"}
      /\ to # "awaiting_preparation" /\ (to \in NeedsPayment => payment = "paid")
  BY DEF OrderMoves, attemptVars, historyVars, PaymentTypeOK
<1>2. /\ status \notin Dead \cup {"completed"} /\ to # "pending_confirmation"
      /\ to \in Dead \cup NeedsPayment \cup {"failed_delivery"}
      /\ to = "failed_delivery" => status = "delivering"
  BY <1>1, TransitionsForward
<1>3. \/ to \in Dead /\ Die(to)
      \/ to \notin Dead /\ status' = to /\ owed' = owed
  BY DEF OrderMoves
<1>4. to \notin Dead => status \in PastPayment
  <2>1. to \notin Dead => status # "pending_confirmation"
    BY <1>1, <1>2 DEF PaidInv, LedgerOK
  <2> QED
    BY <1>1, <1>2, <2>1 DEF PastPayment, NeedsPayment, Dead, Statuses, TRANSITIONS
<1>5. LedgerOK'
  BY <1>1, <1>2, <1>3, DieOwes DEF LedgerOK
<1> QED
  BY <1>1, <1>2, <1>3, <1>4, <1>5 DEF Bought

\* A pending answer, a reset of the payment status and a jump of the order
\* leave what was bought and owed alone.
LEMMA OtherLedger ==
  ASSUME PaymentTypeOK, LedgerOK,
         (\E a \in Attempts : InquiryPending(a)) \/ PayResets \/ OrderJumps \/ UNCHANGED moneyVars
  PROVE  /\ LedgerOK'
         /\ UNCHANGED <<claimant, verified, owed, reviewed, regressed>>
         /\ Bought' = Bought /\ (unpaid => unpaid')
         /\ \/ status' = status
            \/ status \in PastPayment \ Dead /\ status' \in PastPayment \ Dead
<1>1. ASSUME NEW a \in Attempts, InquiryPending(a)
      PROVE  /\ LedgerOK' /\ UNCHANGED <<status, claimant, verified, owed, reviewed, regressed, unpaid>>
             /\ Bought' = Bought
  <2>1. /\ UNCHANGED <<status, claimant, verified, owed, reviewed, regressed, unpaid>>
        /\ \/ settlement' = settlement
           \/ settlement[a] # "paid" /\ settlement' = [settlement EXCEPT ![a] = "pending"]
    BY <1>1 DEF InquiryPending, EndInquiry, Unsettled
  <2>2. Bought' = Bought
    BY <2>1 DEF Bought, PaymentTypeOK
  <2>3. LedgerOK'
    BY <2>1 DEF LedgerOK, PaymentTypeOK
  <2> QED
    BY <2>1, <2>2, <2>3
<1>2. CASE PayResets
  BY <1>2 DEF PayResets, attemptVars, LedgerOK, Bought
<1>3. CASE OrderJumps
  BY <1>3 DEF OrderJumps, attemptVars, historyVars, LedgerOK, Bought, PastPayment, NeedsPayment, Dead
<1>4. CASE UNCHANGED moneyVars
  BY <1>4 DEF moneyVars, LedgerOK, Bought
<1> QED
  BY <1>1, <1>2, <1>3, <1>4

\* The ledger is kept by every step.
LEMMA LedgerStep ==
  ASSUME PaymentTypeOK, AttemptInv, PaidInv, LedgerOK, [PaymentNext]_paymentVars
  PROVE  LedgerOK'
BY MoneyCases, AppliedLedger, FailedLedger, ExpiredLedger, MovedLedger, OtherLedger

-----------------------------------------------------------------------------
(* One payment of an order is spare.                                       *)

\* A payment that arrives is queued, claims, or is owed back; only the first
\* of a queued order stays spare.
LEMMA AppliedSpare ==
  ASSUME PaymentTypeOK, LedgerOK, SpareOK,
         NEW a \in Attempts, NEW s \in Statements, NEW matches \in BOOLEAN, Applied(a, s, matches)
  PROVE  SpareOK'
<1> SUFFICES ASSUME regressed' = {}
             PROVE  /\ \A x, y \in Spare' : x = y
                    /\ status' \in PastPayment /\ claimant' = NoAttempt => Bought' \ Owed' # {}
  BY DEF SpareOK
<1> USE AppliedBought
<1>1. /\ Fulfil(a, s, matches)
      /\ \A x, y \in Spare : x = y
      /\ status \in PastPayment /\ claimant = NoAttempt => Bought \ Owed # {}
  BY DEF Applied, apply, SpareOK
<1>2. /\ \A x \in Spare' : x \in Bought' /\ x \notin Owed' /\ x \notin reviewed' /\ x # claimant'
      /\ \A x : x \in Bought /\ x \notin Owed /\ x \notin reviewed /\ x # claimant => x \in Spare
      /\ \A x \in Bought : x # NoAttempt
  <2>1. /\ \A x \in Spare' : x \in Bought' /\ x \notin Owed' /\ x \notin reviewed' /\ x # claimant'
        /\ \A x : x \in Bought /\ x \notin Owed /\ x \notin reviewed /\ x # claimant => x \in Spare
    BY Zenon DEF Spare
  <2>2. \A x \in Bought : x \in Attempts
    BY DEF Bought, PaymentTypeOK
  <2> QED
    BY <2>1, <2>2, AttemptsAssumption DEF Attempts, NoAttempt
<1>3. CASE IdleFor(a, s, matches)
  <2>1. Owed' = Owed /\ status' = status /\ claimant' = claimant
    BY <1>3 DEF IdleFor, Owed
  <2>2. a \in Bought' => a \in Bought \/ a \in reviewed
    BY <1>3 DEF IdleFor, LedgerOK, Bought
  <2>3. Spare' \subseteq Spare
    BY <1>2, <2>1, <2>2
  <2> QED
    BY <1>1, <2>1, <2>3
<1>4. ASSUME SettledBy(a, s) = "paid", a \in VerifiedBy(a, s, matches) \/ status \in Dead, Queued
      PROVE  /\ \A x, y \in Spare' : x = y
             /\ Bought' \ Owed' # {}
  <2>1. Bought = {} /\ Owed' = {} /\ status \notin Dead
    BY <1>4 DEF Queued, LedgerOK, Bought, Owed, Dead
  <2>2. a \in Bought' /\ Bought' \subseteq {a}
    BY <1>4, <2>1
  <2> QED
    BY <1>2, <2>1, <2>2
<1>5. CASE OwedBack(a)
  <2>1. Owed' = Owed \cup {a} /\ status' = status /\ claimant' = claimant
    BY <1>5, OwedGrows DEF OwedBack
  <2>2. Spare' \subseteq Spare
    BY <1>2, <2>1
  <2>3. ASSUME status \in PastPayment, claimant = NoAttempt
        PROVE  Bought' \ Owed' # {}
    <3>1. status \notin Dead
      BY <2>3 DEF PastPayment, NeedsPayment, Dead
    <3>2. a \notin Bought
      BY <1>5, <2>3, <3>1 DEF OwedBack, Bought
    <3>3. PICK x \in Bought : x \notin Owed
      BY <1>1, <2>3
    <3> QED
      BY <2>1, <3>2, <3>3
  <2> QED
    BY <1>1, <2>1, <2>2, <2>3
<1>6. CASE Claimed(a)
  <2>1. Owed' = Owed /\ claimant' = a /\ claimant \in {a, NoAttempt} /\ a # NoAttempt
    BY <1>6, AttemptsAssumption DEF Claimed, Owed, Attempts, NoAttempt
  <2>2. Spare' \subseteq Spare
    BY <1>2, <2>1
  <2> QED
    BY <1>1, <2>1, <2>2
<1> QED
  BY <1>1, <1>3, <1>4, <1>5, <1>6, FulfilCases

\* Any other step frees no payment of its account.
LEMMA SpareStep ==
  ASSUME PaymentTypeOK, AttemptInv, PaidInv, LedgerOK, SpareOK, [PaymentNext]_paymentVars
  PROVE  SpareOK'
<1>1. ASSUME UNCHANGED <<claimant, reviewed>>, regressed' = {} => regressed = {} /\ Bought' = Bought,
             Owed \subseteq Owed',
             status' \in PastPayment => status \in PastPayment /\ Owed' = Owed
      PROVE  SpareOK'
  <2>1. regressed' = {} => Spare' \subseteq Spare
    BY <1>1 DEF Spare
  <2> QED
    BY <1>1, <2>1 DEF SpareOK
<1>2. \A to \in Dead : to \notin PastPayment
  BY DEF PastPayment, NeedsPayment, Dead
<1>3. ASSUME NEW a \in Attempts, InquiryFailed(a)
      PROVE  SpareOK'
  <2>1. regressed' # {} => SpareOK'
    BY DEF SpareOK
  <2>2. ASSUME regressed' = {}
        PROVE  SpareOK'
    BY <1>1, <1>3, <2>2, FailedLedger DEF Owed
  <2> QED
    BY <2>1, <2>2
<1>4. ASSUME NEW a \in Attempts, ExpireUnknown(a)
      PROVE  SpareOK'
  <2>1. Owed \subseteq Owed' /\ (status' \in PastPayment => status \in PastPayment /\ Owed' = Owed)
    BY <1>2, <1>4, ExpiredLedger, DieOwes DEF Owed, Dead
  <2> QED
    BY <1>1, <1>4, <2>1, ExpiredLedger
<1>5. ASSUME NEW to \in Statuses, OrderMoves(to)
      PROVE  SpareOK'
  <2>1. Owed \subseteq Owed' /\ (status' \in PastPayment => status \in PastPayment /\ Owed' = Owed)
    BY <1>2, <1>5, MovedLedger, DieOwes DEF Owed
  <2> QED
    BY <1>1, <1>5, <2>1, MovedLedger
<1>6. ASSUME (\E a \in Attempts : InquiryPending(a)) \/ PayResets \/ OrderJumps \/ UNCHANGED moneyVars
      PROVE  SpareOK'
  <2>1. /\ UNCHANGED <<claimant, owed, reviewed, regressed>> /\ Bought' = Bought
        /\ status' \in PastPayment => status \in PastPayment
    BY <1>6, OtherLedger
  <2>2. Owed' = Owed
    BY <2>1 DEF Owed
  <2> QED
    BY <1>1, <2>1, <2>2
<1> QED
  BY <1>3, <1>4, <1>5, <1>6, MoneyCases, AppliedSpare

-----------------------------------------------------------------------------
(* A dead order owes what it bought.                                       *)

\* An event for a dead order is owed back for its own reason.
LEMMA AppliedDebt ==
  ASSUME PaymentTypeOK, LedgerOK, DeadDebtOK,
         NEW a \in Attempts, NEW s \in Statements, NEW matches \in BOOLEAN, Applied(a, s, matches)
  PROVE  DeadDebtOK'
<1> USE AppliedBought
<1>1. Fulfil(a, s, matches) /\ unpaid' = unpaid
  BY DEF Applied, apply
<1>2. status' \in Dead <=> status \in Dead
  BY <1>1, FulfilCases DEF IdleFor, Queued, OwedBack, Claimed, Dead
<1>3. ASSUME status \notin Dead
      PROVE  \A o \in owed' : o[2] = "duplicate_paid_attempt"
  <2>1. \A o \in owed : o[2] = "duplicate_paid_attempt"
    BY <1>3 DEF DeadDebtOK
  <2>2. <<a, "duplicate_paid_attempt">>[2] = "duplicate_paid_attempt"
    OBVIOUS
  <2>3. owed' = owed \/ owed' = owed \cup {<<a, "duplicate_paid_attempt">>}
    BY <1>1, <1>3, FulfilCases DEF IdleFor, Queued, OwedBack, Claimed
  <2> QED
    BY <2>1, <2>2, <2>3
<1>4. ASSUME status \in Dead, regressed' = {}, ~unpaid'
      PROVE  /\ \A x, y \in Uncovered' : x = y
             /\ Uncovered' # {} => \E x \in Attempts : <<x, "order_ended">> \in owed'
  <2>1. IdleFor(a, s, matches) \/ OwedBack(a)
    BY <1>1, <1>4, FulfilCases DEF Queued, Claimed, Dead
  <2>2. owed \subseteq owed'
    BY <2>1 DEF IdleFor, OwedBack
  <2>3. Uncovered' \subseteq Uncovered
    <3>1. CASE IdleFor(a, s, matches)
      <4>1. Bought' \subseteq Bought /\ owed' = owed
        BY <1>4, <3>1 DEF IdleFor
      <4> QED
        BY <4>1 DEF Uncovered, Covered
    <3>2. CASE OwedBack(a)
      <4>1. <<a, "late_payment">> \in owed'
        BY <1>4, <3>2 DEF OwedBack
      <4> QED
        BY <2>2, <4>1 DEF Uncovered, Covered
    <3> QED
      BY <2>1, <3>1, <3>2
  <2> QED
    BY <1>1, <1>4, <2>2, <2>3 DEF DeadDebtOK
<1> QED
  BY <1>2, <1>3, <1>4 DEF DeadDebtOK

\* An order that dies had at most one payment it did not owe, and asks for it.
LEMMA DyingDebt ==
  ASSUME PaymentTypeOK, LedgerOK, SpareOK, DeadDebtOK, ProjectionAgrees,
         NEW to \in Dead, Die(to),
         status \notin Dead \cup {"completed"},
         UNCHANGED <<claimant, reviewed, unpaid>>,
         regressed' = {} => regressed = {} /\ Bought' = Bought
  PROVE  DeadDebtOK'
<1>1. status' \in Dead
  BY DieOwes
<1>2. ASSUME regressed' = {}, ~unpaid'
      PROVE  /\ \A x, y \in Uncovered' : x = y
             /\ Uncovered' # {} => \E x \in Attempts : <<x, "order_ended">> \in owed'
  <2>1. claimant = NoAttempt /\ regressed = {} /\ Bought' = Bought
    BY <1>2 DEF LedgerOK
  <2>2. \A x \in Bought : x # claimant
    BY <2>1, AttemptsAssumption DEF Bought, PaymentTypeOK, Attempts, NoAttempt
  <2>3. ASSUME NEW x \in Owed
        PROVE  Covered(x)
    <3>1. PICK o \in owed : x = o[1]
      BY DEF Owed
    <3>2. o \in Attempts \X Reasons
      BY DEF PaymentTypeOK
    <3>3. o[2] = "duplicate_paid_attempt" /\ o = <<o[1], o[2]>>
      BY <3>2 DEF DeadDebtOK
    <3> QED
      BY <3>1, <3>3 DEF Covered
  <2>4. \A x : Covered(x) => Covered(x)'
    BY DieOwes DEF Covered
  <2>5. Uncovered' \subseteq Spare
    BY <2>1, <2>2, <2>3, <2>4 DEF Uncovered, Spare
  <2>6. Uncovered' # {} => payment = "paid"
    BY <1>2, <2>1 DEF Uncovered, ProjectionAgrees
  <2> QED
    BY <2>1, <2>5, <2>6, DieOwes DEF SpareOK
<1> QED
  BY <1>1, <1>2 DEF DeadDebtOK

\* Every step keeps the debts of the dead.
LEMMA DebtStep ==
  ASSUME PaymentTypeOK, AttemptInv, PaidInv, ProjectionAgrees, DebtInv, [PaymentNext]_paymentVars
  PROVE  DebtInv'
<1>1. ASSUME UNCHANGED <<owed, reviewed>>, unpaid => unpaid',
             regressed' = {} => regressed = {} /\ Bought' = Bought,
             status' \in Dead <=> status \in Dead
      PROVE  DeadDebtOK'
  <2>1. regressed' = {} => Uncovered' = Uncovered
    BY <1>1 DEF Uncovered, Covered
  <2> QED
    BY <1>1, <2>1 DEF DeadDebtOK, DebtInv
<1>2. ASSUME NEW a \in Attempts, NEW s \in Statements, NEW matches \in BOOLEAN,
             Applied(a, s, matches)
      PROVE  DeadDebtOK'
  BY <1>2, AppliedDebt DEF DebtInv
<1>3. ASSUME NEW a \in Attempts, InquiryFailed(a)
      PROVE  DeadDebtOK'
  <2>1. CASE regressed' = {}
    BY <1>1, <1>3, <2>1, FailedLedger DEF DebtInv
  <2>2. CASE regressed' # {}
    <3>1. Fulfil(a, inquiry[a], FALSE) /\ inquiry[a] \in Statements
      BY <1>3 DEF InquiryFailed, Statements
    <3>2. status' \in Dead <=> status \in Dead
      BY <3>1, FulfilCases DEF IdleFor, Queued, OwedBack, Claimed, Dead
    <3>3. \/ owed' = owed
          \/ status \in Dead
          \/ owed' = owed \cup {<<a, "duplicate_paid_attempt">>}
      BY <3>1, FulfilCases DEF IdleFor, Queued, OwedBack, Claimed
    <3>4. <<a, "duplicate_paid_attempt">>[2] = "duplicate_paid_attempt"
      OBVIOUS
    <3> QED
      BY <2>2, <3>2, <3>3, <3>4 DEF DeadDebtOK, DebtInv
  <2> QED
    BY <2>1, <2>2
<1>4. ASSUME NEW a \in Attempts, ExpireUnknown(a)
      PROVE  DeadDebtOK'
  <2>1. CASE status \in Dead \cup {"completed"} /\ UNCHANGED <<status, payment, owed>>
    BY <1>1, <1>4, <2>1, ExpiredLedger DEF DebtInv
  <2>2. CASE status \notin Dead \cup {"completed"} /\ Die("expired")
    BY <1>4, <2>2, ExpiredLedger, DyingDebt DEF DebtInv, Dead
  <2> QED
    BY <1>4, <2>1, <2>2, ExpiredLedger DEF DebtInv
<1>5. ASSUME NEW to \in Statuses, OrderMoves(to)
      PROVE  DeadDebtOK'
  <2>1. CASE to \in Dead
    BY <1>5, <2>1, MovedLedger, DyingDebt DEF DebtInv
  <2>2. CASE to \notin Dead
    BY <1>1, <1>5, <2>2, MovedLedger DEF DebtInv
  <2> QED
    BY <2>1, <2>2
<1>6. ASSUME (\E a \in Attempts : InquiryPending(a)) \/ PayResets \/ OrderJumps \/ UNCHANGED moneyVars
      PROVE  DeadDebtOK'
  BY <1>1, <1>6, OtherLedger DEF DebtInv
<1>7. DeadDebtOK'
  BY <1>2, <1>3, <1>4, <1>5, <1>6, MoneyCases
<1> QED
  BY <1>7, LedgerStep, SpareStep DEF DebtInv

\* It holds from checkout on.
LEMMA DebtInvHolds == PaymentSpec => []DebtInv
<1>1. PaymentInit => DebtInv
  BY DEF PaymentInit, DebtInv, LedgerOK, SpareOK, DeadDebtOK, Spare, Bought, PastPayment,
         NeedsPayment, Dead
<1> QED
  BY <1>1, DebtStep, PaymentTypeOKHolds, AttemptInvHolds, PaidInvHolds, ProjectionAgreesHolds, PTL
     DEF PaymentSpec

-----------------------------------------------------------------------------
(* The theorems.                                                           *)

\* A set of attempts whose members are all the same has one member at most.
LEMMA AtMostOne ==
  ASSUME NEW S \in SUBSET Attempts, \A x, y \in S : x = y
  PROVE  Cardinality(S) <= 1
<1>1. CASE S = {}
  BY <1>1, FS_EmptySet
<1>2. CASE S # {}
  <2>1. PICK x \in S : S = {x}
    BY <1>2
  <2> QED
    BY <2>1, FS_Singleton
<1> QED
  BY <1>1, <1>2

\* However payments, replays, cancellations and deadlines interleave, at most
\* one payment besides the claimant's is neither owed back nor was reviewed.
THEOREM SurplusIsOwedHolds == PaymentSpec => []SurplusIsOwed
<1>1. PaymentTypeOK /\ DebtInv => SurplusIsOwed
  <2> SUFFICES ASSUME PaymentTypeOK, DebtInv, regressed = {}
               PROVE  Cardinality(Spare) <= 1
    BY DEF SurplusIsOwed, Spare
  <2>1. Spare \in SUBSET Attempts
    BY DEF Spare, Bought, PaymentTypeOK
  <2> QED
    BY <2>1, AtMostOne DEF DebtInv, SpareOK
<1> QED
  BY <1>1, PaymentTypeOKHolds, DebtInvHolds, PTL

\* An order in the works never owes back every payment it got.
THEOREM KeepsAPaymentHolds == PaymentSpec => []KeepsAPayment
<1>1. DebtInv => KeepsAPayment
  <2> SUFFICES ASSUME DebtInv, status \in PastPayment, regressed = {}
               PROVE  \E a \in Bought : a \notin Owed \ {claimant}
    BY DEF KeepsAPayment
  <2>1. CASE claimant = NoAttempt
    BY <2>1 DEF DebtInv, SpareOK
  <2>2. CASE claimant # NoAttempt
    BY <2>2 DEF DebtInv, LedgerOK, Bought
  <2> QED
    BY <2>1, <2>2
<1> QED
  BY <1>1, DebtInvHolds, PTL

\* An order that ended owes back as many payments as it got, whether they came
\* before its end or after it.
THEOREM DeadOwesAllHolds == PaymentSpec => []DeadOwesAll
<1>1. PaymentTypeOK /\ DebtInv => DeadOwesAll
  <2> SUFFICES ASSUME PaymentTypeOK, DebtInv, status \in Dead, regressed = {}, ~unpaid
               PROVE  Cardinality(owed) >= Cardinality(Bought \ reviewed)
    BY DEF DeadOwesAll
  <2>1. IsFiniteSet(owed) /\ Cardinality(owed) \in Nat
    <3>1. IsFiniteSet(Attempts)
      BY AttemptsAssumption, FS_Interval DEF Attempts
    <3>2. IsFiniteSet(Reasons)
      <4>1. IsFiniteSet({"order_ended"} \cup {"late_payment"})
        BY FS_Singleton, FS_AddElement
      <4>2. Reasons = ({"order_ended"} \cup {"late_payment"}) \cup {"duplicate_paid_attempt"}
        BY DEF Reasons
      <4> QED
        BY <4>1, <4>2, FS_AddElement
    <3>3. IsFiniteSet(Attempts \X Reasons)
      BY <3>1, <3>2, FS_Product
    <3> QED
      BY <3>3, FS_Subset, FS_CardinalityType DEF PaymentTypeOK
  <2>2. /\ \A x, y \in Uncovered : x = y
        /\ Uncovered # {} => \E x \in Attempts : <<x, "order_ended">> \in owed
    BY DEF DebtInv, DeadDebtOK
  <2> DEFINE end == CHOOSE x \in Attempts : <<x, "order_ended">> \in owed
             debt == [b \in Bought \ reviewed |->
                        IF <<b, "late_payment">> \in owed THEN <<b, "late_payment">>
                        ELSE IF <<b, "duplicate_paid_attempt">> \in owed
                             THEN <<b, "duplicate_paid_attempt">>
                             ELSE <<end, "order_ended">>]
  <2>3. debt \in [Bought \ reviewed -> owed]
    BY <2>2 DEF Uncovered, Covered
  <2>4. \A x, y \in Bought \ reviewed : debt[x] = debt[y] => x = y
    BY <2>2 DEF Uncovered, Covered
  <2>5. debt \in Injection(Bought \ reviewed, owed)
    BY <2>3, <2>4 DEF Injection, IsInjective
  <2>6. Cardinality(Bought \ reviewed) <= Cardinality(owed)
    BY <2>1, <2>5, FS_Injection
  <2>7. Cardinality(Bought \ reviewed) \in Nat
    BY <2>1, <2>5, FS_Injection, FS_CardinalityType
  <2> QED
    BY <2>1, <2>6, <2>7
<1> QED
  BY <1>1, PaymentTypeOKHolds, DebtInvHolds, PTL

-----------------------------------------------------------------------------
(* What a payment event does to what is owed.                              *)

\* Obligations and verified attempts stay, a dead order stays dead, and an
\* order that ends owes back a verified attempt.
Accrues ==
  /\ verified \subseteq verified' /\ verified' \subseteq Attempts
  /\ owed \subseteq owed' /\ owed' \subseteq Obligations
  /\ status \in Dead => status' = status
  /\ status' \in Statuses
  /\ \A o \in owed' \ owed : o[2] = "order_ended" => o[1] \in verified' /\ status' \in Dead

\* What Accrues asks of the state before.
AccrualOK ==
  verified \subseteq Attempts /\ owed \subseteq Obligations /\ status \in Statuses

\* An order that lives and dies owes its latest verified attempt.
LEMMA DieAccrues ==
  ASSUME AccrualOK, NEW to \in Dead, Die(to), status \notin Dead,
         verified \subseteq verified', verified' \subseteq Attempts
  PROVE  Accrues
<1>1. to \in Statuses
  BY DEF Dead, Statuses, TRANSITIONS
<1>2. CASE owed' = owed
  BY <1>1, <1>2 DEF AccrualOK, Accrues, Die
<1>3. ASSUME NEW a \in Attempts, a \in verified, owed' = owed \cup {<<a, "order_ended">>}
      PROVE  Accrues
  <2>1. <<a, "order_ended">> \in Obligations
    BY DEF Obligations, Reasons
  <2>2. \A o \in owed' \ owed : o[1] = a
    BY <1>3
  <2> QED
    BY <1>1, <1>3, <2>1, <2>2 DEF AccrualOK, Accrues, Die
<1> QED
  BY <1>2, <1>3 DEF Die, IsLatest

\* A payment queues or completes a living order, or is owed as surplus.
LEMMA FulfilAccrues ==
  ASSUME AccrualOK, NEW a \in Attempts, NEW s, NEW matches, Fulfil(a, s, matches),
         verified \subseteq verified', verified' \subseteq Attempts
  PROVE  Accrues
<1>1. CASE UNCHANGED <<status, owed>>
  BY <1>1 DEF AccrualOK, Accrues
<1>2. ASSUME NEW reason \in Reasons \ {"order_ended"}, Owe(a, reason)
      PROVE  Accrues
  <2>1. <<a, reason>> \in Obligations /\ \A o \in owed' \ owed : o[2] # "order_ended"
    BY <1>2 DEF Obligations, Owe
  <2> QED
    BY <1>2, <2>1 DEF AccrualOK, Accrues, Owe
<1>3. CASE status \notin Dead /\ owed' = owed /\ status' \in {"awaiting_preparation", "completed"}
  BY <1>3 DEF AccrualOK, Accrues, Statuses, TRANSITIONS
<1>4. ASSUME ClaimOrRefundLater(a), status \notin {"pending_confirmation", "awaiting_preparation"}
      PROVE  Accrues
  <2>1. "late_payment" \in Reasons /\ "duplicate_paid_attempt" \in Reasons
    BY DEF Reasons
  <2>2. CompleteFromPayment => status \notin Dead /\ status' = "completed"
    BY DEF CompleteFromPayment, Dead
  <2> QED
    BY <1>2, <1>3, <1>4, <2>1, <2>2 DEF ClaimOrRefundLater
<1>5. ASSUME ClaimOrRefund(a)
      PROVE  Accrues
  <2>1. CASE status = "pending_confirmation"
    BY <1>3, <1>5, <2>1 DEF ClaimOrRefund, Dead
  <2>2. CASE status = "awaiting_preparation"
    <3>1. UNCHANGED <<status, owed>> \/ Owe(a, "duplicate_paid_attempt")
      BY <1>5, <2>2 DEF ClaimOrRefund
    <3> QED
      BY <1>1, <1>2, <3>1 DEF Reasons
  <2>3. CASE status \notin {"pending_confirmation", "awaiting_preparation"}
    BY <1>4, <1>5, <2>3 DEF ClaimOrRefund
  <2> QED
    BY <2>1, <2>2, <2>3
<1> QED
  BY <1>1, <1>5 DEF Fulfil

\* The same for a whole payment event.
LEMMA ApplyAccrues ==
  ASSUME AccrualOK, NEW a \in Attempts, NEW s, NEW matches, apply(a, s, matches)
  PROVE  Accrues
<1>1. verified' = VerifiedBy(a, s, matches) /\ Fulfil(a, s, matches)
  BY DEF apply, Settle
<1>2. verified \subseteq verified' /\ verified' \subseteq Attempts
  BY <1>1 DEF VerifiedBy, AccrualOK
<1> QED
  BY <1>1, <1>2, FulfilAccrues

\* Every step of the payment side.
LEMMA PaymentAccrues ==
  ASSUME AccrualOK, PaymentNext
  PROVE  Accrues
<1> USE DEF orderVars, attemptVars
<1>1. CASE UNCHANGED <<status, verified, owed>>
  BY <1>1 DEF AccrualOK, Accrues
<1>2. ASSUME NEW a \in Attempts, NEW s \in Statements, NEW matches \in BOOLEAN,
             Webhook(a, s, matches) \/ SyncStatus(a, s, matches)
      PROVE  Accrues
  BY <1>1, <1>2, ApplyAccrues DEF Webhook, SyncStatus
<1>3. ASSUME NEW a \in Attempts, NEW matches \in BOOLEAN, InquirySucceeded(a, matches)
      PROVE  Accrues
  BY <1>3, ApplyAccrues DEF InquirySucceeded
<1>4. ASSUME NEW a \in Attempts, InquiryFailed(a)
      PROVE  Accrues
  <2>1. verified' = verified /\ Fulfil(a, inquiry[a], FALSE)
    BY <1>4 DEF InquiryFailed, Settle
  <2> QED
    BY <2>1, FulfilAccrues DEF AccrualOK
<1>5. ASSUME NEW a \in Attempts, ExpireUnknown(a)
      PROVE  Accrues
  <2>1. verified' = verified
    BY <1>5 DEF ExpireUnknown, Settle
  <2>2. CASE status \in Dead \cup {"completed"}
    BY <1>1, <1>5, <2>1, <2>2 DEF ExpireUnknown
  <2>3. CASE status \notin Dead \cup {"completed"}
    <3>1. Die("expired") /\ "expired" \in Dead
      BY <1>5, <2>3 DEF ExpireUnknown, Dead
    <3> QED
      BY <2>1, <2>3, <3>1, DieAccrues DEF AccrualOK
  <2> QED
    BY <2>2, <2>3
<1>6. ASSUME NEW to \in Statuses, OrderMoves(to)
      PROVE  Accrues
  <2>1. status \notin Dead /\ verified' = verified /\ to \in TRANSITIONS[status]
    BY <1>6, TransitionsForward DEF OrderMoves, AccrualOK
  <2>2. CASE to \in Dead
    BY <1>6, <2>1, <2>2, DieAccrues DEF OrderMoves, AccrualOK
  <2>3. CASE to \notin Dead
    BY <1>6, <2>1, <2>3 DEF OrderMoves, AccrualOK, Accrues
  <2> QED
    BY <2>2, <2>3
<1>7. ASSUME OrderJumps
      PROVE  Accrues
  BY <1>7 DEF OrderJumps, AccrualOK, Accrues, Dead, Statuses, TRANSITIONS
<1>8. ASSUME PaySyncUnanswered \/ PayResets \/ PreparePayment
      PROVE  Accrues
  BY <1>1, <1>8 DEF PaySyncUnanswered, PayResets, PreparePayment
<1>9. ASSUME NEW a \in Attempts,
             \/ GatewayOpens(a) \/ GatewayDecides(a)
             \/ StartCall(a) \/ ExpireLease(a)
             \/ CallSucceeds(a) \/ CallRefused(a) \/ CallInconclusive(a)
             \/ ClaimInquiry(a) \/ AnswerInquiry(a)
             \/ InquiryPending(a) \/ InquiryInconclusive(a)
      PROVE  Accrues
  BY <1>1, <1>9
     DEF GatewayOpens, GatewayDecides, StartCall, ExpireLease, CallSucceeds, CallRefused,
         CallInconclusive, ClaimInquiry, AnswerInquiry, InquiryPending, InquiryInconclusive
<1>10. CASE UNCHANGED paymentVars
  BY <1>1, <1>10 DEF paymentVars
<1> QED
  BY <1>2, <1>3, <1>4, <1>5, <1>6, <1>7, <1>8, <1>9, <1>10, PaymentCases

-----------------------------------------------------------------------------
(* The refunds.                                                            *)

RefundStates ==
  {"none", "pending", "in_progress", "rejected", "refused", "needs_review", "completed"}

\* The table knows these states.
LEMMA KnownStates == DOMAIN AllowedTransitions = RefundStates
BY DEF AllowedTransitions, RefundStates

Ended(a) == <<a, "order_ended">>

\* The pair of an attempt and the reason that the pages show.
LEMMA EndedIsObligation ==
  ASSUME NEW a \in Attempts
  PROVE  Ended(a) \in Obligations /\ Ended(a)[1] = a /\ Ended(a)[2] = "order_ended"
BY DEF Ended, Obligations, Reasons

\* Only one obligation of an attempt has that reason.
LEMMA EndedIsOne ==
  ASSUME NEW o \in Obligations, o[2] = "order_ended"
  PROVE  o[1] \in Attempts /\ o = Ended(o[1])
BY DEF Ended, Obligations

\* An attempt that an ended order owes brought money, and its transfer was made
\* exactly when its refund is completed.
RefundsInv ==
  /\ RefundsTypeOK
  /\ AccrualOK
  /\ \A a \in Attempts : Ended(a) \in owed => a \in verified /\ status \in Dead
  /\ \A a \in Attempts : sent[a] = IF refund[Ended(a)] = "completed" THEN 1 ELSE 0

\* A payment event only adds obligations, that wait in the queue.
LEMMA PaymentKeepsRefunds ==
  ASSUME RefundsInv, PaymentStep
  PROVE  RefundsInv'
<1>1. Accrues /\ AccrualOK'
  BY PaymentAccrues DEF RefundsInv, PaymentStep, Accrues, AccrualOK, Obligations
<1>2. RefundsTypeOK /\ UNCHANGED <<guest, destination, sent>>
  BY DEF RefundsInv, PaymentStep
<1>3. \A o \in Obligations :
        /\ o \notin owed => refund[o] = "none" /\ refund'[o] = IF o \in owed' THEN "pending" ELSE "none"
        /\ o \in owed => refund'[o] = refund[o] /\ o \in owed'
  BY <1>1, <1>2 DEF PaymentStep, Accrues, RefundsTypeOK
<1>4. refund' \in [Obligations -> DOMAIN AllowedTransitions]
  <2>1. "pending" \in RefundStates
    BY DEF RefundStates
  <2> QED
    BY <1>2, <2>1, KnownStates DEF PaymentStep, RefundsTypeOK
<1>5. validity' \in {"missing", "valid", "invalid"}
  BY <1>2 DEF PaymentStep, RefundsTypeOK
<1>6. RefundsTypeOK'
  BY <1>2, <1>3, <1>4, <1>5 DEF RefundsTypeOK
<1>7. ASSUME NEW a \in Attempts, Ended(a) \in owed'
      PROVE  a \in verified' /\ status' \in Dead
  BY <1>1, <1>7, EndedIsObligation DEF RefundsInv, Accrues
<1>8. ASSUME NEW a \in Attempts
      PROVE  sent'[a] = IF refund'[Ended(a)] = "completed" THEN 1 ELSE 0
  <2>1. refund'[Ended(a)] = "completed" <=> refund[Ended(a)] = "completed"
    BY <1>3, EndedIsObligation
  <2> QED
    BY <1>2, <2>1 DEF RefundsInv
<1> QED
  BY <1>1, <1>6, <1>7, <1>8 DEF RefundsInv

\* An operation on a refund leaves what is owed, verified and dead alone.  It
\* keeps the invariant when it moves one obligation o to a known state, with a
\* destination where that state asks for one, and counts a completion.
LEMMA OneRefundMoves ==
  ASSUME RefundsInv, NEW o \in owed, NEW s \in RefundStates \ {"none"},
         UNCHANGED <<status, verified, owed, guest>>,
         refund' = [refund EXCEPT ![o] = s],
         destination' \in [Obligations -> Destinations \cup {NoDestination}],
         \A q \in Obligations : destination'[q] # NoDestination => q[2] = "order_ended",
         \A q \in Obligations : destination[q] # NoDestination => destination'[q] # NoDestination,
         s \in {"in_progress", "rejected", "refused", "completed"} =>
           destination'[o] # NoDestination,
         validity' \in {"missing", "valid", "invalid"},
         \/ s # "completed" /\ refund[o] # "completed" /\ sent' = sent
         \/ /\ s = "completed" /\ refund[o] = "in_progress" /\ o[2] = "order_ended"
            /\ sent' = [sent EXCEPT ![o[1]] = @ + 1]
         \/ s = refund[o] /\ sent' = sent
  PROVE  RefundsInv'
<1>1. o \in Obligations /\ owed \subseteq Obligations /\ RefundsTypeOK
  BY DEF RefundsInv, AccrualOK
<1>2. refund \in [Obligations -> RefundStates] /\ refund' \in [Obligations -> RefundStates]
  BY <1>1, KnownStates DEF RefundsTypeOK
<1>3. refund'[o] = s /\ \A q \in Obligations \ {o} : refund'[q] = refund[q]
  BY <1>1, <1>2
<1>4. sent' \in [Attempts -> Nat]
  <2>1. o[2] = "order_ended" => o[1] \in Attempts
    BY <1>1, EndedIsOne
  <2> QED
    BY <1>1, <2>1 DEF RefundsTypeOK
<1>5. RefundsTypeOK'
  <2>1. \A q \in Obligations : refund'[q] # "none" <=> q \in owed'
    BY <1>1, <1>3 DEF RefundsTypeOK
  <2>2. \A q \in Obligations :
          refund'[q] \in {"in_progress", "rejected", "refused", "completed"} =>
            destination'[q] # NoDestination
    BY <1>1, <1>3 DEF RefundsTypeOK
  <2> QED
    BY <1>1, <1>2, <1>4, <2>1, <2>2, KnownStates DEF RefundsTypeOK
<1>6. ASSUME NEW a \in Attempts
      PROVE  sent'[a] = IF refund'[Ended(a)] = "completed" THEN 1 ELSE 0
  <2>1. Ended(a) \in Obligations /\ sent \in [Attempts -> Nat]
    BY <1>1, EndedIsObligation DEF RefundsTypeOK
  <2>2. sent[a] = IF refund[Ended(a)] = "completed" THEN 1 ELSE 0
    BY DEF RefundsInv
  <2>3. CASE o = Ended(a)
    <3>1. o[1] = a
      BY <2>3, EndedIsObligation
    <3> QED
      BY <1>3, <2>1, <2>2, <2>3, <3>1
  <2>4. CASE o # Ended(a)
    <3>1. o[2] = "order_ended" => o[1] # a
      BY <1>1, <2>4, EndedIsOne
    <3>2. refund'[Ended(a)] = refund[Ended(a)]
      BY <1>3, <2>1, <2>4
    <3>3. sent'[a] = sent[a]
      BY <2>1, <3>1
    <3> QED
      BY <2>2, <3>2, <3>3
  <2> QED
    BY <2>3, <2>4
<1> QED
  BY <1>5, <1>6 DEF RefundsInv, AccrualOK

\* What a step of the transition table may do to a state.
LEMMA TransitionMoves ==
  ASSUME RefundsInv, NEW o \in owed, NEW to \in {"pending", "needs_review"}, Transition(o, to)
  PROVE  \E s \in RefundStates \ {"none"} :
           /\ refund' = [refund EXCEPT ![o] = s]
           /\ s = refund[o] \/ (s = to /\ refund[o] # "completed")
<1>1. o \in Obligations /\ refund[o] \in RefundStates \ {"none"} /\ refund \in [Obligations -> RefundStates]
  BY KnownStates DEF RefundsInv, AccrualOK, RefundsTypeOK
<1>2. to \in RefundStates \ {"none"}
  BY DEF RefundStates
<1>3. CASE to \in AllowedTransitions[refund[o]]
  <2>1. refund[o] # "completed"
    BY <1>3 DEF AllowedTransitions
  <2> QED
    BY <1>2, <1>3, <2>1 DEF Transition
<1>4. CASE to \notin AllowedTransitions[refund[o]]
  <2>1. refund' = [refund EXCEPT ![o] = refund[o]]
    BY <1>1, <1>4 DEF Transition
  <2> QED
    BY <1>1, <2>1
<1> QED
  BY <1>3, <1>4

\* Every operation on a refund keeps the invariant.
LEMMA RefundKeeps ==
  ASSUME RefundsInv, NEW o \in Obligations, RefundStep(o)
  PROVE  RefundsInv'
<1> USE DEF orderVars, attemptVars, paymentVars
<1>1. /\ RefundsTypeOK
      /\ refund \in [Obligations -> RefundStates]
      /\ destination \in [Obligations -> Destinations \cup {NoDestination}]
      /\ \A q \in Obligations : destination[q] # NoDestination => q[2] = "order_ended"
  BY KnownStates DEF RefundsInv, RefundsTypeOK
<1>2. ASSUME NEW d \in Destinations, submitDestination(o, d)
      PROVE  RefundsInv'
  <2>1. o \in owed /\ o[2] = "order_ended" /\ refund[o] \in {"pending", "rejected"}
    BY <1>2 DEF submitDestination, canonicalObligation, CanSubmit
  <2>2. /\ destination' = [destination EXCEPT ![o] = d] /\ validity' = "valid" /\ sent' = sent
        /\ UNCHANGED <<status, verified, owed, guest>>
    BY <1>2 DEF submitDestination, SetPayment
  <2>3. refund' = [refund EXCEPT ![o] = "pending"]
    BY <1>1, <1>2, <2>1 DEF submitDestination, Transition, AllowedTransitions
  <2>4. d # NoDestination
    BY DestinationAssumption
  <2>5. /\ destination' \in [Obligations -> Destinations \cup {NoDestination}]
        /\ \A q \in Obligations : destination'[q] # NoDestination => q[2] = "order_ended"
        /\ \A q \in Obligations : destination[q] # NoDestination => destination'[q] # NoDestination
    BY <1>1, <2>1, <2>2, <2>4
  <2> QED
    BY <2>1, <2>2, <2>3, <2>5, OneRefundMoves DEF RefundStates
<1>3. CASE start(o)
  BY <1>1, <1>3, OneRefundMoves
     DEF start, canonicalObligation, CanStart, SetPayment, RefundStates, RefundsTypeOK
<1>4. CASE complete(o)
  BY <1>1, <1>4, OneRefundMoves
     DEF complete, canonicalObligation, CanComplete, SetPayment, RefundStates, RefundsTypeOK
<1>5. ASSUME NEW as \in {"rejected", "refused"}, reject(o, as)
      PROVE  RefundsInv'
  BY <1>1, <1>5, OneRefundMoves
     DEF reject, canonicalObligation, SetPayment, RefundStates, RefundsTypeOK
<1>6. ASSUME o \in owed, NEW to \in {"pending", "needs_review"}, Transition(o, to),
             UNCHANGED <<status, verified, owed, guest, destination, sent>>,
             validity' \in {"missing", "valid", "invalid"}
      PROVE  RefundsInv'
  <2>1. PICK s \in RefundStates \ {"none"} :
          /\ refund' = [refund EXCEPT ![o] = s]
          /\ s = refund[o] \/ (s = to /\ refund[o] # "completed")
    BY <1>6, TransitionMoves
  <2>2. s \in {"in_progress", "rejected", "refused", "completed"} => destination[o] # NoDestination
    BY <1>1, <1>6, <2>1 DEF RefundsTypeOK
  <2> QED
    BY <1>1, <1>6, <2>1, <2>2, OneRefundMoves
<1>7. ASSUME NEW retry \in BOOLEAN, rollback(o, retry)
      PROVE  RefundsInv'
  BY <1>6, <1>7 DEF rollback, canonicalObligation, SetPayment
<1>8. ASSUME NEW to \in {"needs_review", "pending"}, Recovery(o, to)
      PROVE  RefundsInv'
  BY <1>1, <1>6, <1>8 DEF Recovery, RefundsTypeOK
<1> QED
  BY <1>2, <1>3, <1>4, <1>5, <1>7, <1>8 DEF RefundStep

\* The invariant of every run.
LEMMA RefundsInvHolds == RefundsSpec => []RefundsInv
<1>1. RefundsInit => RefundsInv
  <2> SUFFICES ASSUME RefundsInit PROVE RefundsInv
    OBVIOUS
  <2>1. RefundsTypeOK
    BY KnownStates DEF RefundsInit, PaymentInit, RefundsTypeOK, RefundStates
  <2>2. AccrualOK
    BY DEF RefundsInit, PaymentInit, AccrualOK, Statuses, TRANSITIONS
  <2>3. \A a \in Attempts : refund[Ended(a)] = "none" /\ sent[a] = 0
    BY EndedIsObligation DEF RefundsInit
  <2> QED
    BY <2>1, <2>2, <2>3 DEF RefundsInit, PaymentInit, RefundsInv
<1>2. RefundsInv /\ [RefundsNext]_allVars => RefundsInv'
  <2>1. RefundsInv /\ UNCHANGED allVars => RefundsInv'
    BY DEF allVars, refundVars, paymentVars, orderVars, attemptVars, RefundsInv, RefundsTypeOK,
           AccrualOK
  <2> QED
    BY <2>1, PaymentKeepsRefunds, RefundKeeps DEF RefundsNext
<1> QED
  BY <1>1, <1>2, PTL DEF RefundsSpec

-----------------------------------------------------------------------------
(* The theorems.                                                           *)

\* Every refund is of an owed obligation, and one beyond the queue has a
\* destination, whatever the service, the pages and the gateway do.
THEOREM RefundsTypeOKHolds == RefundsSpec => []RefundsTypeOK
<1>1. RefundsInv => RefundsTypeOK
  BY DEF RefundsInv
<1> QED
  BY <1>1, RefundsInvHolds, PTL

\* The money of an attempt is sent back at most once, and only for a verified
\* attempt of a dead order, however often complete, rollback and recover run.
THEOREM MoneyReturnsOnceHolds == RefundsSpec => []MoneyReturnsOnce
<1>1. RefundsInv => MoneyReturnsOnce
  <2> SUFFICES ASSUME RefundsInv, NEW a \in Attempts
               PROVE  sent[a] <= 1 /\ (sent[a] = 1 => a \in verified /\ status \in Dead)
    BY DEF MoneyReturnsOnce
  <2>1. sent[a] = IF refund[Ended(a)] = "completed" THEN 1 ELSE 0
    BY DEF RefundsInv
  <2>2. refund[Ended(a)] = "completed" => Ended(a) \in owed
    BY EndedIsObligation DEF RefundsInv, RefundsTypeOK
  <2> QED
    BY <2>1, <2>2 DEF RefundsInv
<1> QED
  BY <1>1, RefundsInvHolds, PTL

\* The destination of a transfer under way, or made, is never replaced:
\* submitDestination asks for a refund that waits or was rejected.
THEOREM TransferTargetStandsHolds == RefundsSpec => TransferTargetStands
<1> DEFINE Stands ==
      \A o \in Obligations :
        refund[o] \in {"in_progress", "completed"} => destination'[o] = destination[o]
<1>1. RefundsInv /\ [RefundsNext]_allVars => [Stands]_allVars
  <2> SUFFICES ASSUME RefundsInv, RefundsNext, destination' # destination PROVE Stands
    BY DEF RefundsNext
  <2>1. PICK o \in Obligations, d \in Destinations : submitDestination(o, d)
    BY DEF RefundsNext, PaymentStep, RefundStep, start, complete, reject, rollback, Recovery
  <2>2. refund[o] \in {"pending", "rejected"} /\ destination' = [destination EXCEPT ![o] = d]
    BY <2>1 DEF submitDestination, CanSubmit
  <2> QED
    BY <2>2 DEF RefundsInv, RefundsTypeOK
<1> QED
  BY <1>1, RefundsInvHolds, PTL DEF RefundsSpec, TransferTargetStands

-----------------------------------------------------------------------------
(* A refund can move on.                                                   *)

\* The order's mark is invalid only while its obligation has a destination.
MarkOK ==
  validity = "invalid" => \A o \in owed : canonicalObligation(o) => destination[o] # NoDestination

\* The pages and the service speak of one obligation.
LEMMA CanonicalIsOne ==
  ASSUME RefundsInv, NEW o, NEW p, canonicalObligation(o), canonicalObligation(p)
  PROVE  o = p
<1>1. o \in Obligations /\ p \in Obligations /\ o[2] = p[2]
  BY DEF canonicalObligation, RefundsInv, AccrualOK
<1>2. o[1] \in Nat /\ p[1] \in Nat /\ o[1] <= p[1] /\ p[1] <= o[1]
  BY <1>1, AttemptsAssumption DEF canonicalObligation, Obligations, Attempts
<1> QED
  BY <1>1, <1>2 DEF Obligations

\* A payment event that makes another obligation canonical takes the mark back.
LEMMA PaymentKeepsMark ==
  ASSUME RefundsInv, MarkOK, PaymentStep
  PROVE  MarkOK'
<1>1. owed \subseteq owed' /\ destination' = destination
  BY PaymentAccrues DEF RefundsInv, PaymentStep, Accrues
<1>2. CASE \E o \in owed' \ owed : o[2] = "order_ended"
  BY <1>2 DEF PaymentStep, MarkOK
<1>3. CASE ~ \E o \in owed' \ owed : o[2] = "order_ended"
  <2>1. validity' = validity
    BY <1>3 DEF PaymentStep
  <2>2. \A o : canonicalObligation(o)' => canonicalObligation(o)
    BY <1>1, <1>3 DEF canonicalObligation
  <2> QED
    BY <1>1, <2>1, <2>2 DEF MarkOK, canonicalObligation
<1> QED
  BY <1>2, <1>3

\* So does a new destination; a rejection and a rollback ask for one.
LEMMA RefundKeepsMark ==
  ASSUME RefundsInv, MarkOK, NEW o \in Obligations, RefundStep(o)
  PROVE  MarkOK'
<1>1. owed' = owed /\ \A p : canonicalObligation(p)' <=> canonicalObligation(p)
  BY DEF RefundStep, submitDestination, start, complete, reject, rollback, Recovery, SetPayment,
         paymentVars, canonicalObligation
<1>2. CASE UNCHANGED <<validity, destination>>
  BY <1>1, <1>2 DEF MarkOK
<1>3. CASE validity' # "invalid"
  BY <1>3 DEF MarkOK
<1>4. CASE canonicalObligation(o) /\ destination[o] # NoDestination /\ destination' = destination
  BY <1>1, <1>4, CanonicalIsOne DEF MarkOK
<1>5. ASSUME NEW retry \in BOOLEAN, rollback(o, retry)
      PROVE  MarkOK'
  <2>1. destination[o] # NoDestination
    BY <1>5 DEF rollback, RefundsInv, RefundsTypeOK
  <2> QED
    BY <1>4, <1>5, <2>1 DEF rollback
<1> QED
  BY <1>2, <1>3, <1>4, <1>5 DEF RefundStep, submitDestination, start, complete, reject, Recovery

\* No refund that waits, is under way, or was rejected for a registered
\* customer's destination is left without a step that a page offers and the
\* service accepts, although the two read different columns.
THEOREM RefundCanMoveHolds == RefundsSpec => []RefundCanMove
<1>1. RefundsInit => MarkOK
  BY DEF RefundsInit, MarkOK
<1>2. RefundsInv /\ MarkOK /\ [RefundsNext]_allVars => MarkOK'
  <2>1. MarkOK /\ UNCHANGED allVars => MarkOK'
    BY DEF MarkOK, canonicalObligation, allVars, refundVars, paymentVars
  <2> QED
    BY <2>1, PaymentKeepsMark, RefundKeepsMark DEF RefundsNext
<1>3. RefundsInv /\ MarkOK => RefundCanMove
  <2> SUFFICES ASSUME RefundsInv, MarkOK, NEW o \in Obligations, canonicalObligation(o),
                      refund[o] \in {"pending", "in_progress"} \/ (refund[o] = "rejected" /\ ~guest)
               PROVE  \/ CanSubmit(o) /\ (CardOffersDestination(o) \/ "destination" \in TabOffers(o))
                      \/ CanStart(o) /\ "start" \in TabOffers(o)
                      \/ CanComplete(o) /\ "complete" \in TabOffers(o)
    BY DEF RefundCanMove
  <2>1. /\ can_enter_destination(o) <=> "destination" \in TabOffers(o)
        /\ can_start(o) <=> "start" \in TabOffers(o)
        /\ can_complete(o) <=> "complete" \in TabOffers(o)
    BY DEF TabOffers
  <2>2. CASE refund[o] = "in_progress"
    BY <2>1, <2>2 DEF RefundsInv, RefundsTypeOK, CanComplete, can_complete
  <2>3. CASE refund[o] = "pending" /\ destination[o] # NoDestination
    BY <2>1, <2>3 DEF CanStart, can_start
  <2>4. CASE refund[o] = "pending" /\ destination[o] = NoDestination
    <3>1. validity \in {"missing", "valid"}
      BY <2>4 DEF MarkOK, RefundsInv, RefundsTypeOK, canonicalObligation
    <3> QED
      BY <2>1, <2>4, <3>1 DEF CanSubmit, can_enter_destination, CardOffersDestination
  <2>5. CASE refund[o] = "rejected" /\ ~guest
    BY <2>5 DEF CanSubmit, CardOffersDestination, can_resubmit
  <2> QED
    BY <2>2, <2>3, <2>4, <2>5
<1> QED
  BY <1>1, <1>2, <1>3, RefundsInvHolds, PTL DEF RefundsSpec
=============================================================================
