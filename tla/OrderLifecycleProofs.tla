------------------------- MODULE OrderLifecycleProofs -------------------------
(***************************************************************************)
(* Proofs about OrderLifecycle, for every set of orders, couriers and      *)
(* products and every limit.                                               *)
(***************************************************************************)
EXTENDS OrderPages, OutletInventoryProofs, FiniteSetTheorems

-----------------------------------------------------------------------------
(* The stock figures.  Every step of the lifecycle is, on the stock, an     *)
(* operation of InventoryService or leaves the three figures alone.         *)

\* What the steps of the lifecycle may do to the stock variables; a confirmed
\* return writes a movement and no figure.
StockStep ==
  \/ \E o \in Orders : OrderStockStep(o)
  \/ \E p \in Products, n \in Counts : StaffStockStep(p, n)
  \/ \E o \in Orders : ConfirmReturn(o)
  \/ UNCHANGED stockVars

\* transition() calls InventoryService at most once.
LEMMA TransitionStock ==
  ASSUME NEW o \in Orders, NEW to, NEW row, Transition(o, to, row)
  PROVE  StockStep
<1>1. StockEffect(o, to)
  BY DEF Transition
<1>2. Release(o) \/ Consume(o) \/ Reserve(o) \/ UNCHANGED stockVars
  BY <1>1 DEF StockEffect
<1> QED
  BY <1>2 DEF StockStep, OrderStockStep

\* Whoever acts, the stock figures move as an operation of InventoryService.
LEMMA NextStock ==
  ASSUME Next
  PROVE  StockStep
<1>1. ASSUME NEW o \in Orders, OrderStep(o)
      PROVE  StockStep
  BY <1>1, TransitionStock
     DEF OrderStep, PlaceOrder, OutletUpdateStatus, RejectOrder, CancelByCustomer,
         OwnerCancel, CompletePickup, Move, StockStep, OrderStockStep
<1>2. ASSUME NEW o \in Orders, PaymentStep(o)
      PROVE  StockStep
  BY <1>2 DEF PaymentStep, PaymentCreationRefused, PaymentQueuesOrder,
              PaymentCompletesOrder, PaymentOnDeadOrder, PaymentLapses, PaymentProjected,
              RefundMoves, WritePayment, StockStep, OrderStockStep
<1>3. ASSUME NEW o \in Orders, DeliveryStep(o)
      PROVE  StockStep
  BY <1>3, TransitionStock
     DEF DeliveryStep, AssignCourier, AssignExternal, NewDelivery, RejectAssignment,
         ConfirmPickup, StartDelivery, CompleteDelivery, FailDelivery, DeliveryMove,
         ReturnToOutlet, StockStep
<1>4. ASSUME NEW o \in Orders, ResolutionStep(o)
      PROVE  StockStep
  BY <1>4, TransitionStock
     DEF ResolutionStep, RetryDelivery, ReturnToPreparation, CancelAndRelease, StockStep
<1>5. ASSUME NEW o \in Orders, SchedulerStep(o)
      PROVE  StockStep
  BY <1>5, TransitionStock
     DEF SchedulerStep, ExpireOrder, CancelStaleOrder, ResolveStaleFailure, CancelAndRelease,
         AutoConfirmReturn, FailStalledDelivery, FailStalledOrder, Move, StockStep
<1>6. ASSUME SelectStalled \/ StopCommand
      PROVE  StockStep
  BY <1>6 DEF SelectStalled, StopCommand, StockStep
<1>7. ASSUME StaffStock
      PROVE  StockStep
  BY <1>7 DEF StaffStock, StockStep
<1> QED
  BY <1>1, <1>2, <1>3, <1>4, <1>5, <1>6, <1>7 DEF Next

\* Such a step keeps the figures sound, a movement without a figure included.
LEMMA StockStepKeepsStock ==
  ASSUME StockInv, StockStep
  PROVE  StockInv'
<1>1. CASE \E o \in Orders : OrderStockStep(o)
  BY <1>1, ReserveKeepsStock, ReleaseKeepsStock, ConsumeKeepsStock DEF OrderStockStep
<1>2. CASE \E p \in Products, n \in Counts : StaffStockStep(p, n)
  BY <1>2, StaffKeepsStock
<1>3. ASSUME NEW o \in Orders, ConfirmReturn(o)
      PROVE  StockInv'
  <2>1. \A p \in Products : Qty[o][p] \in Nat
    BY QtyAssumption
  <2>2. journal' \in [Products -> Int]
    BY <1>3, <2>1 DEF ConfirmReturn, StockInv, StockTypeOK
  <2> QED
    BY <1>3, <2>2 DEF ConfirmReturn, StockInv, StockTypeOK, StockSound
<1>4. CASE UNCHANGED stockVars
  BY <1>4 DEF StockInv, StockTypeOK, StockSound, stockVars
<1> QED
  BY <1>1, <1>2, <1>3, <1>4 DEF StockStep

\* StockSound is an invariant of the whole lifecycle: no interleaving of
\* customers, staff, couriers, gateway and scheduler, double releases included,
\* reserves more than the shelf holds or takes a figure below zero.
THEOREM LifecycleStockSound == Spec => []StockSound
<1>1. Init => StockInv
  BY StockInitEstablishes DEF Init
<1>2. StockInv /\ [Next]_lifecycleVars => StockInv'
  <2>1. ASSUME StockInv, Next
        PROVE  StockInv'
    BY <2>1, NextStock, StockStepKeepsStock
  <2>2. ASSUME StockInv, UNCHANGED lifecycleVars
        PROVE  StockInv'
    BY <2>2 DEF lifecycleVars, stockVars, StockInv, StockTypeOK, StockSound
  <2> QED
    BY <2>1, <2>2
<1>3. StockInv => StockSound
  BY DEF StockInv
<1> QED
  BY <1>1, <1>2, <1>3, PTL DEF Spec

-----------------------------------------------------------------------------
(* Statuses, payment statuses and delivery rows.                            *)

OrderTypeOK ==
  /\ status \in [Orders -> Statuses]
  /\ payment \in [Orders -> PaymentStatuses]
  /\ refunding \in SUBSET Orders
  /\ delivery \in [Orders -> DeliveryStatuses]

\* No transition leads to an unplaced or an unconfirmed order.
LEMMA TransitionTargets ==
  ASSUME NEW s \in Statuses
  PROVE  TRANSITIONS[s] \subseteq Statuses \ {"absent", "pending_confirmation"}
BY DEF Statuses, TRANSITIONS

\* transition() writes values of the four columns only.
LEMMA TransitionTypeOK ==
  ASSUME OrderTypeOK, NEW o \in Orders, NEW to, NEW row \in DeliveryStatuses,
         Transition(o, to, row)
  PROVE  OrderTypeOK'
<1>1. to \in Statuses
  BY TransitionTargets DEF Transition, CanTransition, OrderTypeOK
<1>2. AfterRelease(to, row) \in DeliveryStatuses
  BY DEF AfterRelease, DeliveryStatuses
<1>3. AfterRefundRequest(o, to) \in PaymentStatuses /\ refunding' \in SUBSET Orders
  BY DEF Transition, AfterRefundRequest, AfterPayment, PaymentStatuses, OrderTypeOK
<1> QED
  BY <1>1, <1>2, <1>3 DEF Transition, OrderTypeOK

\* What the gateway and the refund may do to an order: a step of its own, or a
\* write of the payment status alone, under one of these conditions.
LEMMA PaymentStepCases ==
  ASSUME NEW o \in Orders, PaymentStep(o)
  PROVE  \/ PaymentCreationRefused(o) \/ PaymentQueuesOrder(o) \/ PaymentCompletesOrder(o)
         \/ \E to \in PaymentStatuses \ {"pending"} :
              /\ WritePayment(o, to)
              /\ to = "refund_pending" => status[o] \in Dead \/ o \in refunding
              /\ \/ status[o] \in Dead
                 \/ payment[o] # "pending"
                 \/ status[o] \notin Dead \cup {"absent", "pending_confirmation"}
                 \/ o \in refunding
BY DEF PaymentStep, PaymentOnDeadOrder, PaymentLapses, PaymentProjected, RefundMoves,
       PaymentStatuses

\* So does every step.
LEMMA NextOrderTypeOK ==
  ASSUME OrderTypeOK, Next
  PROVE  OrderTypeOK'
<1> USE DEF DeliveryStatuses, OpenDelivery, PaymentStatuses
<1>s. /\ {"pending_confirmation", "awaiting_preparation", "ready_for_pickup", "completed",
           "rejected_by_outlet"} \subseteq Statuses
  BY DEF Statuses, TRANSITIONS
<1>m. ASSUME NEW o \in Orders, NEW to, Move(o, to)
      PROVE  OrderTypeOK'
  BY <1>m, TransitionTypeOK DEF Move, OrderTypeOK
<1>1. ASSUME NEW o \in Orders, OrderStep(o)
      PROVE  OrderTypeOK'
  <2>1. CASE PlaceOrder(o)
    BY <2>1, <1>s DEF PlaceOrder, OrderTypeOK, deliveryVars
  <2>2. CASE OutletUpdateStatus(o) \/ CancelByCustomer(o) \/ OwnerCancel(o)
    BY <2>2, <1>m DEF OutletUpdateStatus, CancelByCustomer, OwnerCancel
  <2>3. CASE RejectOrder(o)
    BY <2>3, <1>s DEF RejectOrder, AfterRefundRequest, AfterPayment, OrderTypeOK, deliveryVars
  <2>4. CASE CompletePickup(o)
    BY <2>4, <1>s DEF CompletePickup, OrderTypeOK, deliveryVars
  <2> QED
    BY <1>1, <2>1, <2>2, <2>3, <2>4 DEF OrderStep
<1>2. ASSUME NEW o \in Orders, PaymentStep(o)
      PROVE  OrderTypeOK'
  <2>1. CASE PaymentCreationRefused(o) \/ PaymentQueuesOrder(o) \/ PaymentCompletesOrder(o)
    BY <2>1, <1>s DEF PaymentCreationRefused, PaymentQueuesOrder, PaymentCompletesOrder,
                      OrderTypeOK, orderVars, deliveryVars
  <2>2. ASSUME NEW to \in PaymentStatuses, WritePayment(o, to)
        PROVE  OrderTypeOK'
    BY <2>2 DEF WritePayment, AfterPayment, OrderTypeOK, deliveryVars
  <2> QED
    BY <1>2, <2>1, <2>2, PaymentStepCases
<1>3. ASSUME NEW o \in Orders, DeliveryStep(o)
      PROVE  OrderTypeOK'
  <2>1. CASE \/ \E c \in Couriers, override \in BOOLEAN : AssignCourier(o, c, override)
             \/ AssignExternal(o)
    BY <2>1 DEF AssignCourier, AssignExternal, NewDelivery, OrderTypeOK, orderVars
  <2>2. CASE RejectAssignment(o)
    BY <2>2, <1>s DEF RejectAssignment, OrderTypeOK
  <2>3. CASE ConfirmPickup(o) \/ StartDelivery(o) \/ CompleteDelivery(o) \/ FailDelivery(o)
    BY <2>3, TransitionTypeOK
       DEF ConfirmPickup, StartDelivery, CompleteDelivery, FailDelivery, DeliveryMove
  <2>4. CASE ReturnToOutlet(o) \/ ConfirmReturn(o)
    BY <2>4 DEF ReturnToOutlet, ConfirmReturn, SetReturned, OrderTypeOK, orderVars
  <2> QED
    BY <1>3, <2>1, <2>2, <2>3, <2>4 DEF DeliveryStep
<1>r. ASSUME NEW o \in Orders, CancelAndRelease(o)
      PROVE  OrderTypeOK'
  BY <1>r, TransitionTypeOK DEF CancelAndRelease
<1>4. ASSUME NEW o \in Orders, ResolutionStep(o)
      PROVE  OrderTypeOK'
  <2>1. CASE RetryDelivery(o)
    BY <2>1, <1>s DEF RetryDelivery, OrderTypeOK
  <2>2. CASE ReturnToPreparation(o)
    BY <2>2, TransitionTypeOK DEF ReturnToPreparation
  <2> QED
    BY <1>4, <1>r, <2>1, <2>2 DEF ResolutionStep
<1>5. ASSUME NEW o \in Orders, SchedulerStep(o)
      PROVE  OrderTypeOK'
  <2>1. CASE ExpireOrder(o) \/ CancelStaleOrder(o) \/ ResolveStaleFailure(o)
    BY <2>1, <1>m, <1>r DEF ExpireOrder, CancelStaleOrder, ResolveStaleFailure
  <2>2. CASE AutoConfirmReturn(o) \/ FailStalledDelivery(o)
    BY <2>2 DEF AutoConfirmReturn, SetReturned, FailStalledDelivery, OrderTypeOK, orderVars
  <2>3. CASE FailStalledOrder(o)
    BY <2>3, <1>m DEF FailStalledOrder, OrderTypeOK, orderVars
  <2> QED
    BY <1>5, <2>1, <2>2, <2>3 DEF SchedulerStep
<1>6. ASSUME SelectStalled \/ StopCommand \/ StaffStock
      PROVE  OrderTypeOK'
  BY <1>6 DEF SelectStalled, StopCommand, StaffStock, OrderTypeOK, orderVars, deliveryVars
<1> QED
  BY <1>1, <1>2, <1>3, <1>4, <1>5, <1>6 DEF Next

\* The columns of the delivery and of the bookkeeping around it.
CourierTypeOK ==
  /\ courier \in [Orders -> Couriers \cup {External, Nobody}]
  /\ returning \in [Orders -> {"none", "returning_to_outlet", "returned_to_outlet"}]
  /\ resolutions \in [Orders -> Nat]
  /\ stalling \in [Orders -> {"idle", "selected", "row_failed"}]
  /\ failedOnce \in SUBSET Orders
  /\ refusals \in [Orders -> Nat]

\* transition() touches no courier column; a failed delivery enters the history.
LEMMA TransitionHistory ==
  ASSUME CourierTypeOK, NEW o \in Orders, NEW to, NEW row, Transition(o, to, row)
  PROVE  failedOnce' \in SUBSET Orders /\ refusals' = refusals
  BY DEF Transition, CourierTypeOK

\* Every step writes values of these columns only.
LEMMA NextCourierTypeOK ==
  ASSUME CourierTypeOK, Next
  PROVE  CourierTypeOK'
<1> USE DEF CourierTypeOK
<1>m. ASSUME NEW o \in Orders, NEW to, Move(o, to), UNCHANGED <<courier, returning, resolutions>>,
             stalling' \in [Orders -> {"idle", "selected", "row_failed"}]
      PROVE  CourierTypeOK'
  BY <1>m, TransitionHistory DEF Move
<1>l. ASSUME NEW o \in Orders, LogResolution(o)
      PROVE  resolutions' \in [Orders -> Nat]
  BY <1>l DEF LogResolution
<1>1. ASSUME NEW o \in Orders, OrderStep(o)
      PROVE  CourierTypeOK'
  <2>1. CASE PlaceOrder(o) \/ RejectOrder(o) \/ CompletePickup(o)
    BY <2>1 DEF PlaceOrder, RejectOrder, CompletePickup, deliveryVars
  <2>2. CASE OutletUpdateStatus(o) \/ CancelByCustomer(o) \/ OwnerCancel(o)
    BY <2>2, <1>m DEF OutletUpdateStatus, CancelByCustomer, OwnerCancel
  <2> QED
    BY <1>1, <2>1, <2>2 DEF OrderStep
<1>2. ASSUME NEW o \in Orders, PaymentStep(o)
      PROVE  CourierTypeOK'
  BY <1>2, PaymentStepCases
     DEF PaymentCreationRefused, PaymentQueuesOrder, PaymentCompletesOrder, WritePayment, deliveryVars
<1>3. ASSUME NEW o \in Orders, DeliveryStep(o)
      PROVE  CourierTypeOK'
  <2>1. CASE \/ \E c \in Couriers, override \in BOOLEAN : AssignCourier(o, c, override)
             \/ AssignExternal(o)
    BY <2>1 DEF AssignCourier, AssignExternal, NewDelivery
  <2>2. CASE RejectAssignment(o)
    BY <2>2 DEF RejectAssignment
  <2>3. CASE ConfirmPickup(o) \/ StartDelivery(o) \/ CompleteDelivery(o) \/ FailDelivery(o)
    BY <2>3, TransitionHistory
       DEF ConfirmPickup, StartDelivery, CompleteDelivery, FailDelivery, DeliveryMove
  <2>4. CASE ReturnToOutlet(o) \/ ConfirmReturn(o)
    BY <2>4 DEF ReturnToOutlet, ConfirmReturn, SetReturned
  <2> QED
    BY <1>3, <2>1, <2>2, <2>3, <2>4 DEF DeliveryStep
<1>r. ASSUME NEW o \in Orders, CancelAndRelease(o)
      PROVE  CourierTypeOK'
  BY <1>r, <1>l, TransitionHistory DEF CancelAndRelease
<1>4. ASSUME NEW o \in Orders, ResolutionStep(o)
      PROVE  CourierTypeOK'
  <2>1. CASE RetryDelivery(o)
    <3>1. stalling' \in [Orders -> {"idle", "selected", "row_failed"}]
      BY <2>1 DEF RetryDelivery
    <3> QED
      BY <2>1, <1>l, <3>1 DEF RetryDelivery
  <2>2. CASE ReturnToPreparation(o)
    BY <2>2, <1>l, TransitionHistory DEF ReturnToPreparation
  <2> QED
    BY <1>4, <1>r, <2>1, <2>2 DEF ResolutionStep
<1>5. ASSUME NEW o \in Orders, SchedulerStep(o)
      PROVE  CourierTypeOK'
  <2>1. CASE ExpireOrder(o) \/ CancelStaleOrder(o) \/ ResolveStaleFailure(o)
    BY <2>1, <1>m, <1>r DEF ExpireOrder, CancelStaleOrder, ResolveStaleFailure
  <2>2. CASE AutoConfirmReturn(o) \/ FailStalledDelivery(o)
    BY <2>2 DEF AutoConfirmReturn, SetReturned, FailStalledDelivery
  <2>3. CASE FailStalledOrder(o)
    <3>1. stalling' \in [Orders -> {"idle", "selected", "row_failed"}]
      BY <2>3 DEF FailStalledOrder
    <3> QED
      BY <2>3, <3>1, <1>m DEF FailStalledOrder
  <2> QED
    BY <1>5, <2>1, <2>2, <2>3 DEF SchedulerStep
<1>6. ASSUME SelectStalled \/ StopCommand \/ StaffStock
      PROVE  CourierTypeOK'
  BY <1>6 DEF SelectStalled, StopCommand, StaffStock, deliveryVars
<1> QED
  BY <1>1, <1>2, <1>3, <1>4, <1>5, <1>6 DEF Next

LifecycleInv == StockInv /\ OrderTypeOK /\ CourierTypeOK

\* LifecycleInv is inductive.
LEMMA LifecycleInvHolds == Spec => []LifecycleInv
<1>1. Init => LifecycleInv
  <2> SUFFICES ASSUME Init PROVE LifecycleInv
    OBVIOUS
  <2>1. StockInv
    BY StockInitEstablishes DEF Init
  <2>2. OrderTypeOK
    BY DEF Init, OrderTypeOK, Statuses, TRANSITIONS, PaymentStatuses, DeliveryStatuses
  <2>3. CourierTypeOK
    BY DEF Init, CourierTypeOK
  <2> QED
    BY <2>1, <2>2, <2>3 DEF LifecycleInv
<1>2. LifecycleInv /\ [Next]_lifecycleVars => LifecycleInv'
  <2>1. ASSUME LifecycleInv, Next
        PROVE  LifecycleInv'
    BY <2>1, NextStock, StockStepKeepsStock, NextOrderTypeOK, NextCourierTypeOK DEF LifecycleInv
  <2>2. ASSUME LifecycleInv, UNCHANGED lifecycleVars
        PROVE  LifecycleInv'
    BY <2>2 DEF lifecycleVars, stockVars, orderVars, deliveryVars, LifecycleInv, StockInv,
                StockTypeOK, StockSound, OrderTypeOK, CourierTypeOK
  <2> QED
    BY <2>1, <2>2
<1> QED
  BY <1>1, <1>2, PTL DEF Spec

\* LifecycleTypeOK: no step of the lifecycle writes a value outside a column's
\* range; no stock figure ever goes below zero.
THEOREM LifecycleTypeOKHolds == Spec => []LifecycleTypeOK
<1>1. LifecycleInv => LifecycleTypeOK
  BY DEF LifecycleInv, StockInv, OrderTypeOK, CourierTypeOK, LifecycleTypeOK
<1> QED
  BY <1>1, LifecycleInvHolds, PTL

-----------------------------------------------------------------------------
(* PaidBeforeDispatch.  It is inductive together with the story of refunds: *)
(* what the gateway writes does not look at the order's delivery.           *)

\* A refund is asked for when an order dies, and only a resolution brings the
\* order back from there.
RefundStory ==
  \A o \in Orders :
    o \in refunding \/ payment[o] = "refund_pending" =>
      status[o] \in Dead \/ (resolutions[o] > 0 /\ status[o] # "absent")

PaidInv == PaidBeforeDispatch /\ RefundStory

\* PaidInv speaks of one order at a time: a step on o has to keep it for o.
LEMMA PaidInvStep ==
  ASSUME PaidInv, NEW o \in Orders,
         \A q \in Orders \ {o} : /\ status'[q] = status[q]
                                 /\ payment'[q] = payment[q]
                                 /\ delivery'[q] = delivery[q]
                                 /\ q \in refunding' => q \in refunding,
         \A q \in Orders : resolutions[q] > 0 => resolutions'[q] > 0,
         delivery'[o] \in OpenDelivery =>
           payment'[o] # "pending" /\ status'[o] \notin Dead \cup {"absent", "pending_confirmation"},
         o \in refunding' \/ payment'[o] = "refund_pending" =>
           status'[o] \in Dead \/ (resolutions'[o] > 0 /\ status'[o] # "absent")
  PROVE  PaidInv'
  BY DEF PaidInv, PaidBeforeDispatch, RefundStory

\* transition() keeps a courier's task to paid-for, living orders: the death of
\* an order closes the row in the step that asks for the refund.
LEMMA TransitionKeepsPaid ==
  ASSUME OrderTypeOK, PaidInv, NEW o \in Orders, NEW to, NEW row,
         row \in OpenDelivery => delivery[o] \in OpenDelivery \/ to \in {"picked_up", "delivering"},
         Transition(o, to, row),
         \A q \in Orders : resolutions[q] > 0 => resolutions'[q] > 0
  PROVE  PaidInv'
<1>1. to \notin {"absent", "pending_confirmation"}
  BY TransitionTargets DEF Transition, CanTransition, OrderTypeOK
<1>2. status[o] \notin Dead
  <2>1. \A s \in Dead : TRANSITIONS[s] = {}
    BY DEF Dead, TRANSITIONS
  <2> QED
    BY <2>1 DEF Transition, CanTransition
<1>3. ASSUME NEW q \in Orders, q # o
      PROVE  /\ delivery'[q] = delivery[q] /\ payment'[q] = payment[q] /\ status'[q] = status[q]
             /\ q \in refunding' => q \in refunding
  BY <1>3 DEF Transition, AfterPayment, OrderTypeOK
<1>4. delivery'[o] = AfterRelease(to, row) /\ status'[o] = to
      /\ payment'[o] = AfterRefundRequest(o, to)
      /\ refunding' = AfterPayment(o, AfterRefundRequest(o, to))
  BY DEF Transition, OrderTypeOK
<1>5. CASE to \in Dead
  <2>1. delivery'[o] \notin OpenDelivery
    BY <1>4, <1>5 DEF AfterRelease, OpenDelivery
  <2> QED
    BY <1>3, <1>4, <1>5, <2>1, PaidInvStep
<1>6. CASE to \notin Dead
  <2>1. /\ delivery'[o] = row /\ payment'[o] = payment[o]
        /\ o \in refunding' => o \in refunding \/ payment[o] = "refund_pending"
    BY <1>4, <1>6 DEF AfterRelease, AfterRefundRequest, AfterPayment
  <2>2. row \in OpenDelivery => payment[o] # "pending"
    BY DEF PaidInv, PaidBeforeDispatch, Transition, CanTransition, NeedsPayment
  <2>3. o \in refunding \/ payment[o] = "refund_pending" => resolutions[o] > 0
    BY <1>2 DEF PaidInv, RefundStory
  <2> QED
    BY <1>1, <1>3, <1>4, <1>6, <2>1, <2>2, <2>3, PaidInvStep
<1> QED
  BY <1>5, <1>6

\* Every other action opens a row only for a ready and paid order, makes no
\* payment one that never came, and asks for a refund only when the order is dead.
LEMMA NextKeepsPaid ==
  ASSUME OrderTypeOK, CourierTypeOK, PaidInv, Next
  PROVE  PaidInv'
<1> USE DEF OrderTypeOK, CourierTypeOK
<1>d. ASSUME NEW o \in Orders
      PROVE  /\ delivery[o] \in OpenDelivery =>
                  /\ payment[o] # "pending"
                  /\ status[o] \notin Dead \cup {"absent", "pending_confirmation"}
             /\ o \in refunding \/ payment[o] = "refund_pending" =>
                  status[o] \in Dead \/ (resolutions[o] > 0 /\ status[o] # "absent")
  BY DEF PaidInv, PaidBeforeDispatch, RefundStory
<1>u. ASSUME UNCHANGED <<orderVars, delivery, resolutions>>
      PROVE  PaidInv'
  BY <1>u DEF orderVars, PaidInv, PaidBeforeDispatch, RefundStory
<1>m. ASSUME NEW o \in Orders, NEW to, Move(o, to), UNCHANGED resolutions
      PROVE  PaidInv'
  BY <1>m, TransitionKeepsPaid DEF Move
<1>s. ASSUME NEW o \in Orders, NEW s, status' = [status EXCEPT ![o] = s],
             UNCHANGED <<refunding, delivery, resolutions>>,
             \/ UNCHANGED payment
             \/ payment' = [payment EXCEPT ![o] = "paid"],
             status[o] \notin Dead, s \notin Dead \cup {"absent"},
             s = "pending_confirmation" => delivery[o] \notin OpenDelivery
      PROVE  PaidInv'
  <2>1. /\ status'[o] = s
        /\ payment'[o] \in {payment[o], "paid"}
        /\ \A q \in Orders \ {o} : status'[q] = status[q] /\ payment'[q] = payment[q]
    BY <1>s
  <2> QED
    BY <1>s, <2>1, <1>d, PaidInvStep
<1>l. ASSUME NEW o \in Orders, LogResolution(o)
      PROVE  resolutions'[o] > 0 /\ \A q \in Orders : resolutions[q] > 0 => resolutions'[q] > 0
  BY <1>l DEF LogResolution
<1>1. ASSUME NEW o \in Orders, OrderStep(o)
      PROVE  PaidInv'
  <2>1. CASE PlaceOrder(o)
    BY <2>1, <1>s, <1>d DEF PlaceOrder, deliveryVars, Dead
  <2>2. CASE OutletUpdateStatus(o) \/ CancelByCustomer(o) \/ OwnerCancel(o)
    BY <2>2, <1>m DEF OutletUpdateStatus, CancelByCustomer, OwnerCancel
  <2>3. CASE RejectOrder(o)
    <3>1. /\ status[o] = "pending_confirmation" /\ status'[o] = "rejected_by_outlet"
          /\ \A q \in Orders \ {o} : /\ status'[q] = status[q] /\ payment'[q] = payment[q]
                                     /\ q \in refunding' => q \in refunding
          /\ UNCHANGED <<delivery, resolutions>>
      BY <2>3 DEF RejectOrder, AfterPayment, deliveryVars
    <3> QED
      BY <3>1, <1>d, PaidInvStep DEF Dead
  <2>4. CASE CompletePickup(o)
    BY <2>4, <1>s DEF CompletePickup, deliveryVars, Dead
  <2> QED
    BY <1>1, <2>1, <2>2, <2>3, <2>4 DEF OrderStep
<1>2. ASSUME NEW o \in Orders, PaymentStep(o)
      PROVE  PaidInv'
  <2>1. CASE PaymentCreationRefused(o)
    BY <2>1, <1>u DEF PaymentCreationRefused, deliveryVars
  <2>2. CASE PaymentQueuesOrder(o)
    BY <2>2, <1>s DEF PaymentQueuesOrder, deliveryVars, Dead
  <2>3. CASE PaymentCompletesOrder(o)
    BY <2>3, <1>s DEF PaymentCompletesOrder, deliveryVars, Dead
  <2>4. ASSUME NEW to \in PaymentStatuses \ {"pending"}, WritePayment(o, to),
               to = "refund_pending" => status[o] \in Dead \/ o \in refunding
        PROVE  PaidInv'
    <3>1. /\ payment'[o] = to /\ \A q \in Orders \ {o} : payment'[q] = payment[q]
          /\ \A q \in Orders \ {o} : q \in refunding' => q \in refunding
          /\ o \in refunding' => o \in refunding \/ to = "refund_pending"
          /\ UNCHANGED <<status, delivery, resolutions>>
      BY <2>4 DEF WritePayment, AfterPayment, deliveryVars
    <3> QED
      BY <2>4, <3>1, <1>d, PaidInvStep
  <2> QED
    BY <1>2, <2>1, <2>2, <2>3, <2>4, PaymentStepCases
<1>3. ASSUME NEW o \in Orders, DeliveryStep(o)
      PROVE  PaidInv'
  <2>1. ASSUME NEW c, NewDelivery(o, c), payment[o] = "paid", status[o] = "ready_for_pickup"
        PROVE  PaidInv'
    <3>1. /\ \A q \in Orders \ {o} : delivery'[q] = delivery[q]
          /\ UNCHANGED <<status, payment, refunding, resolutions>>
      BY <2>1 DEF NewDelivery, orderVars
    <3> QED
      BY <2>1, <3>1, <1>d, PaidInvStep DEF Dead
  <2>2. CASE \/ \E c \in Couriers, override \in BOOLEAN : AssignCourier(o, c, override)
             \/ AssignExternal(o)
    BY <2>1, <2>2 DEF AssignCourier, AssignExternal
  <2>3. CASE RejectAssignment(o)
    <3>1. /\ status[o] \notin Dead /\ status'[o] = "ready_for_pickup"
          /\ delivery'[o] = "rejected_by_courier"
          /\ \A q \in Orders \ {o} : delivery'[q] = delivery[q] /\ status'[q] = status[q]
          /\ UNCHANGED <<payment, refunding, resolutions>>
      BY <2>3 DEF RejectAssignment, Finalized
    <3> QED
      BY <3>1, <1>d, PaidInvStep DEF OpenDelivery
  <2>4. CASE ConfirmPickup(o) \/ StartDelivery(o) \/ CompleteDelivery(o) \/ FailDelivery(o)
    BY <2>4, TransitionKeepsPaid
       DEF ConfirmPickup, StartDelivery, CompleteDelivery, FailDelivery, DeliveryMove, OpenDelivery
  <2>5. CASE ReturnToOutlet(o) \/ ConfirmReturn(o)
    BY <2>5, <1>u DEF ReturnToOutlet, ConfirmReturn, SetReturned
  <2> QED
    BY <1>3, <2>2, <2>3, <2>4, <2>5 DEF DeliveryStep
<1>r. ASSUME NEW o \in Orders, CancelAndRelease(o)
      PROVE  PaidInv'
  BY <1>r, <1>l, TransitionKeepsPaid DEF CancelAndRelease, OpenDelivery
<1>4. ASSUME NEW o \in Orders, ResolutionStep(o)
      PROVE  PaidInv'
  <2>1. CASE RetryDelivery(o)
    <3>1. /\ status'[o] = "ready_for_pickup" /\ delivery'[o] = "none"
          /\ \A q \in Orders \ {o} : delivery'[q] = delivery[q] /\ status'[q] = status[q]
          /\ UNCHANGED <<payment, refunding>>
      BY <2>1 DEF RetryDelivery
    <3>2. resolutions'[o] > 0 /\ \A q \in Orders : resolutions[q] > 0 => resolutions'[q] > 0
      BY <2>1, <1>l DEF RetryDelivery
    <3> QED
      BY <3>1, <3>2, PaidInvStep DEF OpenDelivery
  <2>2. CASE ReturnToPreparation(o)
    BY <2>2, <1>l, TransitionKeepsPaid DEF ReturnToPreparation, OpenDelivery
  <2> QED
    BY <1>4, <1>r, <2>1, <2>2 DEF ResolutionStep
<1>5. ASSUME NEW o \in Orders, SchedulerStep(o)
      PROVE  PaidInv'
  <2>1. CASE ExpireOrder(o) \/ CancelStaleOrder(o) \/ ResolveStaleFailure(o)
    BY <2>1, <1>m, <1>r DEF ExpireOrder, CancelStaleOrder, ResolveStaleFailure
  <2>2. CASE AutoConfirmReturn(o)
    BY <2>2, <1>u DEF AutoConfirmReturn, SetReturned
  <2>3. CASE FailStalledDelivery(o)
    <3>1. /\ delivery'[o] = "failed" /\ \A q \in Orders \ {o} : delivery'[q] = delivery[q]
          /\ UNCHANGED <<status, payment, refunding, resolutions>>
      BY <2>3 DEF FailStalledDelivery, orderVars
    <3> QED
      BY <3>1, <1>d, PaidInvStep DEF OpenDelivery
  <2>4. CASE FailStalledOrder(o)
    BY <2>4, <1>m, <1>u DEF FailStalledOrder
  <2> QED
    BY <1>5, <2>1, <2>2, <2>3, <2>4 DEF SchedulerStep
<1>6. ASSUME SelectStalled \/ StopCommand \/ StaffStock
      PROVE  PaidInv'
  BY <1>6, <1>u DEF SelectStalled, StopCommand, StaffStock, deliveryVars
<1> QED
  BY <1>1, <1>2, <1>3, <1>4, <1>5, <1>6 DEF Next

\* PaidInv is inductive over the typed states.
LEMMA PaidInvHolds == Spec => []PaidInv
<1>1. Init => PaidInv
  BY DEF Init, PaidInv, PaidBeforeDispatch, RefundStory, OpenDelivery
<1>2. LifecycleInv /\ PaidInv /\ [Next]_lifecycleVars => PaidInv'
  <2>1. ASSUME LifecycleInv, PaidInv, Next
        PROVE  PaidInv'
    BY <2>1, NextKeepsPaid DEF LifecycleInv
  <2>2. ASSUME PaidInv, UNCHANGED lifecycleVars
        PROVE  PaidInv'
    BY <2>2 DEF lifecycleVars, orderVars, deliveryVars, PaidInv, PaidBeforeDispatch, RefundStory
  <2> QED
    BY <2>1, <2>2
<1> QED
  BY <1>1, <1>2, LifecycleInvHolds, PTL DEF Spec

\* No courier ever holds a task for an order that was never paid for, is not yet
\* in the queue or is dead, and a refund under way on the road is that of an order
\* a retry brought back: releaseDelivery and the payment guards of assignCourier,
\* assignEksternal and transition() are enough together, whenever the payment is
\* taken back, restored or rewritten by the refund.
THEOREM PaidBeforeDispatchHolds == Spec => []PaidBeforeDispatch
<1>1. PaidInv => PaidBeforeDispatch
  BY DEF PaidInv
<1> QED
  BY <1>1, PaidInvHolds, PTL

-----------------------------------------------------------------------------
(* Orders that ended.                                                       *)

\* The status graph has no edge out of a dead or completed order, and
\* transition() moves no other order.
LEMMA TransitionLeavesEnded ==
  ASSUME OrderTypeOK, NEW o \in Orders, NEW to, NEW row, Transition(o, to, row)
  PROVE  /\ status[o] \notin Dead \cup {"completed"}
         /\ \A q \in Orders \ {o} : status'[q] = status[q]
         /\ status'[o] = to
         /\ to # status[o]
<1>1. \A s \in Dead \cup {"completed"} : TRANSITIONS[s] = {}
  BY DEF Dead, TRANSITIONS
<1>2. \A s \in Statuses : s \notin TRANSITIONS[s]
  BY DEF Statuses, TRANSITIONS
<1> QED
  BY <1>1, <1>2 DEF Transition, CanTransition, OrderTypeOK

Ended(q) == status[q] \in Dead \cup {"completed"} /\ delivery[q] # "failed"

\* Only the resolution of a failed row writes the status of an order that ended.
LEMMA NextKeepsEnded ==
  ASSUME OrderTypeOK, Next, NEW q \in Orders, Ended(q)
  PROVE  status'[q] = status[q]
<1> USE DEF Ended
<1>t. ASSUME NEW o \in Orders, NEW to, NEW row, Transition(o, to, row)
      PROVE  status'[q] = status[q]
  BY <1>t, TransitionLeavesEnded
<1>1. ASSUME NEW o \in Orders, OrderStep(o)
      PROVE  status'[q] = status[q]
  BY <1>1, <1>t DEF OrderStep, PlaceOrder, OutletUpdateStatus, RejectOrder, CancelByCustomer,
                    OwnerCancel, CompletePickup, Move, OrderTypeOK, Dead
<1>2. ASSUME NEW o \in Orders, PaymentStep(o)
      PROVE  status'[q] = status[q]
  BY <1>2, PaymentStepCases
     DEF PaymentCreationRefused, PaymentQueuesOrder, PaymentCompletesOrder, WritePayment,
         OrderTypeOK, Dead, orderVars
<1>3. ASSUME NEW o \in Orders, DeliveryStep(o)
      PROVE  status'[q] = status[q]
  BY <1>3, <1>t DEF DeliveryStep, AssignCourier, AssignExternal, NewDelivery, RejectAssignment,
                    ConfirmPickup, StartDelivery, CompleteDelivery, FailDelivery, DeliveryMove,
                    ReturnToOutlet, ConfirmReturn, SetReturned, OrderTypeOK, orderVars, Finalized
<1>4. ASSUME NEW o \in Orders, ResolutionStep(o)
      PROVE  status'[q] = status[q]
  BY <1>4, <1>t DEF ResolutionStep, RetryDelivery, ReturnToPreparation, CancelAndRelease,
                    OrderTypeOK
<1>5. ASSUME NEW o \in Orders, SchedulerStep(o)
      PROVE  status'[q] = status[q]
  BY <1>5, <1>t DEF SchedulerStep, ExpireOrder, CancelStaleOrder, ResolveStaleFailure,
                    CancelAndRelease, AutoConfirmReturn, SetReturned, FailStalledDelivery,
                    FailStalledOrder, Move, orderVars
<1>6. ASSUME SelectStalled \/ StopCommand \/ StaffStock
      PROVE  status'[q] = status[q]
  BY <1>6 DEF SelectStalled, StopCommand, StaffStock, orderVars
<1> QED
  BY <1>1, <1>2, <1>3, <1>4, <1>5, <1>6 DEF Next

\* An order that ended stays as it ended unless its delivery row was left in
\* failed: no race of scheduler, gateway, courier and staff reopens it.
THEOREM EndedStaysEndedHolds == Spec => EndedStaysEnded
<1>1. ASSUME LifecycleInv, [Next]_lifecycleVars
      PROVE  [\A o \in Orders :
                status[o] \in Dead \cup {"completed"} /\ delivery[o] # "failed"
                  => status'[o] = status[o]]_lifecycleVars
  BY <1>1, NextKeepsEnded DEF LifecycleInv, Ended
<1> QED
  BY <1>1, LifecycleInvHolds, PTL DEF Spec, EndedStaysEnded

-----------------------------------------------------------------------------
(* Stock moves with the status.                                             *)

\* What transition() does to what the orders hold.
LEMMA StockEffectOnHeld ==
  ASSUME StockTypeOK, NEW o \in Orders,
         Reserve(o) \/ Release(o) \/ Consume(o) \/ UNCHANGED stockVars
  PROVE  \A q \in Orders \ {o} : held'[q] = held[q]
  BY DEF Reserve, Release, Consume, Sell, stockVars, StockTypeOK

\* transition() touches one order's holdings, and changes its status.
LEMMA TransitionStockMoves ==
  ASSUME LifecycleInv, NEW o \in Orders, NEW to, NEW row, Transition(o, to, row)
  PROVE  \A q \in Orders : held'[q] # held[q] => status'[q] # status[q]
<1>1. Reserve(o) \/ Release(o) \/ Consume(o) \/ UNCHANGED stockVars
  BY DEF Transition, StockEffect
<1> QED
  BY <1>1, StockEffectOnHeld, TransitionLeavesEnded DEF LifecycleInv, StockInv

\* Every call of InventoryService for an order comes with a change of the
\* order's status, in the same transaction; the refused payment counts itself.
LEMMA NextStockMoves ==
  ASSUME LifecycleInv, Next, NEW q \in Orders, held'[q] # held[q]
  PROVE  status'[q] # status[q] \/ refusals'[q] # refusals[q]
<1>1. ASSUME NEW o \in Orders, OrderStep(o)
      PROVE  status'[q] # status[q]
  <2>1. CASE PlaceOrder(o) \/ RejectOrder(o) \/ CompletePickup(o)
    BY <2>1, StockEffectOnHeld
       DEF PlaceOrder, RejectOrder, CompletePickup, LifecycleInv, StockInv, OrderTypeOK
  <2>2. CASE OutletUpdateStatus(o) \/ CancelByCustomer(o) \/ OwnerCancel(o)
    BY <2>2, TransitionStockMoves DEF OutletUpdateStatus, CancelByCustomer, OwnerCancel, Move
  <2> QED
    BY <1>1, <2>1, <2>2 DEF OrderStep
<1>2. ASSUME NEW o \in Orders, PaymentStep(o)
      PROVE  status'[q] # status[q] \/ refusals'[q] # refusals[q]
  <2>1. CASE PaymentCreationRefused(o)
    BY <2>1, StockEffectOnHeld
       DEF PaymentCreationRefused, LifecycleInv, StockInv, CourierTypeOK
  <2>2. CASE PaymentCompletesOrder(o)
    BY <2>2, StockEffectOnHeld DEF PaymentCompletesOrder, LifecycleInv, StockInv, OrderTypeOK
  <2>3. CASE PaymentQueuesOrder(o) \/ \E to : WritePayment(o, to)
    BY <2>3 DEF PaymentQueuesOrder, WritePayment, stockVars
  <2> QED
    BY <1>2, <2>1, <2>2, <2>3, PaymentStepCases
<1>3. ASSUME NEW o \in Orders, DeliveryStep(o)
      PROVE  status'[q] # status[q]
  BY <1>3, TransitionStockMoves
     DEF DeliveryStep, AssignCourier, AssignExternal, NewDelivery, RejectAssignment,
         ConfirmPickup, StartDelivery, CompleteDelivery, FailDelivery, DeliveryMove,
         ReturnToOutlet, ConfirmReturn, stockVars
<1>4. ASSUME NEW o \in Orders, ResolutionStep(o)
      PROVE  status'[q] # status[q]
  BY <1>4, TransitionStockMoves
     DEF ResolutionStep, RetryDelivery, ReturnToPreparation, CancelAndRelease, stockVars
<1>5. ASSUME NEW o \in Orders, SchedulerStep(o)
      PROVE  status'[q] # status[q]
  BY <1>5, TransitionStockMoves
     DEF SchedulerStep, ExpireOrder, CancelStaleOrder, ResolveStaleFailure, CancelAndRelease,
         AutoConfirmReturn, FailStalledDelivery, FailStalledOrder, Move, stockVars
<1>6. ASSUME SelectStalled \/ StopCommand \/ StaffStock
      PROVE  FALSE
  BY <1>6 DEF SelectStalled, StopCommand, StaffStock, StaffStockStep, AdjustStock, StockOpname,
              SetCurrent, RestockOutlet, UpdateCenterStock, stockVars
<1> QED
  BY <1>1, <1>2, <1>3, <1>4, <1>5, <1>6 DEF Next

\* What an order holds changes only in a step that also changes its status, so
\* no release, sale or reservation is ever repeated on one status.
THEOREM StockMovesWithStatusHolds == Spec => StockMovesWithStatus
<1>1. ASSUME LifecycleInv, [Next]_lifecycleVars
      PROVE  [\A o \in Orders :
                held'[o] # held[o] =>
                  status'[o] # status[o] \/ refusals'[o] # refusals[o]]_lifecycleVars
  BY <1>1, NextStockMoves
<1> QED
  BY <1>1, LifecycleInvHolds, PTL DEF Spec, StockMovesWithStatus

-----------------------------------------------------------------------------
(* Order and delivery row.                                                  *)

\* What the stalled-delivery command has selected was on the road and is still
\* not back at the counter; a row it failed stays failed until it is resolved.
\* Without this the command could fail a row that belongs to a later courier.
StallingTracksRow ==
  \A o \in Orders :
    /\ stalling[o] = "selected" =>
         delivery[o] \notin {"none", "waiting_pickup", "picked_up", "rejected_by_courier"}
    /\ stalling[o] = "row_failed" => delivery[o] = "failed" \/ resolutions[o] > 0

DeliveryInv == DeliveryAgrees /\ StallingTracksRow

\* DeliveryInv speaks of one order at a time: a step on o has to keep it for o.
LEMMA DeliveryInvStep ==
  ASSUME DeliveryInv, NEW o \in Orders,
         \A q \in Orders \ {o} : /\ status'[q] = status[q]
                                 /\ delivery'[q] = delivery[q]
                                 /\ resolutions'[q] = resolutions[q]
                                 /\ stalling'[q] = stalling[q],
         /\ status'[o] = "picked_up" <=> delivery'[o] = "picked_up"
         /\ status'[o] = "delivering" => delivery'[o] \in {"delivering", "failed"}
         /\ delivery'[o] = "delivering" => status'[o] = "delivering" \/ resolutions'[o] > 0
         /\ delivery'[o] = "waiting_pickup" => status'[o] \in {"ready_for_pickup", "completed"}
         /\ delivery'[o] = "rejected_by_courier" =>
              status'[o] \in {"ready_for_pickup", "completed", "cancelled_by_outlet"}
         /\ stalling'[o] = "selected" =>
              delivery'[o] \notin {"none", "waiting_pickup", "picked_up", "rejected_by_courier"}
         /\ stalling'[o] = "row_failed" => delivery'[o] = "failed" \/ resolutions'[o] > 0
  PROVE  DeliveryInv'
  BY DEF DeliveryInv, DeliveryAgrees, StallingTracksRow

\* Where transition() leads, read backwards.
LEMMA TransitionSources ==
  ASSUME NEW s \in Statuses, NEW to \in TRANSITIONS[s]
  PROVE  /\ s # "picked_up" \/ to = "delivering"
         /\ s = "ready_for_pickup" => to \in {"picked_up", "delivering", "cancelled_by_outlet"}
         /\ s = "delivering" => to \in {"completed", "failed_delivery"}
         /\ s \notin {"completed"} \cup Dead
  BY DEF Statuses, TRANSITIONS, Dead

\* What a transition writes, for the order and for the others.
LEMMA TransitionWrites ==
  ASSUME OrderTypeOK, NEW o \in Orders, NEW to, NEW row, Transition(o, to, row)
  PROVE  /\ to \in TRANSITIONS[status[o]]
         /\ status[o] \in Statuses
         /\ status'[o] = to
         /\ delivery'[o] = AfterRelease(to, row)
         /\ \A q \in Orders \ {o} : status'[q] = status[q] /\ delivery'[q] = delivery[q]
  BY DEF Transition, CanTransition, OrderTypeOK

\* A transition that leaves the row to releaseDelivery keeps the two in step
\* unless it leads to the road or ends a delivery.
LEMMA MoveAgrees ==
  ASSUME LifecycleInv, DeliveryInv, NEW o \in Orders, NEW to, Move(o, to),
         to \notin {"picked_up", "delivering", "completed", "failed_delivery"},
         UNCHANGED <<resolutions, stalling>>
  PROVE  DeliveryInv'
<1>1. /\ to \in TRANSITIONS[status[o]] /\ status[o] \in Statuses /\ status'[o] = to
      /\ delivery'[o] = AfterRelease(to, delivery[o])
      /\ \A q \in Orders \ {o} : status'[q] = status[q] /\ delivery'[q] = delivery[q]
  BY TransitionWrites DEF Move, LifecycleInv
<1>2. /\ status[o] # "picked_up"
      /\ status[o] = "ready_for_pickup" => to = "cancelled_by_outlet"
      /\ status[o] # "delivering"
      /\ status[o] \notin {"completed"} \cup Dead
  BY <1>1, TransitionSources
<1>3. /\ delivery[o] # "picked_up"
      /\ delivery[o] = "delivering" => resolutions[o] > 0
      /\ delivery[o] \in {"waiting_pickup", "rejected_by_courier"} => to = "cancelled_by_outlet"
  BY <1>2 DEF DeliveryInv, DeliveryAgrees, Dead
<1>4. \/ delivery'[o] = delivery[o] /\ delivery[o] # "waiting_pickup"
      \/ delivery'[o] = "cancelled_and_released" /\ delivery[o] \in OpenDelivery
  BY <1>1, <1>3 DEF AfterRelease, Dead, OpenDelivery
<1>5. stalling'[o] = stalling[o] /\ resolutions'[o] = resolutions[o]
  OBVIOUS
<1>6. /\ stalling[o] = "selected" =>
           delivery[o] \notin {"none", "waiting_pickup", "picked_up", "rejected_by_courier"}
      /\ stalling[o] = "row_failed" => delivery[o] = "failed" \/ resolutions[o] > 0
  BY DEF DeliveryInv, StallingTracksRow
<1> QED
  BY <1>1, <1>3, <1>4, <1>5, <1>6, DeliveryInvStep DEF OpenDelivery

\* The row and the order that DeliveryService moves together stay together.
LEMMA DeliveryMoveAgrees ==
  ASSUME LifecycleInv, DeliveryInv, NEW o \in Orders,
         ConfirmPickup(o) \/ StartDelivery(o) \/ CompleteDelivery(o) \/ FailDelivery(o)
  PROVE  DeliveryInv'
<1> DEFINE Moves(from, row, to) ==
      /\ delivery[o] = from /\ delivery'[o] = row /\ status'[o] = to
      /\ \A q \in Orders \ {o} : status'[q] = status[q] /\ delivery'[q] = delivery[q]
      /\ UNCHANGED <<resolutions, stalling>>
<1>1. ASSUME NEW from, NEW row, NEW to, DeliveryMove(o, from, row, to), to \notin Dead
      PROVE  Moves(from, row, to)
  BY <1>1, TransitionWrites DEF DeliveryMove, AfterRelease, LifecycleInv
<1>2. \/ Moves("waiting_pickup", "picked_up", "picked_up")
      \/ Moves("picked_up", "delivering", "delivering")
      \/ Moves("delivering", "completed", "completed")
      \/ Moves("delivering", "failed", "failed_delivery")
  BY <1>1 DEF ConfirmPickup, StartDelivery, CompleteDelivery, FailDelivery, Dead
<1>3. /\ stalling[o] = "selected" =>
           delivery[o] \notin {"none", "waiting_pickup", "picked_up", "rejected_by_courier"}
      /\ stalling[o] = "row_failed" => delivery[o] = "failed" \/ resolutions[o] > 0
  BY DEF DeliveryInv, StallingTracksRow
<1>4. UNCHANGED <<resolutions, stalling>>
  BY <1>2
<1>5. CASE Moves("waiting_pickup", "picked_up", "picked_up")
  BY <1>3, <1>5, DeliveryInvStep
<1>6. CASE Moves("picked_up", "delivering", "delivering")
  BY <1>3, <1>6, DeliveryInvStep
<1>7. CASE Moves("delivering", "completed", "completed")
  BY <1>3, <1>7, DeliveryInvStep
<1>8. CASE Moves("delivering", "failed", "failed_delivery")
  BY <1>3, <1>8, DeliveryInvStep
<1> QED
  BY <1>2, <1>5, <1>6, <1>7, <1>8

\* Resolving a failed row logs it, and leaves no row that could disagree.
LEMMA ResolutionAgrees ==
  ASSUME LifecycleInv, DeliveryInv, NEW o \in Orders, ResolutionStep(o)
  PROVE  DeliveryInv'
<1>1. /\ delivery[o] \in {"failed", "returned_to_outlet"}
      /\ delivery'[o] \in {"none", "returned_to_outlet", "cancelled_and_released"}
      /\ status'[o] \in {"ready_for_pickup", "preparing", "cancelled_by_outlet"}
      /\ \A q \in Orders \ {o} : status'[q] = status[q] /\ delivery'[q] = delivery[q]
  <2>1. CASE RetryDelivery(o)
    BY <2>1 DEF RetryDelivery, LifecycleInv, OrderTypeOK
  <2>2. CASE ReturnToPreparation(o)
    BY <2>2, TransitionWrites DEF ReturnToPreparation, LifecycleInv, AfterRelease, Dead
  <2>3. CASE CancelAndRelease(o)
    BY <2>3, TransitionWrites DEF CancelAndRelease, LifecycleInv, AfterRelease, OpenDelivery
  <2> QED
    BY <2>1, <2>2, <2>3 DEF ResolutionStep
<1>2. /\ resolutions'[o] > 0
      /\ \A q \in Orders \ {o} : resolutions'[q] = resolutions[q]
  BY DEF ResolutionStep, RetryDelivery, ReturnToPreparation, CancelAndRelease, LogResolution,
         LifecycleInv, CourierTypeOK
<1>3. /\ \A q \in Orders \ {o} : stalling'[q] = stalling[q]
      /\ stalling'[o] = "selected" => delivery'[o] # "none"
  BY <1>1 DEF ResolutionStep, RetryDelivery, ReturnToPreparation, CancelAndRelease,
         LifecycleInv, CourierTypeOK, DeliveryInv, StallingTracksRow, AfterRelease,
         Transition, OrderTypeOK, Dead, OpenDelivery
<1> QED
  BY <1>1, <1>2, <1>3, DeliveryInvStep

\* Every step keeps order and row in agreement, the unguarded write of the
\* stalled-delivery command included.
LEMMA NextKeepsDelivery ==
  ASSUME LifecycleInv, DeliveryInv, Next
  PROVE  DeliveryInv'
<1>d. ASSUME NEW o \in Orders
      PROVE  /\ status[o] = "picked_up" <=> delivery[o] = "picked_up"
             /\ status[o] = "delivering" => delivery[o] \in {"delivering", "failed"}
             /\ delivery[o] = "delivering" => status[o] = "delivering" \/ resolutions[o] > 0
             /\ delivery[o] = "waiting_pickup" => status[o] \in {"ready_for_pickup", "completed"}
             /\ delivery[o] = "rejected_by_courier" =>
                  status[o] \in {"ready_for_pickup", "completed", "cancelled_by_outlet"}
             /\ stalling[o] = "selected" =>
                  delivery[o] \notin {"none", "waiting_pickup", "picked_up", "rejected_by_courier"}
             /\ stalling[o] = "row_failed" => delivery[o] = "failed" \/ resolutions[o] > 0
  BY DEF DeliveryInv, DeliveryAgrees, StallingTracksRow
<1>s. ASSUME NEW o \in Orders,
             \A q \in Orders \ {o} : status'[q] = status[q],
             UNCHANGED <<deliveryVars, resolutions, stalling>>,
             status[o] \notin {"picked_up", "delivering"},
             status'[o] \notin {"picked_up", "delivering"},
             delivery[o] \in {"waiting_pickup", "rejected_by_courier"} => status'[o] = "completed"
      PROVE  DeliveryInv'
  BY <1>s, <1>d, DeliveryInvStep DEF deliveryVars
<1>u. ASSUME UNCHANGED <<status, delivery, resolutions, stalling>>
      PROVE  DeliveryInv'
  BY <1>u DEF DeliveryInv, DeliveryAgrees, StallingTracksRow
<1>1. ASSUME NEW o \in Orders, OrderStep(o)
      PROVE  DeliveryInv'
  <2>1. CASE PlaceOrder(o)
    BY <2>1, <1>s, <1>d DEF PlaceOrder, LifecycleInv, OrderTypeOK
  <2>2. CASE OutletUpdateStatus(o) \/ CancelByCustomer(o) \/ OwnerCancel(o)
    BY <2>2, MoveAgrees DEF OutletUpdateStatus, CancelByCustomer, OwnerCancel
  <2>3. CASE RejectOrder(o)
    BY <2>3, <1>s, <1>d DEF RejectOrder, LifecycleInv, OrderTypeOK
  <2>4. CASE CompletePickup(o)
    BY <2>4, <1>s DEF CompletePickup, LifecycleInv, OrderTypeOK
  <2> QED
    BY <1>1, <2>1, <2>2, <2>3, <2>4 DEF OrderStep
<1>2. ASSUME NEW o \in Orders, PaymentStep(o)
      PROVE  DeliveryInv'
  <2>1. CASE PaymentCreationRefused(o) \/ \E to : WritePayment(o, to)
    BY <2>1, <1>u DEF PaymentCreationRefused, WritePayment, orderVars, deliveryVars
  <2>2. CASE PaymentQueuesOrder(o)
    BY <2>2, <1>s, <1>d DEF PaymentQueuesOrder, LifecycleInv, OrderTypeOK
  <2>3. CASE PaymentCompletesOrder(o)
    BY <2>3, <1>s DEF PaymentCompletesOrder, LifecycleInv, OrderTypeOK
  <2> QED
    BY <1>2, <2>1, <2>2, <2>3, PaymentStepCases
<1>3. ASSUME NEW o \in Orders, DeliveryStep(o)
      PROVE  DeliveryInv'
  <2>1. ASSUME NEW c, NewDelivery(o, c), status[o] = "ready_for_pickup",
               delivery[o] \in {"none", "rejected_by_courier"}
        PROVE  DeliveryInv'
    <3>1. /\ delivery'[o] = "waiting_pickup"
          /\ \A q \in Orders \ {o} : delivery'[q] = delivery[q]
          /\ UNCHANGED <<status, resolutions, stalling>>
      BY <2>1 DEF NewDelivery, LifecycleInv, OrderTypeOK, orderVars
    <3> QED
      BY <2>1, <3>1, <1>d, DeliveryInvStep
  <2>2. CASE \/ \E c \in Couriers, override \in BOOLEAN : AssignCourier(o, c, override)
             \/ AssignExternal(o)
    BY <2>1, <2>2 DEF AssignCourier, AssignExternal
  <2>3. CASE RejectAssignment(o)
    <3>1. /\ delivery[o] = "waiting_pickup" /\ delivery'[o] = "rejected_by_courier"
          /\ status'[o] = "ready_for_pickup"
          /\ \A q \in Orders \ {o} : status'[q] = status[q] /\ delivery'[q] = delivery[q]
          /\ UNCHANGED <<resolutions, stalling>>
      BY <2>3 DEF RejectAssignment, LifecycleInv, OrderTypeOK
    <3> QED
      BY <3>1, <1>d, DeliveryInvStep
  <2>4. CASE ConfirmPickup(o) \/ StartDelivery(o) \/ CompleteDelivery(o) \/ FailDelivery(o)
    BY <2>4, DeliveryMoveAgrees
  <2>5. CASE ReturnToOutlet(o) \/ ConfirmReturn(o)
    BY <2>5, <1>u DEF ReturnToOutlet, ConfirmReturn, SetReturned, orderVars
  <2> QED
    BY <1>3, <2>2, <2>3, <2>4, <2>5 DEF DeliveryStep
<1>4. ASSUME NEW o \in Orders, ResolutionStep(o)
      PROVE  DeliveryInv'
  BY <1>4, ResolutionAgrees
<1>5. ASSUME NEW o \in Orders, SchedulerStep(o)
      PROVE  DeliveryInv'
  <2>1. CASE ExpireOrder(o) \/ CancelStaleOrder(o)
    BY <2>1, MoveAgrees DEF ExpireOrder, CancelStaleOrder
  <2>2. CASE ResolveStaleFailure(o)
    <3>1. \/ Move(o, "cancelled_by_outlet") /\ UNCHANGED <<resolutions, stalling>>
          \/ CancelAndRelease(o)
      BY <2>2 DEF ResolveStaleFailure
    <3>2. ASSUME CancelAndRelease(o)
          PROVE  DeliveryInv'
      BY <3>2, ResolutionAgrees DEF ResolutionStep
    <3> QED
      BY <3>1, <3>2, MoveAgrees
  <2>3. CASE AutoConfirmReturn(o)
    BY <2>3, <1>u DEF AutoConfirmReturn, SetReturned, orderVars
  <2>4. CASE FailStalledDelivery(o)
    <3>1. /\ stalling[o] = "selected" /\ stalling'[o] = "row_failed" /\ delivery'[o] = "failed"
          /\ \A q \in Orders \ {o} : stalling'[q] = stalling[q] /\ delivery'[q] = delivery[q]
          /\ UNCHANGED <<status, resolutions>>
      BY <2>4 DEF FailStalledDelivery, LifecycleInv, OrderTypeOK, CourierTypeOK, orderVars
    <3> QED
      BY <3>1, <1>d, DeliveryInvStep
  <2>5. CASE FailStalledOrder(o)
    <3>1. /\ stalling[o] = "row_failed" /\ stalling'[o] = "idle"
          /\ \A q \in Orders \ {o} : stalling'[q] = stalling[q]
          /\ UNCHANGED resolutions
      BY <2>5 DEF FailStalledOrder, LifecycleInv, CourierTypeOK
    <3>2. CASE Move(o, "failed_delivery")
      <4>1. /\ status[o] = "delivering" /\ status'[o] = "failed_delivery"
            /\ delivery'[o] = delivery[o]
            /\ \A q \in Orders \ {o} : status'[q] = status[q] /\ delivery'[q] = delivery[q]
        <5>1. \A s \in Statuses : "failed_delivery" \in TRANSITIONS[s] => s = "delivering"
          BY DEF Statuses, TRANSITIONS
        <5> QED
          BY <3>2, <5>1, TransitionWrites DEF Move, LifecycleInv, AfterRelease, Dead
      <4> QED
        BY <3>1, <4>1, <1>d, DeliveryInvStep
    <3>3. CASE UNCHANGED <<orderVars, delivery>>
      BY <3>1, <3>3, <1>d, DeliveryInvStep DEF orderVars
    <3> QED
      BY <2>5, <3>2, <3>3 DEF FailStalledOrder
  <2> QED
    BY <1>5, <2>1, <2>2, <2>3, <2>4, <2>5 DEF SchedulerStep
<1>6. CASE SelectStalled
  <2>1. /\ UNCHANGED <<status, delivery, resolutions>>
        /\ \A o \in Orders : \/ stalling'[o] = "idle"
                             \/ (stalling'[o] = "selected" /\ delivery[o] = "delivering")
    BY <1>6 DEF SelectStalled, orderVars, deliveryVars
  <2>2. DeliveryAgrees'
    BY <2>1 DEF DeliveryInv, DeliveryAgrees
  <2>3. StallingTracksRow'
    BY <2>1 DEF StallingTracksRow
  <2> QED
    BY <2>2, <2>3 DEF DeliveryInv
<1>7. CASE StopCommand
  <2>1. /\ UNCHANGED <<status, delivery, resolutions>>
        /\ \A o \in Orders : stalling'[o] = "idle"
    BY <1>7 DEF StopCommand, orderVars, deliveryVars
  <2> QED
    BY <2>1 DEF DeliveryInv, DeliveryAgrees, StallingTracksRow
<1>8. CASE StaffStock
  BY <1>8, <1>u DEF StaffStock, orderVars, deliveryVars
<1> QED
  BY <1>1, <1>2, <1>3, <1>4, <1>5, <1>6, <1>7, <1>8 DEF Next

\* DeliveryInv is inductive over the typed states.
LEMMA DeliveryInvHolds == Spec => []DeliveryInv
<1>1. Init => DeliveryInv
  BY DEF Init, DeliveryInv, DeliveryAgrees, StallingTracksRow
<1>2. LifecycleInv /\ DeliveryInv /\ [Next]_lifecycleVars => DeliveryInv'
  <2>1. ASSUME DeliveryInv, UNCHANGED lifecycleVars
        PROVE  DeliveryInv'
    BY <2>1 DEF lifecycleVars, orderVars, deliveryVars, DeliveryInv, DeliveryAgrees,
                StallingTracksRow
  <2> QED
    BY <2>1, NextKeepsDelivery
<1> QED
  BY <1>1, <1>2, LifecycleInvHolds, PTL DEF Spec

\* An order is with a courier only under an open row, and an open row belongs
\* to an order that is ready or on the road.
THEOREM DeliveryAgreesHolds == Spec => []DeliveryAgrees
<1>1. DeliveryInv => DeliveryAgrees
  BY DEF DeliveryInv
<1> QED
  BY <1>1, DeliveryInvHolds, PTL

-----------------------------------------------------------------------------
(* Sales.                                                                   *)

\* Sales are never undone; an order is sold in the step that completes it.
LEMMA SoldGrows ==
  ASSUME NEW o \in Orders, Reserve(o) \/ Release(o) \/ Consume(o) \/ UNCHANGED stockVars
  PROVE  /\ sold' = sold \/ sold' = sold \cup {o}
         /\ Consume(o) => o \in sold'
  BY DEF Reserve, Release, Consume, Sell, stockVars

\* A transition sells the goods of an order when it completes it, and only then.
LEMMA TransitionSells ==
  ASSUME LifecycleInv, SoldMatchesCompleted, NEW o \in Orders, NEW to, NEW row,
         Transition(o, to, row), \A q \in Orders : resolutions[q] > 0 => resolutions'[q] > 0
  PROVE  SoldMatchesCompleted'
<1>1. /\ to \in TRANSITIONS[status[o]] /\ status[o] \in Statuses /\ status'[o] = to
      /\ \A q \in Orders \ {o} : status'[q] = status[q]
  BY TransitionWrites DEF LifecycleInv
<1>2. status[o] # "completed"
  BY <1>1, TransitionSources
<1>3. CASE to = "completed"
  <2>1. Consume(o)
    BY <1>3 DEF Transition, StockEffect, Dead
  <2>2. o \in sold' /\ (sold' = sold \/ sold' = sold \cup {o})
    BY <2>1, SoldGrows
  <2> QED
    BY <1>1, <1>3, <2>2 DEF SoldMatchesCompleted
<1>4. CASE to # "completed"
  <2>1. Release(o) \/ Reserve(o) \/ UNCHANGED stockVars
    BY <1>4 DEF Transition, StockEffect
  <2>2. sold' = sold
    BY <2>1 DEF Release, Reserve, stockVars
  <2> QED
    BY <1>1, <1>2, <1>4, <2>2 DEF SoldMatchesCompleted
<1> QED
  BY <1>3, <1>4

\* Every step sells only what it completes, and takes a sold order out of
\* completed only by resolving a failed row.
LEMMA NextKeepsSold ==
  ASSUME LifecycleInv, SoldMatchesCompleted, Next
  PROVE  SoldMatchesCompleted'
<1>u. ASSUME UNCHANGED <<status, sold, resolutions>>
      PROVE  SoldMatchesCompleted'
  BY <1>u DEF SoldMatchesCompleted
<1>m. ASSUME NEW o \in Orders, NEW to, Move(o, to), UNCHANGED resolutions
      PROVE  SoldMatchesCompleted'
  BY <1>m, TransitionSells DEF Move
<1>l. ASSUME NEW o \in Orders, LogResolution(o)
      PROVE  \A q \in Orders : resolutions[q] > 0 => resolutions'[q] > 0
  BY <1>l DEF LogResolution, LifecycleInv, CourierTypeOK
<1>c. ASSUME NEW o \in Orders, Consume(o), status' = [status EXCEPT ![o] = "completed"],
             UNCHANGED resolutions
      PROVE  SoldMatchesCompleted'
  <2>1. o \in sold' /\ (sold' = sold \/ sold' = sold \cup {o})
    BY <1>c, SoldGrows
  <2> QED
    BY <1>c, <2>1 DEF SoldMatchesCompleted, LifecycleInv, OrderTypeOK
<1>1. ASSUME NEW o \in Orders, OrderStep(o)
      PROVE  SoldMatchesCompleted'
  <2>1. CASE PlaceOrder(o)
    BY <2>1 DEF PlaceOrder, Reserve, SoldMatchesCompleted, LifecycleInv, OrderTypeOK
  <2>2. CASE OutletUpdateStatus(o) \/ CancelByCustomer(o) \/ OwnerCancel(o)
    BY <2>2, <1>m DEF OutletUpdateStatus, CancelByCustomer, OwnerCancel
  <2>3. CASE RejectOrder(o)
    BY <2>3 DEF RejectOrder, Release, SoldMatchesCompleted, LifecycleInv, OrderTypeOK
  <2>4. CASE CompletePickup(o)
    BY <2>4, <1>c DEF CompletePickup
  <2> QED
    BY <1>1, <2>1, <2>2, <2>3, <2>4 DEF OrderStep
<1>2. ASSUME NEW o \in Orders, PaymentStep(o)
      PROVE  SoldMatchesCompleted'
  <2>1. CASE PaymentCreationRefused(o) \/ \E to : WritePayment(o, to)
    BY <2>1, <1>u DEF PaymentCreationRefused, Release, WritePayment, orderVars, stockVars
  <2>2. CASE PaymentQueuesOrder(o)
    BY <2>2 DEF PaymentQueuesOrder, SoldMatchesCompleted, LifecycleInv, OrderTypeOK, stockVars
  <2>3. CASE PaymentCompletesOrder(o)
    BY <2>3, <1>c DEF PaymentCompletesOrder
  <2> QED
    BY <1>2, <2>1, <2>2, <2>3, PaymentStepCases
<1>3. ASSUME NEW o \in Orders, DeliveryStep(o)
      PROVE  SoldMatchesCompleted'
  <2>1. CASE \/ \E c \in Couriers, override \in BOOLEAN : AssignCourier(o, c, override)
             \/ AssignExternal(o)
    BY <2>1, <1>u DEF AssignCourier, AssignExternal, NewDelivery, orderVars, stockVars
  <2>2. CASE RejectAssignment(o)
    BY <2>2 DEF RejectAssignment, Finalized, SoldMatchesCompleted, LifecycleInv, OrderTypeOK,
                stockVars
  <2>3. CASE ConfirmPickup(o) \/ StartDelivery(o) \/ CompleteDelivery(o) \/ FailDelivery(o)
    BY <2>3, TransitionSells
       DEF ConfirmPickup, StartDelivery, CompleteDelivery, FailDelivery, DeliveryMove
  <2>4. CASE ReturnToOutlet(o) \/ ConfirmReturn(o)
    BY <2>4, <1>u DEF ReturnToOutlet, ConfirmReturn, SetReturned, orderVars, stockVars
  <2> QED
    BY <1>3, <2>1, <2>2, <2>3, <2>4 DEF DeliveryStep
<1>r. ASSUME NEW o \in Orders, CancelAndRelease(o)
      PROVE  SoldMatchesCompleted'
  BY <1>r, <1>l, TransitionSells DEF CancelAndRelease
<1>4. ASSUME NEW o \in Orders, ResolutionStep(o)
      PROVE  SoldMatchesCompleted'
  <2>1. CASE RetryDelivery(o)
    BY <2>1 DEF RetryDelivery, LogResolution, SoldMatchesCompleted, LifecycleInv, OrderTypeOK,
                CourierTypeOK, stockVars
  <2>2. CASE ReturnToPreparation(o)
    BY <2>2, <1>l, TransitionSells DEF ReturnToPreparation
  <2> QED
    BY <1>4, <1>r, <2>1, <2>2 DEF ResolutionStep
<1>5. ASSUME NEW o \in Orders, SchedulerStep(o)
      PROVE  SoldMatchesCompleted'
  <2>1. CASE ExpireOrder(o) \/ CancelStaleOrder(o) \/ ResolveStaleFailure(o)
    BY <2>1, <1>m, <1>r DEF ExpireOrder, CancelStaleOrder, ResolveStaleFailure
  <2>2. CASE AutoConfirmReturn(o) \/ FailStalledDelivery(o)
    BY <2>2, <1>u DEF AutoConfirmReturn, SetReturned, FailStalledDelivery, orderVars, stockVars
  <2>3. CASE FailStalledOrder(o)
    BY <2>3, <1>m, <1>u DEF FailStalledOrder, orderVars, stockVars
  <2> QED
    BY <1>5, <2>1, <2>2, <2>3 DEF SchedulerStep
<1>6. CASE SelectStalled \/ StopCommand
  BY <1>6, <1>u DEF SelectStalled, StopCommand, orderVars, stockVars
<1>7. CASE StaffStock
  BY <1>7, <1>u DEF StaffStock, StaffStockStep, AdjustStock, StockOpname, SetCurrent,
                    RestockOutlet, UpdateCenterStock, orderVars
<1> QED
  BY <1>1, <1>2, <1>3, <1>4, <1>5, <1>6, <1>7 DEF Next

\* The goods of every completed order were sold, and of no order that ended
\* otherwise, but for the retry that reopens a completed one.
THEOREM SoldMatchesCompletedHolds == Spec => []SoldMatchesCompleted
<1>1. Init => SoldMatchesCompleted
  BY DEF Init, StockInit, SoldMatchesCompleted
<1>2. LifecycleInv /\ SoldMatchesCompleted /\ [Next]_lifecycleVars => SoldMatchesCompleted'
  <2>1. ASSUME SoldMatchesCompleted, UNCHANGED lifecycleVars
        PROVE  SoldMatchesCompleted'
    BY <2>1 DEF lifecycleVars, stockVars, orderVars, SoldMatchesCompleted
  <2> QED
    BY <2>1, NextKeepsSold
<1> QED
  BY <1>1, <1>2, LifecycleInvHolds, PTL DEF Spec

-----------------------------------------------------------------------------
(* Reservations.  NeverOversold speaks of a sum over the orders, which no    *)
(* guard reads.  What links it to the guards is that reserved is that sum,  *)
(* and this is inductive together with what every order holds.              *)

\* What a step can do to the reservation of an order: it is made once, it is
\* freed once, it stays, or the order is one of those with a refused payment, a
\* failed delivery or a resolution.
Makes(o) ==
  /\ status[o] = "absent" /\ status'[o] \in Reserving
  /\ Reserve(o)

Frees(o) ==
  /\ status[o] \in Reserving /\ status'[o] \notin Reserving \cup {"absent"}
  /\ Release(o) \/ Sell(o)

Keeps(o) ==
  /\ status'[o] \in Reserving <=> status[o] \in Reserving
  /\ status'[o] = "absent" <=> status[o] = "absent"
  /\ UNCHANGED <<held, reserved>>

Troubles(o) ==
  /\ o \notin Untroubled'
  /\ Reserve(o) \/ Release(o) \/ Consume(o) \/ UNCHANGED stockVars

ReservationStep ==
  \/ \E o \in Orders : /\ Makes(o) \/ Frees(o) \/ Keeps(o) \/ Troubles(o)
                       /\ \A q \in Orders \ {o} : status'[q] = status[q]
  \/ UNCHANGED <<status, held, reserved>>

\* An order with a failed delivery has one in its history.
FailureRemembered == \A o \in Orders : status[o] = "failed_delivery" => o \in failedOnce

\* Trouble is never forgotten.
LEMMA UntroubledShrinks ==
  ASSUME LifecycleInv, Next
  PROVE  Untroubled' \subseteq Untroubled
<1> DEFINE Grows == /\ failedOnce \subseteq failedOnce'
                    /\ \A o \in Orders : /\ resolutions[o] <= resolutions'[o]
                                         /\ refusals[o] <= refusals'[o]
<1> USE DEF LifecycleInv, CourierTypeOK
<1>s. ASSUME UNCHANGED <<failedOnce, resolutions, refusals>>
      PROVE  Grows
  BY <1>s
<1>t. ASSUME NEW o, NEW to, NEW row, Transition(o, to, row), UNCHANGED resolutions
      PROVE  Grows
  BY <1>t DEF Transition
<1>l. ASSUME NEW o \in Orders, LogResolution(o)
      PROVE  \A q \in Orders : resolutions[q] <= resolutions'[q]
  BY <1>l DEF LogResolution
<1>r. ASSUME NEW o \in Orders, NEW to, NEW row, Transition(o, to, row), LogResolution(o)
      PROVE  Grows
  BY <1>r, <1>l DEF Transition
<1>1. ASSUME NEW o \in Orders, OrderStep(o)
      PROVE  Grows
  BY <1>1, <1>s, <1>t
     DEF OrderStep, PlaceOrder, OutletUpdateStatus, RejectOrder, CancelByCustomer, OwnerCancel,
         CompletePickup, Move
<1>2. ASSUME NEW o \in Orders, PaymentStep(o)
      PROVE  Grows
  <2>1. CASE PaymentCreationRefused(o)
    BY <2>1 DEF PaymentCreationRefused
  <2> QED
    BY <1>2, <2>1, <1>s, PaymentStepCases
       DEF PaymentQueuesOrder, PaymentCompletesOrder, WritePayment
<1>3. ASSUME NEW o \in Orders, DeliveryStep(o)
      PROVE  Grows
  BY <1>3, <1>s, <1>t
     DEF DeliveryStep, AssignCourier, AssignExternal, NewDelivery, RejectAssignment,
         ConfirmPickup, StartDelivery, CompleteDelivery, FailDelivery, DeliveryMove,
         ReturnToOutlet, ConfirmReturn, SetReturned
<1>4. ASSUME NEW o \in Orders, ResolutionStep(o)
      PROVE  Grows
  <2>1. CASE RetryDelivery(o)
    BY <2>1, <1>l DEF RetryDelivery
  <2> QED
    BY <1>4, <2>1, <1>r DEF ResolutionStep, ReturnToPreparation, CancelAndRelease
<1>5. ASSUME NEW o \in Orders, SchedulerStep(o)
      PROVE  Grows
  BY <1>5, <1>s, <1>t, <1>r
     DEF SchedulerStep, ExpireOrder, CancelStaleOrder, ResolveStaleFailure, CancelAndRelease,
         AutoConfirmReturn, SetReturned, FailStalledDelivery, FailStalledOrder, Move
<1>6. ASSUME SelectStalled \/ StopCommand \/ StaffStock
      PROVE  Grows
  BY <1>6, <1>s DEF SelectStalled, StopCommand, StaffStock
<1>7. Grows
  BY <1>1, <1>2, <1>3, <1>4, <1>5, <1>6 DEF Next
<1>8. CourierTypeOK'
  BY NextCourierTypeOK
<1> QED
  BY <1>7, <1>8 DEF Untroubled

\* A failed delivery enters the history in the step that fails it.
LEMMA NextRemembersFailure ==
  ASSUME LifecycleInv, FailureRemembered, Next
  PROVE  FailureRemembered'
<1> USE DEF LifecycleInv, OrderTypeOK
<1>t. ASSUME NEW o \in Orders, NEW to, NEW row, Transition(o, to, row)
      PROVE  FailureRemembered'
  BY <1>t, TransitionWrites DEF Transition, FailureRemembered
<1>s. ASSUME UNCHANGED <<status, failedOnce>>
      PROVE  FailureRemembered'
  BY <1>s DEF FailureRemembered
<1>w. ASSUME NEW o \in Orders, UNCHANGED failedOnce,
             \E s \in Statuses \ {"failed_delivery"} : status' = [status EXCEPT ![o] = s]
      PROVE  FailureRemembered'
  BY <1>w DEF FailureRemembered
<1>v. {"pending_confirmation", "awaiting_preparation", "ready_for_pickup", "completed",
       "rejected_by_outlet"} \subseteq Statuses \ {"failed_delivery"}
  BY DEF Statuses, TRANSITIONS
<1>1. ASSUME NEW o \in Orders, OrderStep(o)
      PROVE  FailureRemembered'
  BY <1>1, <1>t, <1>w, <1>v
     DEF OrderStep, PlaceOrder, OutletUpdateStatus, RejectOrder, CancelByCustomer, OwnerCancel,
         CompletePickup, Move
<1>2. ASSUME NEW o \in Orders, PaymentStep(o)
      PROVE  FailureRemembered'
  BY <1>2, <1>s, <1>w, <1>v, PaymentStepCases
     DEF PaymentCreationRefused, PaymentQueuesOrder, PaymentCompletesOrder, WritePayment, orderVars
<1>3. ASSUME NEW o \in Orders, DeliveryStep(o)
      PROVE  FailureRemembered'
  BY <1>3, <1>s, <1>t, <1>w, <1>v
     DEF DeliveryStep, AssignCourier, AssignExternal, NewDelivery, RejectAssignment,
         ConfirmPickup, StartDelivery, CompleteDelivery, FailDelivery, DeliveryMove,
         ReturnToOutlet, ConfirmReturn, SetReturned, orderVars
<1>4. ASSUME NEW o \in Orders, ResolutionStep(o)
      PROVE  FailureRemembered'
  BY <1>4, <1>t, <1>w, <1>v DEF ResolutionStep, RetryDelivery, ReturnToPreparation, CancelAndRelease
<1>5. ASSUME NEW o \in Orders, SchedulerStep(o)
      PROVE  FailureRemembered'
  BY <1>5, <1>s, <1>t
     DEF SchedulerStep, ExpireOrder, CancelStaleOrder, ResolveStaleFailure, CancelAndRelease,
         AutoConfirmReturn, SetReturned, FailStalledDelivery, FailStalledOrder, Move, orderVars
<1>6. ASSUME SelectStalled \/ StopCommand \/ StaffStock
      PROVE  FailureRemembered'
  BY <1>6, <1>s DEF SelectStalled, StopCommand, StaffStock, orderVars
<1> QED
  BY <1>1, <1>2, <1>3, <1>4, <1>5, <1>6 DEF Next

\* transition() frees what a reserving order holds, or keeps it; an order out of
\* a failed delivery is a troubled one.
LEMMA TransitionReservation ==
  ASSUME LifecycleInv, SoldMatchesCompleted, FailureRemembered, Untroubled' \subseteq Untroubled,
         NEW o \in Orders, NEW to, NEW row, Transition(o, to, row)
  PROVE  ReservationStep
<1>1. /\ to \in TRANSITIONS[status[o]] /\ status[o] \in Statuses /\ status'[o] = to
      /\ \A q \in Orders \ {o} : status'[q] = status[q]
  BY TransitionWrites DEF LifecycleInv
<1>2. to \in Statuses \ {"absent", "pending_confirmation"}
  BY <1>1, TransitionTargets
<1>3. StockEffect(o, to)
  BY DEF Transition
<1>4. CASE o \notin Untroubled
  <2>1. Reserve(o) \/ Release(o) \/ Consume(o) \/ UNCHANGED stockVars
    BY <1>3 DEF StockEffect
  <2> QED
    BY <1>1, <1>4, <2>1 DEF ReservationStep, Troubles
<1>5. CASE o \in Untroubled
  <2>1. status[o] # "failed_delivery" /\ resolutions[o] = 0
    BY <1>5 DEF FailureRemembered, Untroubled
  <2>2. status[o] \in Reserving
    BY <1>1, <2>1 DEF Statuses, TRANSITIONS, Reserving
  <2>3. o \notin sold
    BY <2>1, <2>2 DEF SoldMatchesCompleted, Reserving
  <2>4. CASE to \in Dead \cup {"failed_delivery"}
    <3>1. Release(o)
      BY <1>3, <2>4 DEF StockEffect, Dead
    <3> QED
      BY <1>1, <2>2, <2>4, <3>1 DEF ReservationStep, Frees, Dead, Reserving
  <2>5. CASE to = "completed"
    <3>1. Sell(o)
      BY <1>3, <2>3, <2>5 DEF StockEffect, Dead, Consume
    <3> QED
      BY <1>1, <2>2, <2>5, <3>1 DEF ReservationStep, Frees, Reserving
  <2>6. CASE to \notin Dead \cup {"failed_delivery", "completed"}
    <3>1. UNCHANGED stockVars
      BY <1>3, <2>1, <2>6 DEF StockEffect
    <3>2. to \in Reserving
      BY <1>2, <2>6 DEF Statuses, TRANSITIONS, Reserving, Dead
    <3> QED
      BY <1>1, <2>2, <3>1, <3>2 DEF ReservationStep, Keeps, Reserving, stockVars
  <2> QED
    BY <2>4, <2>5, <2>6
<1> QED
  BY <1>4, <1>5

\* Completing an order that is ready sells what it holds, once.
LEMMA CompletionReservation ==
  ASSUME LifecycleInv, SoldMatchesCompleted, Untroubled' \subseteq Untroubled, NEW o \in Orders,
         status[o] \in Reserving, status' = [status EXCEPT ![o] = "completed"], Consume(o)
  PROVE  ReservationStep
<1>1. status'[o] = "completed" /\ \A q \in Orders \ {o} : status'[q] = status[q]
  BY DEF LifecycleInv, OrderTypeOK
<1>2. CASE o \notin Untroubled
  BY <1>1, <1>2 DEF ReservationStep, Troubles
<1>3. CASE o \in Untroubled
  <2>1. o \notin sold
    BY <1>3 DEF Untroubled, SoldMatchesCompleted, Reserving, LifecycleInv, CourierTypeOK
  <2>2. Sell(o)
    BY <2>1 DEF Consume
  <2> QED
    BY <1>1, <2>2 DEF ReservationStep, Frees, Reserving
<1> QED
  BY <1>2, <1>3

\* Every step makes, frees or keeps the reservation of one order, or it is one
\* of a troubled order.
LEMMA NextReservation ==
  ASSUME LifecycleInv, DeliveryInv, SoldMatchesCompleted, FailureRemembered, Next
  PROVE  ReservationStep
<1>i. Untroubled' \subseteq Untroubled
  BY UntroubledShrinks
<1>t. ASSUME NEW o \in Orders, NEW to, NEW row, Transition(o, to, row)
      PROVE  ReservationStep
  BY <1>t, <1>i, TransitionReservation
<1>s. ASSUME UNCHANGED <<status, stockVars>>
      PROVE  ReservationStep
  BY <1>s DEF ReservationStep, stockVars
<1>w. ASSUME NEW o \in Orders, NEW to, status' = [status EXCEPT ![o] = to]
      PROVE  status'[o] = to /\ \A q \in Orders \ {o} : status'[q] = status[q]
  BY <1>w DEF LifecycleInv, OrderTypeOK
<1>1. ASSUME NEW o \in Orders, OrderStep(o)
      PROVE  ReservationStep
  <2>1. CASE PlaceOrder(o)
    BY <2>1, <1>w DEF PlaceOrder, ReservationStep, Makes, Reserving
  <2>2. CASE OutletUpdateStatus(o) \/ CancelByCustomer(o) \/ OwnerCancel(o)
    BY <2>2, <1>t DEF OutletUpdateStatus, CancelByCustomer, OwnerCancel, Move
  <2>3. CASE RejectOrder(o)
    <3>1. /\ status[o] = "pending_confirmation" /\ Release(o)
          /\ status' = [status EXCEPT ![o] = "rejected_by_outlet"]
      BY <2>3 DEF RejectOrder
    <3>2. status'[o] = "rejected_by_outlet" /\ \A q \in Orders \ {o} : status'[q] = status[q]
      BY <3>1, <1>w
    <3>3. Frees(o)
      BY <3>1, <3>2 DEF Frees, Reserving
    <3> QED
      BY <3>2, <3>3 DEF ReservationStep
  <2>4. CASE CompletePickup(o)
    BY <2>4, <1>i, CompletionReservation DEF CompletePickup, Reserving
  <2> QED
    BY <1>1, <2>1, <2>2, <2>3, <2>4 DEF OrderStep
<1>2. ASSUME NEW o \in Orders, PaymentStep(o)
      PROVE  ReservationStep
  <2>1. CASE PaymentCreationRefused(o)
    <3>1. refusals'[o] # 0 /\ Release(o) /\ UNCHANGED status
      BY <2>1 DEF PaymentCreationRefused, LifecycleInv, CourierTypeOK, orderVars
    <3>2. o \notin Untroubled'
      BY <3>1 DEF Untroubled
    <3> QED
      BY <3>1, <3>2 DEF ReservationStep, Troubles
  <2>2. CASE PaymentQueuesOrder(o)
    <3>1. /\ status[o] = "pending_confirmation" /\ UNCHANGED stockVars
          /\ status' = [status EXCEPT ![o] = "awaiting_preparation"]
      BY <2>2 DEF PaymentQueuesOrder
    <3> QED
      BY <3>1, <1>w DEF ReservationStep, Keeps, Reserving, stockVars
  <2>3. CASE PaymentCompletesOrder(o)
    BY <2>3, <1>i, CompletionReservation DEF PaymentCompletesOrder, Reserving
  <2>4. CASE \E to : WritePayment(o, to)
    BY <2>4, <1>s DEF WritePayment, stockVars
  <2> QED
    BY <1>2, <2>1, <2>2, <2>3, <2>4, PaymentStepCases
<1>3. ASSUME NEW o \in Orders, DeliveryStep(o)
      PROVE  ReservationStep
  <2>1. CASE \/ \E c \in Couriers, override \in BOOLEAN : AssignCourier(o, c, override)
             \/ AssignExternal(o)
    BY <2>1, <1>s DEF AssignCourier, AssignExternal, NewDelivery, orderVars
  <2>2. CASE RejectAssignment(o)
    <3>1. /\ status[o] = "ready_for_pickup" /\ UNCHANGED stockVars
          /\ status' = [status EXCEPT ![o] = "ready_for_pickup"]
      BY <2>2 DEF RejectAssignment, DeliveryInv, DeliveryAgrees, Finalized
    <3> QED
      BY <3>1, <1>w DEF ReservationStep, Keeps, stockVars
  <2>3. CASE ConfirmPickup(o) \/ StartDelivery(o) \/ CompleteDelivery(o) \/ FailDelivery(o)
    BY <2>3, <1>t DEF ConfirmPickup, StartDelivery, CompleteDelivery, FailDelivery, DeliveryMove
  <2>4. CASE ReturnToOutlet(o) \/ ConfirmReturn(o)
    BY <2>4 DEF ReturnToOutlet, ConfirmReturn, SetReturned, ReservationStep, orderVars, stockVars
  <2> QED
    BY <1>3, <2>1, <2>2, <2>3, <2>4 DEF DeliveryStep
<1>4. ASSUME NEW o \in Orders, ResolutionStep(o)
      PROVE  ReservationStep
  <2>1. CASE RetryDelivery(o)
    <3>1. resolutions'[o] # 0 /\ UNCHANGED stockVars
      BY <2>1 DEF RetryDelivery, LogResolution, LifecycleInv, CourierTypeOK
    <3>2. o \notin Untroubled'
      BY <3>1 DEF Untroubled
    <3> QED
      BY <2>1, <3>1, <3>2, <1>w DEF RetryDelivery, ReservationStep, Troubles
  <2> QED
    BY <1>4, <2>1, <1>t DEF ResolutionStep, ReturnToPreparation, CancelAndRelease
<1>5. ASSUME NEW o \in Orders, SchedulerStep(o)
      PROVE  ReservationStep
  BY <1>5, <1>s, <1>t
     DEF SchedulerStep, ExpireOrder, CancelStaleOrder, ResolveStaleFailure, CancelAndRelease,
         AutoConfirmReturn, SetReturned, FailStalledDelivery, FailStalledOrder, Move, orderVars
<1>6. ASSUME SelectStalled \/ StopCommand
      PROVE  ReservationStep
  BY <1>6, <1>s DEF SelectStalled, StopCommand, orderVars
<1>7. CASE StaffStock
  BY <1>7 DEF StaffStock, StaffStockStep, AdjustStock, StockOpname, SetCurrent, RestockOutlet,
              UpdateCenterStock, ReservationStep, orderVars
<1> QED
  BY <1>1, <1>2, <1>3, <1>4, <1>5, <1>6, <1>7 DEF Next

\* What the untroubled orders hold.
LinesHeld ==
  \A o \in Untroubled, p \in Products :
    /\ status[o] \in Reserving => held[o][p] = Qty[o][p]
    /\ status[o] \notin Reserving => held[o][p] \in 0..Qty[o][p]
    /\ status[o] = "absent" => held[o][p] = 0

\* While every order is untroubled, what is reserved is what was promised.
ReservedIsPromised ==
  Untroubled = Orders =>
    \A p \in Products :
      /\ \A o \in Orders : status[o] \notin Reserving => held[o][p] = 0
      /\ IsFiniteSet(Units(Promised, Asked(p)))
      /\ reserved[p] = Total(Promised, Asked(p))

ReservationInv == LinesHeld /\ ReservedIsPromised

\* What one order asks for, and what all promised ones ask for together.
LEMMA AskedIsNat ==
  ASSUME NEW o \in Orders, NEW p \in Products
  PROVE  Qty[o][p] \in Nat /\ Asked(p)[o] = Qty[o][p]
  BY QtyAssumption DEF Asked

\* Whoever is troubled after the step, the others hold what they should.
LEMMA ReservationStepKeepsLines ==
  ASSUME LifecycleInv, LinesHeld, Untroubled' \subseteq Untroubled, ReservationStep
  PROVE  LinesHeld'
<1> USE DEF LifecycleInv, StockInv, StockTypeOK
<1>1. ASSUME NEW o \in Orders, \A q \in Orders \ {o} : status'[q] = status[q] /\ held'[q] = held[q],
             o \in Untroubled' =>
               \A p \in Products :
                 /\ status'[o] \in Reserving => held'[o][p] = Qty[o][p]
                 /\ status'[o] \notin Reserving => held'[o][p] \in 0..Qty[o][p]
                 /\ status'[o] = "absent" => held'[o][p] = 0
      PROVE  LinesHeld'
  BY <1>1 DEF LinesHeld, Untroubled
<1>2. ASSUME NEW o \in Orders, Makes(o), \A q \in Orders \ {o} : status'[q] = status[q]
      PROVE  LinesHeld'
  <2>1. \A p \in Products : held'[o][p] = held[o][p] + Qty[o][p]
    BY <1>2 DEF Makes, Reserve
  <2>2. \A q \in Orders \ {o} : held'[q] = held[q]
    BY <1>2, StockEffectOnHeld DEF Makes
  <2>3. o \in Untroubled => \A p \in Products : held'[o][p] = Qty[o][p]
    BY <1>2, <2>1, AskedIsNat DEF LinesHeld, Makes
  <2> QED
    BY <1>1, <1>2, <2>2, <2>3 DEF Makes, Reserving
<1>3. ASSUME NEW o \in Orders, Frees(o), \A q \in Orders \ {o} : status'[q] = status[q]
      PROVE  LinesHeld'
  <2>1. \A q \in Orders \ {o} : held'[q] = held[q]
    BY <1>3, StockEffectOnHeld, QtyAssumption DEF Frees, Release, Sell
  <2>2. ASSUME o \in Untroubled, NEW p \in Products
        PROVE  held'[o][p] \in 0..Qty[o][p]
    <3>1. held[o][p] = Qty[o][p] /\ Qty[o][p] \in Nat /\ reserved[p] \in Nat
      BY <1>3, <2>2, AskedIsNat DEF LinesHeld, Frees
    <3>2. CASE Release(o)
      <4>1. held'[o][p] = held[o][p] - Releasable(o, p)
        BY <3>2 DEF Release
      <4> QED
        BY <3>1, <4>1 DEF Releasable
    <3>3. CASE Sell(o)
      <4>1. held'[o][p] = held[o][p] - Qty[o][p]
        BY <3>3 DEF Sell
      <4> QED
        BY <3>1, <4>1
    <3> QED
      BY <1>3, <3>2, <3>3 DEF Frees
  <2> QED
    BY <1>1, <1>3, <2>1, <2>2 DEF Frees
<1>4. ASSUME NEW o \in Orders, Keeps(o), \A q \in Orders \ {o} : status'[q] = status[q]
      PROVE  LinesHeld'
  BY <1>1, <1>4 DEF Keeps, LinesHeld
<1>5. ASSUME NEW o \in Orders, Troubles(o), \A q \in Orders \ {o} : status'[q] = status[q]
      PROVE  LinesHeld'
  BY <1>1, <1>5, StockEffectOnHeld DEF Troubles
<1>6. ASSUME UNCHANGED <<status, held, reserved>>
      PROVE  LinesHeld'
  BY <1>6 DEF LinesHeld
<1> QED
  BY <1>2, <1>3, <1>4, <1>5, <1>6 DEF ReservationStep

\* While every order is untroubled, no release falls short.
LEMMA ReservationStepKeepsPromised ==
  ASSUME LifecycleInv, LinesHeld, ReservedIsPromised, Untroubled' \subseteq Untroubled,
         ReservationStep
  PROVE  ReservedIsPromised'
<1> USE DEF LifecycleInv, StockInv, StockTypeOK
<1> SUFFICES ASSUME Untroubled' = Orders, NEW p \in Products
             PROVE  /\ \A q \in Orders : status'[q] \notin Reserving => held'[q][p] = 0
                    /\ IsFiniteSet(Units(Promised', Asked(p)))
                    /\ reserved'[p] = Total(Promised', Asked(p))
  BY DEF ReservedIsPromised, Total, Units, Asked
<1>a. Untroubled = Orders
  BY DEF Untroubled
<1>b. /\ \A q \in Orders : status[q] \notin Reserving => held[q][p] = 0
      /\ IsFiniteSet(Units(Promised, Asked(p)))
      /\ reserved[p] = Total(Promised, Asked(p))
  BY <1>a DEF ReservedIsPromised
<1>2. ASSUME NEW o \in Orders, Makes(o), \A q \in Orders \ {o} : status'[q] = status[q]
      PROVE  /\ \A q \in Orders : status'[q] \notin Reserving => held'[q][p] = 0
             /\ IsFiniteSet(Units(Promised', Asked(p)))
             /\ reserved'[p] = Total(Promised', Asked(p))
  <2>1. o \notin Promised /\ Promised' = Promised \cup {o}
    BY <1>2 DEF Makes, Promised, Reserving
  <2>2. reserved'[p] = reserved[p] + Qty[o][p]
    BY <1>2 DEF Makes, Reserve
  <2>3. /\ IsFiniteSet(Units(Promised', Asked(p)))
        /\ Total(Promised', Asked(p)) = Total(Promised, Asked(p)) + Qty[o][p]
    <3>1. Asked(p)[o] = Qty[o][p] /\ Asked(p)[o] \in Nat
      BY AskedIsNat
    <3>2. o \notin Promised /\ IsFiniteSet(Units(Promised, Asked(p)))
      BY <1>b, <2>1
    <3>3. /\ IsFiniteSet(Units(Promised \cup {o}, Asked(p)))
          /\ Total(Promised \cup {o}, Asked(p)) = Total(Promised, Asked(p)) + Asked(p)[o]
      BY <3>1, <3>2, TotalAdd, Zenon
    <3> QED
      BY <2>1, <3>1, <3>3
  <2>4. \A q \in Orders \ {o} : held'[q] = held[q]
    BY <1>2, StockEffectOnHeld DEF Makes
  <2> QED
    BY <1>2, <1>b, <2>2, <2>3, <2>4 DEF Makes
<1>3. ASSUME NEW o \in Orders, Frees(o), \A q \in Orders \ {o} : status'[q] = status[q]
      PROVE  /\ \A q \in Orders : status'[q] \notin Reserving => held'[q][p] = 0
             /\ IsFiniteSet(Units(Promised', Asked(p)))
             /\ reserved'[p] = Total(Promised', Asked(p))
  <2>1. o \in Promised /\ Promised' = Promised \ {o}
    BY <1>3 DEF Frees, Promised, Reserving
  <2>2. /\ IsFiniteSet(Units(Promised', Asked(p)))
        /\ Total(Promised, Asked(p)) = Total(Promised', Asked(p)) + Qty[o][p]
        /\ Total(Promised', Asked(p)) \in Nat
    <3>1. Asked(p)[o] = Qty[o][p] /\ Asked(p)[o] \in Nat
      BY AskedIsNat
    <3>2. /\ IsFiniteSet(Units(Promised \ {o}, Asked(p)))
          /\ Total(Promised, Asked(p)) = Total(Promised \ {o}, Asked(p)) + Asked(p)[o]
          /\ Total(Promised \ {o}, Asked(p)) \in Nat
      BY <1>b, <2>1, <3>1, TotalRemove
    <3> QED
      BY <2>1, <3>1, <3>2
  <2>3. reserved[p] >= Qty[o][p] /\ held[o][p] = Qty[o][p] /\ Qty[o][p] \in Nat
    BY <1>3, <1>a, <1>b, <2>2, AskedIsNat DEF LinesHeld, Frees
  <2>4. reserved'[p] = reserved[p] - Qty[o][p] /\ held'[o][p] = 0
    <3>1. CASE Release(o)
      <4>1. Releasable(o, p) = Qty[o][p]
        BY <2>3 DEF Releasable
      <4> QED
        BY <2>3, <3>1, <4>1 DEF Release
    <3>2. CASE Sell(o)
      BY <2>3, <3>2 DEF Sell
    <3> QED
      BY <1>3, <3>1, <3>2 DEF Frees
  <2>5. \A q \in Orders \ {o} : held'[q] = held[q]
    BY <1>3 DEF Frees, Release, Sell
  <2>6. reserved'[p] = Total(Promised', Asked(p))
    BY <1>b, <2>2, <2>3, <2>4
  <2> QED
    BY <1>3, <1>b, <2>2, <2>4, <2>5, <2>6 DEF Frees
<1>4. ASSUME Promised' = Promised, UNCHANGED <<held, reserved>>
      PROVE  /\ \A q \in Orders : status'[q] \notin Reserving => held'[q][p] = 0
             /\ IsFiniteSet(Units(Promised', Asked(p)))
             /\ reserved'[p] = Total(Promised', Asked(p))
  BY <1>4, <1>b DEF Promised
<1>5. ASSUME NEW o \in Orders, Keeps(o), \A q \in Orders \ {o} : status'[q] = status[q]
      PROVE  Promised' = Promised
  BY <1>5 DEF Keeps, Promised
<1>6. ASSUME UNCHANGED status
      PROVE  Promised' = Promised
  BY <1>6 DEF Promised
<1>7. ASSUME NEW o \in Orders, Troubles(o)
      PROVE  FALSE
  BY <1>7 DEF Troubles
<1> QED
  BY <1>2, <1>3, <1>4, <1>5, <1>6, <1>7 DEF ReservationStep, Keeps

\* ReservationInv is inductive with what the sections above proved.
LEMMA ReservationInvHolds == Spec => []ReservationInv
<1> DEFINE Inv == FailureRemembered /\ ReservationInv
<1>1. Init => Inv
  <2> SUFFICES ASSUME Init PROVE Inv
    OBVIOUS
  <2>1. \A o \in Orders : status[o] = "absent" /\ \A p \in Products : held[o][p] = 0
    BY DEF Init, StockInit
  <2>2. Promised = {}
    BY <2>1 DEF Promised, Reserving
  <2>3. \A p \in Products : reserved[p] = 0
    BY DEF Init, StockInit
  <2>4. ReservedIsPromised
    BY <2>1, <2>2, <2>3, TotalOfNone DEF ReservedIsPromised
  <2>5. LinesHeld
    BY <2>1, AskedIsNat DEF LinesHeld, Untroubled, Reserving
  <2> QED
    BY <2>1, <2>4, <2>5 DEF FailureRemembered, ReservationInv
<1>2. LifecycleInv /\ DeliveryInv /\ SoldMatchesCompleted /\ Inv /\ [Next]_lifecycleVars => Inv'
  <2>1. ASSUME LifecycleInv, DeliveryInv, SoldMatchesCompleted, Inv, Next
        PROVE  Inv'
    BY <2>1, NextRemembersFailure, NextReservation, UntroubledShrinks, ReservationStepKeepsLines,
       ReservationStepKeepsPromised DEF ReservationInv
  <2>2. ASSUME Inv, UNCHANGED lifecycleVars
        PROVE  Inv'
    BY <2>2 DEF lifecycleVars, stockVars, orderVars, FailureRemembered, ReservationInv, LinesHeld,
                ReservedIsPromised, Untroubled, Promised
  <2> QED
    BY <2>1, <2>2
<1> QED
  BY <1>1, <1>2, LifecycleInvHolds, DeliveryInvHolds, SoldMatchesCompletedHolds, PTL DEF Spec

\* Every untroubled order holds exactly its lines while InventoryReconcile
\* expects it to, and nothing afterwards while no release fell short: no race of
\* gateway, customer, courier and scheduler reserves, releases or sells twice.
THEOREM ReservationExactHolds == Spec => []ReservationExact
<1>1. LifecycleInv /\ ReservationInv => ReservationExact
  BY DEF LifecycleInv, StockInv, StockTypeOK, ReservationInv, LinesHeld, ReservedIsPromised,
         ReservationExact, Untroubled
<1> QED
  BY <1>1, LifecycleInvHolds, ReservationInvHolds, PTL

\* The shelf covers all the orders that were promised from it, however many and
\* for whatever amounts: the sum over the orders is what is reserved, and that
\* is never more than the shelf holds.
THEOREM NeverOversoldHolds == Spec => []NeverOversold
<1>1. LifecycleInv /\ ReservationInv => NeverOversold
  BY DEF LifecycleInv, StockInv, StockSound, ReservationInv, ReservedIsPromised, NeverOversold
<1> QED
  BY <1>1, LifecycleInvHolds, ReservationInvHolds, PTL

-----------------------------------------------------------------------------
(* The pages.                                                               *)

\* What the pages take for granted about a row and its order: an open row has a
\* courier, a closed one belongs to an order that ended, and nothing was paid
\* for an order before it was placed.
RowStory ==
  \A o \in Orders :
    /\ delivery[o] \in OpenDelivery => courier[o] \in Couriers \cup {External}
    /\ delivery[o] = "completed" => status[o] = "completed"
    /\ delivery[o] = "cancelled_and_released" => status[o] \in Dead
    /\ status[o] = "absent" => payment[o] = "pending"

\* RowStory speaks of one order at a time.
LEMMA RowStoryStep ==
  ASSUME RowStory, NEW o \in Orders,
         \A q \in Orders \ {o} : /\ status'[q] = status[q] /\ payment'[q] = payment[q]
                                 /\ delivery'[q] = delivery[q] /\ courier'[q] = courier[q],
         delivery'[o] \in OpenDelivery => courier'[o] \in Couriers \cup {External},
         delivery'[o] = "completed" => status'[o] = "completed",
         delivery'[o] = "cancelled_and_released" => status'[o] \in Dead,
         status'[o] = "absent" => payment'[o] = "pending"
  PROVE  RowStory'
  BY DEF RowStory

\* transition() keeps it, if the caller's row is open only when there is a
\* courier, and closed only when the order ends.
LEMMA TransitionKeepsStory ==
  ASSUME OrderTypeOK, RowStory, NEW o \in Orders, NEW to, NEW row, Transition(o, to, row),
         UNCHANGED courier,
         row \in OpenDelivery => delivery[o] \in OpenDelivery,
         row = "completed" => to = "completed" \/ delivery[o] = "completed",
         row = "cancelled_and_released" => to \in Dead \/ delivery[o] = "cancelled_and_released"
  PROVE  RowStory'
<1>1. /\ to \in TRANSITIONS[status[o]] /\ status[o] \in Statuses /\ status'[o] = to
      /\ delivery'[o] = AfterRelease(to, row)
      /\ \A q \in Orders \ {o} : status'[q] = status[q] /\ delivery'[q] = delivery[q]
  BY TransitionWrites
<1>2. \A q \in Orders \ {o} : payment'[q] = payment[q]
  BY DEF Transition, OrderTypeOK
<1>3. to # "absent"
  BY <1>1, TransitionTargets
<1>4. status[o] \notin Dead \cup {"completed"}
  BY TransitionLeavesEnded
<1>5. delivery[o] # "completed" /\ delivery[o] # "cancelled_and_released"
  BY <1>4 DEF RowStory
<1>6. delivery'[o] = row \/ (delivery'[o] = "cancelled_and_released" /\ to \in Dead)
  BY <1>1 DEF AfterRelease
<1>7. /\ delivery'[o] \in OpenDelivery => courier[o] \in Couriers \cup {External}
      /\ delivery'[o] = "completed" => to = "completed"
      /\ delivery'[o] = "cancelled_and_released" => to \in Dead
  BY <1>5, <1>6 DEF RowStory, OpenDelivery
<1> QED
  BY <1>1, <1>2, <1>3, <1>7, RowStoryStep

\* Every step keeps it.
LEMMA NextKeepsStory ==
  ASSUME LifecycleInv, DeliveryInv, PaidInv, RowStory, Next
  PROVE  RowStory'
<1> USE DEF LifecycleInv, OrderTypeOK, CourierTypeOK
<1>d. ASSUME NEW o \in Orders
      PROVE  /\ delivery[o] \in OpenDelivery => courier[o] \in Couriers \cup {External}
             /\ delivery[o] = "completed" => status[o] = "completed"
             /\ delivery[o] = "cancelled_and_released" => status[o] \in Dead
             /\ status[o] = "absent" => payment[o] = "pending"
  BY DEF RowStory
<1>u. ASSUME UNCHANGED <<status, payment, delivery, courier>>
      PROVE  RowStory'
  BY <1>u DEF RowStory
<1>m. ASSUME NEW o \in Orders, NEW to, Move(o, to), UNCHANGED courier
      PROVE  RowStory'
  BY <1>m, TransitionKeepsStory DEF Move
<1>s. ASSUME NEW o \in Orders, \A q \in Orders \ {o} : status'[q] = status[q] /\ payment'[q] = payment[q],
             UNCHANGED <<delivery, courier>>, status[o] \notin Dead \cup {"completed"},
             status'[o] # "absent"
      PROVE  RowStory'
  BY <1>s, <1>d, RowStoryStep
<1>1. ASSUME NEW o \in Orders, OrderStep(o)
      PROVE  RowStory'
  <2>1. CASE PlaceOrder(o)
    BY <2>1, <1>s DEF PlaceOrder, deliveryVars, Dead
  <2>2. CASE OutletUpdateStatus(o) \/ CancelByCustomer(o) \/ OwnerCancel(o)
    BY <2>2, <1>m DEF OutletUpdateStatus, CancelByCustomer, OwnerCancel
  <2>3. CASE RejectOrder(o)
    BY <2>3, <1>s DEF RejectOrder, deliveryVars, Dead
  <2>4. CASE CompletePickup(o)
    BY <2>4, <1>s DEF CompletePickup, deliveryVars, Dead
  <2> QED
    BY <1>1, <2>1, <2>2, <2>3, <2>4 DEF OrderStep
<1>2. ASSUME NEW o \in Orders, PaymentStep(o)
      PROVE  RowStory'
  <2>1. CASE PaymentCreationRefused(o)
    BY <2>1, <1>u DEF PaymentCreationRefused, orderVars, deliveryVars
  <2>2. CASE PaymentQueuesOrder(o)
    BY <2>2, <1>s DEF PaymentQueuesOrder, deliveryVars, Dead
  <2>3. CASE PaymentCompletesOrder(o)
    BY <2>3, <1>s DEF PaymentCompletesOrder, deliveryVars, Dead
  <2>4. ASSUME NEW to, WritePayment(o, to), status[o] # "absent"
        PROVE  RowStory'
    BY <2>4 DEF WritePayment, deliveryVars, RowStory
  <2>5. /\ payment[o] # "pending" => status[o] # "absent"
        /\ o \in refunding => status[o] # "absent"
        /\ "absent" \notin Dead
    BY <1>d DEF PaidInv, RefundStory, Dead
  <2> QED
    BY <1>2, <2>1, <2>2, <2>3, <2>4, <2>5, PaymentStepCases
<1>3. ASSUME NEW o \in Orders, DeliveryStep(o)
      PROVE  RowStory'
  <2>1. ASSUME NEW c \in Couriers \cup {External}, NewDelivery(o, c), status[o] = "ready_for_pickup"
        PROVE  RowStory'
    <3>1. /\ delivery'[o] = "waiting_pickup" /\ courier'[o] = c
          /\ \A q \in Orders \ {o} : delivery'[q] = delivery[q] /\ courier'[q] = courier[q]
          /\ UNCHANGED <<status, payment>>
      BY <2>1 DEF NewDelivery, orderVars
    <3> QED
      BY <2>1, <3>1, RowStoryStep
  <2>2. CASE \/ \E c \in Couriers, override \in BOOLEAN : AssignCourier(o, c, override)
             \/ AssignExternal(o)
    BY <2>1, <2>2 DEF AssignCourier, AssignExternal
  <2>3. CASE RejectAssignment(o)
    <3>1. /\ delivery'[o] = "rejected_by_courier" /\ status'[o] = "ready_for_pickup"
          /\ \A q \in Orders \ {o} : delivery'[q] = delivery[q] /\ status'[q] = status[q]
          /\ UNCHANGED <<payment, courier>>
      BY <2>3 DEF RejectAssignment
    <3> QED
      BY <3>1, RowStoryStep DEF OpenDelivery
  <2>4. CASE ConfirmPickup(o) \/ StartDelivery(o) \/ CompleteDelivery(o) \/ FailDelivery(o)
    BY <2>4, TransitionKeepsStory
       DEF ConfirmPickup, StartDelivery, CompleteDelivery, FailDelivery, DeliveryMove, OpenDelivery
  <2>5. CASE ReturnToOutlet(o) \/ ConfirmReturn(o)
    BY <2>5, <1>u DEF ReturnToOutlet, ConfirmReturn, SetReturned, orderVars
  <2> QED
    BY <1>3, <2>2, <2>3, <2>4, <2>5 DEF DeliveryStep
<1>r. ASSUME NEW o \in Orders, CancelAndRelease(o)
      PROVE  RowStory'
  BY <1>r, TransitionKeepsStory DEF CancelAndRelease, OpenDelivery, Dead
<1>4. ASSUME NEW o \in Orders, ResolutionStep(o)
      PROVE  RowStory'
  <2>1. CASE RetryDelivery(o)
    <3>1. /\ delivery'[o] = "none" /\ status'[o] = "ready_for_pickup"
          /\ \A q \in Orders \ {o} : /\ delivery'[q] = delivery[q] /\ status'[q] = status[q]
                                     /\ courier'[q] = courier[q]
          /\ UNCHANGED payment
      BY <2>1 DEF RetryDelivery
    <3> QED
      BY <3>1, RowStoryStep DEF OpenDelivery
  <2>2. CASE ReturnToPreparation(o)
    BY <2>2, TransitionKeepsStory DEF ReturnToPreparation, OpenDelivery
  <2> QED
    BY <1>4, <1>r, <2>1, <2>2 DEF ResolutionStep
<1>5. ASSUME NEW o \in Orders, SchedulerStep(o)
      PROVE  RowStory'
  <2>1. CASE ExpireOrder(o) \/ CancelStaleOrder(o) \/ ResolveStaleFailure(o)
    BY <2>1, <1>m, <1>r DEF ExpireOrder, CancelStaleOrder, ResolveStaleFailure
  <2>2. CASE AutoConfirmReturn(o)
    BY <2>2, <1>u DEF AutoConfirmReturn, SetReturned, orderVars
  <2>3. CASE FailStalledDelivery(o)
    <3>1. /\ delivery'[o] = "failed" /\ \A q \in Orders \ {o} : delivery'[q] = delivery[q]
          /\ UNCHANGED <<status, payment, courier>>
      BY <2>3 DEF FailStalledDelivery, orderVars
    <3> QED
      BY <3>1, <1>d, RowStoryStep DEF OpenDelivery
  <2>4. CASE FailStalledOrder(o)
    BY <2>4, <1>m, <1>u DEF FailStalledOrder, orderVars
  <2> QED
    BY <1>5, <2>1, <2>2, <2>3, <2>4 DEF SchedulerStep
<1>6. ASSUME SelectStalled \/ StopCommand \/ StaffStock
      PROVE  RowStory'
  BY <1>6, <1>u DEF SelectStalled, StopCommand, StaffStock, orderVars, deliveryVars
<1> QED
  BY <1>1, <1>2, <1>3, <1>4, <1>5, <1>6 DEF Next

\* RowStory is inductive over the typed states.
LEMMA RowStoryHolds == Spec => []RowStory
<1>1. Init => RowStory
  BY DEF Init, RowStory, OpenDelivery
<1>2. LifecycleInv /\ DeliveryInv /\ PaidInv /\ RowStory /\ [Next]_lifecycleVars => RowStory'
  <2>1. ASSUME RowStory, UNCHANGED lifecycleVars
        PROVE  RowStory'
    BY <2>1 DEF lifecycleVars, orderVars, deliveryVars, RowStory
  <2> QED
    BY <2>1, NextKeepsStory
<1> QED
  BY <1>1, <1>2, LifecycleInvHolds, DeliveryInvHolds, PaidInvHolds, PTL DEF Spec

\* A paid order that did not end, was not left behind by a failure and does not
\* wait for a provider's courier always has a button somewhere: the pages' own
\* conditions miss no state the services can bring an order and its row into.
LEMMA PaidOrderHasButton ==
  ASSUME OrderTypeOK, DeliveryInv, RowStory
  PROVE  SomebodyCanAct
<1> SUFFICES ASSUME NEW o \in Orders, payment[o] = "paid", PagePolls(o), ~LeftBehind(o),
                    ~AwaitsProvider(o)
             PROVE  \/ OutletPosts(o) \ {"cancelled_by_outlet"} # {}
                    \/ AssignsCourier(o) \/ isReadyForCustomerPickup(o)
                    \/ CourierActs(o)
                    \/ ExternalActions(o) # {}
  BY DEF SomebodyCanAct
<1>1. /\ delivery[o] \in OpenDelivery => courier[o] \in Couriers \cup {External}
      /\ delivery[o] = "completed" => status[o] = "completed"
      /\ delivery[o] = "cancelled_and_released" => status[o] \in Dead
      /\ status[o] # "absent"
  BY DEF RowStory
<1>2. /\ status[o] = "picked_up" <=> delivery[o] = "picked_up"
      /\ status[o] = "delivering" => delivery[o] \in {"delivering", "failed"}
  BY DEF DeliveryInv, DeliveryAgrees
<1>3. /\ delivery[o] \notin {"failed", "returned_to_outlet"}
      /\ delivery[o] = "delivering" => status[o] = "delivering"
  BY DEF LeftBehind
<1>4. status[o] \in Reserving
  <2>1. status[o] \in Statuses \ (Dead \cup {"completed", "failed_delivery", "absent"})
    BY <1>1 DEF OrderTypeOK, PagePolls, TERMINAL_STATUSES
  <2> QED
    BY <2>1 DEF Statuses, TRANSITIONS, Dead, Reserving
<1>5. CASE status[o] \in {"pending_confirmation", "awaiting_preparation", "confirmed", "preparing"}
  <2>1. \E to \in OutletPosts(o) : to # "cancelled_by_outlet"
    BY <1>5 DEF OutletPosts
  <2> QED
    BY <2>1
<1>6. ASSUME NEW row \in OpenDelivery, delivery[o] = row,
             row = "waiting_pickup" => status[o] = "ready_for_pickup",
             row = "picked_up" => status[o] = "picked_up",
             row = "delivering" => status[o] = "delivering"
      PROVE  CourierActs(o) \/ ExternalActions(o) # {}
  <2>1. CASE courier[o] \in Couriers
    <3>1. "pickup" \in buildActions(o) \/ "start" \in buildActions(o) \/ "complete" \in buildActions(o)
      BY <1>6 DEF buildActions, canConfirmPickup, canStartDelivery, canComplete, OpenDelivery
    <3> QED
      BY <2>1, <3>1 DEF CourierActs
  <2>2. CASE courier[o] = External
    BY <1>6, <2>2 DEF ExternalActions, nextExternalActions, OpenDelivery
  <2> QED
    BY <1>1, <1>6, <2>1, <2>2
<1>7. CASE status[o] = "ready_for_pickup"
  <2>1. delivery[o] \in {"none", "rejected_by_courier", "waiting_pickup"}
    BY <1>1, <1>2, <1>3, <1>7 DEF OrderTypeOK, DeliveryStatuses, OpenDelivery, Dead
  <2>2. CASE Fulfilment[o] = "pickup"
    BY <1>7, <2>2 DEF isReadyForCustomerPickup
  <2>3. CASE IsDelivery(o) /\ delivery[o] # "waiting_pickup"
    BY <1>7, <2>1, <2>3 DEF AssignsCourier, AwaitsProvider, isReadyForPickup, IsDelivery
  <2>4. CASE delivery[o] = "waiting_pickup"
    BY <1>6, <1>7, <2>4 DEF OpenDelivery
  <2> QED
    BY <2>2, <2>3, <2>4, FulfilmentAssumption DEF FulfilmentTypes, IsDelivery
<1>8. CASE status[o] \in {"picked_up", "delivering"}
  <2>1. delivery[o] = status[o] /\ delivery[o] \in OpenDelivery
    BY <1>2, <1>3, <1>8 DEF OpenDelivery
  <2> QED
    BY <1>6, <1>8, <2>1
<1> QED
  BY <1>4, <1>5, <1>7, <1>8 DEF Reserving

\* No paid order is ever stuck for want of a button the services accept, but for
\* the order that is ready for a provider's courier: no page can name one.
THEOREM SomebodyCanActHolds == Spec => []SomebodyCanAct
<1>1. LifecycleInv /\ DeliveryInv /\ RowStory => SomebodyCanAct
  BY PaidOrderHasButton DEF LifecycleInv
<1> QED
  BY <1>1, LifecycleInvHolds, DeliveryInvHolds, RowStoryHolds, PTL

-----------------------------------------------------------------------------
(* The service under its callers.                                          *)

\* InventoryService as its callers use it, but for the movements of a confirmed
\* return, which no operation of it writes: the movements are read as the figure
\* they explain (JournalMatchesStock).
Service == INSTANCE OutletInventory WITH journal <- current

\* A movement without a figure is a stutter of the service, any other step one of
\* its operations.
LEMMA StockStepIsService ==
  ASSUME StockInv, StockStep
  PROVE  [Service!StockNext]_(Service!stockVars)
<1>1. ASSUME NEW o \in Orders, OrderStockStep(o)
      PROVE  Service!OrderStockStep(o) \/ UNCHANGED Service!stockVars
  <2>1. CASE Reserve(o)
    BY <2>1 DEF Reserve, CanReserve, Service!OrderStockStep, Service!Reserve, Service!CanReserve
  <2>2. CASE Release(o)
    BY <2>2 DEF Release, Releasable, Service!OrderStockStep, Service!Release,
                Service!Releasable
  <2>3. CASE o \in sold /\ UNCHANGED stockVars
    BY <2>3 DEF stockVars, Service!stockVars
  <2>4. CASE o \notin sold /\ Sell(o)
    BY <2>4 DEF Sell, CanConsume, Service!OrderStockStep, Service!Consume, Service!Sell,
                Service!CanConsume
  <2> QED
    BY <1>1, <2>1, <2>2, <2>3, <2>4 DEF OrderStockStep, Consume
<1>2. ASSUME NEW p \in Products, NEW n \in Counts, StaffStockStep(p, n)
      PROVE  Service!StaffStockStep(p, n)
  <2>1. n \in Nat /\ current[p] \in Nat
    BY CountsAssumption DEF StockInv, StockTypeOK
  <2>2. CASE SetCurrent(p, n)
    <3>1. current[p] + n - current[p] = n
      BY <2>1
    <3>2. current' = [current EXCEPT ![p] = @ + n - current[p]]
      BY <2>2, <3>1 DEF SetCurrent
    <3> QED
      BY <2>2, <3>2 DEF SetCurrent, Service!StaffStockStep, Service!AdjustStock, Service!SetCurrent
  <2>3. CASE RestockOutlet(p, n)
    BY <2>3 DEF RestockOutlet, Service!StaffStockStep, Service!RestockOutlet
  <2>4. CASE UpdateCenterStock(p, n)
    BY <2>4 DEF UpdateCenterStock, Service!StaffStockStep, Service!UpdateCenterStock
  <2> QED
    BY <1>2, <2>2, <2>3, <2>4 DEF StaffStockStep, AdjustStock, StockOpname
<1>3. ASSUME NEW o \in Orders, ConfirmReturn(o)
      PROVE  UNCHANGED Service!stockVars
  BY <1>3 DEF ConfirmReturn, Service!stockVars
<1>4. CASE UNCHANGED stockVars
  BY <1>4 DEF stockVars, Service!stockVars
<1> QED
  BY <1>1, <1>2, <1>3, <1>4 DEF StockStep, Service!StockNext

\* The lifecycle implements InventoryService: whoever acts, for every number of
\* orders, couriers and products, each step is at most one call of it, so what
\* holds of the service under arbitrary callers holds under these.
THEOREM LifecycleImplementsService == Spec => Service!StockSpec
<1>1. Init => StockInv /\ Service!StockInit
  <2>1. StockInit => Service!StockInit
    BY DEF StockInit, Service!StockInit
  <2> QED
    BY <2>1, StockInitEstablishes DEF Init
<1>2. StockInv /\ [Next]_lifecycleVars => StockInv'
  <2>1. ASSUME StockInv, UNCHANGED lifecycleVars
        PROVE  StockInv'
    BY <2>1 DEF lifecycleVars, stockVars, StockInv, StockTypeOK, StockSound
  <2> QED
    BY <2>1, NextStock, StockStepKeepsStock
<1>3. StockInv /\ [Next]_lifecycleVars => [Service!StockNext]_(Service!stockVars)
  <2>1. ASSUME UNCHANGED lifecycleVars
        PROVE  UNCHANGED Service!stockVars
    BY <2>1 DEF lifecycleVars, stockVars, Service!stockVars
  <2> QED
    BY <2>1, NextStock, StockStepIsService
<1> QED
  BY <1>1, <1>2, <1>3, PTL DEF Spec, Service!StockSpec

\* So the units of an order leave the shelf at most once in the lifecycle too,
\* although its callers complete an order twice when a delivery is retried.
THEOREM LifecycleLeavesShelfOnce == Spec => LeavesShelfOnce
<1>1. ASSUME LifecycleInv, [Next]_lifecycleVars
      PROVE  [\A p \in Products : LeavesOnce(p)]_stockVars
  <2>1. CASE Next
    <3>1. StockStep /\ StockInv
      BY <1>1, <2>1, NextStock DEF LifecycleInv
    <3>2. ASSUME NEW o \in Orders, ConfirmReturn(o), NEW p \in Products
          PROVE  LeavesOnce(p)
      BY <3>1, <3>2 DEF ConfirmReturn, StockInv, StockTypeOK, LeavesOnce
    <3> QED
      BY <3>1, <3>2, StockNextLeavesOnce DEF StockStep, StockNext
  <2>2. CASE UNCHANGED lifecycleVars
    BY <2>2 DEF lifecycleVars, stockVars
  <2> QED
    BY <1>1, <2>1, <2>2
<1>2. [\A p \in Products : LeavesOnce(p)]_stockVars
      => [\A p \in Products : current'[p] < current[p] =>
            \/ \E o \in Orders \ sold : /\ sold' = sold \cup {o}
                                        /\ current[p] - current'[p] = Qty[o][p]
            \/ sold' = sold /\ reserved' = reserved]_stockVars
  BY DEF LeavesOnce
<1> QED
  BY <1>1, <1>2, LifecycleInvHolds, PTL DEF Spec, LeavesShelfOnce
=============================================================================
