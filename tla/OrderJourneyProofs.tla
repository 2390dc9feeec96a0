------------------------- MODULE OrderJourneyProofs -------------------------
(***************************************************************************)
(* OrderSystem for any number of orders, riders, Razorpay orders, sessions *)
(* and faults.  First the types.  Then stages and money: JourneyInv is     *)
(* inductive, so no stage is skipped, no order paid online is placed       *)
(* unpaid, and OrderSystem implements OrderJourney.                        *)
(***************************************************************************)
EXTENDS OrderInvariant, TLAPS

-----------------------------------------------------------------------------
(* Sessions. *)

LEMMA IdleIsSession == Idle \in Session
BY DEF Idle, Session, SessionOps

(* What a handler reads of an order and its payment is a session record. *)
LEMMA OrderReadIsSession ==
    ASSUME TypeOK, NEW op \in SessionOps, NEW o \in Orders
    PROVE  /\ Touch(op, o) \in Session
           /\ OrderAndPayment(op, o) \in Session
BY DEF Touch, OrderAndPayment, Idle, Session, TypeOK

LEMMA RiderReadIsSession ==
    ASSUME TypeOK, NEW op \in SessionOps, NEW r \in Riders
    PROVE  RiderRow(op, r) \in Session
BY DEF RiderRow, Idle, Session, TypeOK

LEMMA BeginType ==
    ASSUME TypeOK, NEW s \in Sessions, NEW rec \in Session, Begin(s, rec)
    PROVE  txn' \in [Sessions -> Session]
BY DEF Begin, TypeOK

LEMMA EndType ==
    ASSUME TypeOK, NEW s \in Sessions, End(s)
    PROVE  txn' \in [Sessions -> Session]
BY IdleIsSession DEF End, TypeOK

-----------------------------------------------------------------------------
(* Type correctness. *)

(* A step that begins a session and leaves every table alone. *)
LEMMA ReadKeepsTypes ==
    ASSUME TypeOK, NEW s \in Sessions, NEW rec \in Session, Begin(s, rec),
           UNCHANGED <<orderCols, payCols, riderCols, razorpay, faults>>,
           responseTimer' \subseteq responseTimer, UNCHANGED riderTimers
    PROVE  TypeOK'
<1>1. txn' \in [Sessions -> Session]
  BY BeginType
<1> QED
  BY <1>1 DEF TypeOK, orderCols, payCols, riderCols, razorpay

(* A step that ends a session and leaves every table alone. *)
LEMMA RollbackKeepsTypes ==
    ASSUME TypeOK, NEW s \in Sessions, End(s), faults' \in Nat, refunded' \subseteq RzpIds,
           UNCHANGED <<orderCols, payCols, riderCols, rzpFor, rzpState, rzpFailed, queue>>
    PROVE  TypeOK'
<1>1. txn' \in [Sessions -> Session]
  BY EndType
<1> QED
  BY <1>1 DEF TypeOK, orderCols, payCols, riderCols, queue

LEMMA FaultType ==
    ASSUME TypeOK, Fault
    PROVE  faults' \in Nat
BY DEF TypeOK, Fault

LEMMA ArrivalKeepsTypes ==
    ASSUME TypeOK, Arrival
    PROVE  TypeOK'
<1> USE DEF queue
<1>1. ASSUME NEW s \in Sessions, NEW o \in Orders, InitiateRead(s, o) PROVE TypeOK'
  <2>1. Touch("initiate", o) \in Session
    BY OrderReadIsSession DEF SessionOps
  <2> QED
    BY <1>1, <2>1, ReadKeepsTypes DEF InitiateRead
<1>2. ASSUME NEW s \in Sessions, NEW z \in RzpIds, NEW o \in Orders, CapturedRead(s, z, o)
      PROVE  TypeOK'
  <2> DEFINE op == IF rzpState[z] = "paid" THEN "captured" ELSE "short"
             rec == [OrderAndPayment(op, o) EXCEPT !.rzp = z]
  <2>1. op \in SessionOps
    BY DEF SessionOps
  <2>2. rec \in Session
    BY <2>1, OrderReadIsSession DEF Session
  <2> HIDE DEF rec
  <2> QED
    BY <1>2, <2>2, ReadKeepsTypes DEF CapturedRead, rec
<1>3. ASSUME NEW s \in Sessions, NEW z \in RzpIds, NEW o \in Orders, FailedRead(s, z, o)
      PROVE  TypeOK'
  <2>1. Touch("failed", o) \in Session
    BY OrderReadIsSession DEF SessionOps
  <2> QED
    BY <1>3, <2>1, ReadKeepsTypes DEF FailedRead
<1>4. ASSUME NEW s \in Sessions, NEW op \in DOMAIN Checks, NEW o \in Orders,
             RestaurantRead(s, op, o)
      PROVE  TypeOK'
  <2> DEFINE rec == IF op = "reject" THEN OrderAndPayment(op, o) ELSE Touch(op, o)
  <2>1. op \in SessionOps
    BY DEF Checks, SessionOps
  <2>2. rec \in Session
    BY <2>1, OrderReadIsSession
  <2> HIDE DEF rec
  <2> QED
    BY <1>4, <2>2, ReadKeepsTypes DEF RestaurantRead, rec
<1>5. ASSUME NEW s \in Sessions, NEW r \in Riders, GoOnlineRead(s, r) \/ GoOfflineRead(s, r)
      PROVE  TypeOK'
  <2>1. RiderRow("online", r) \in Session /\ RiderRow("offline", r) \in Session
    BY RiderReadIsSession DEF SessionOps
  <2> QED
    BY <1>5, <2>1, ReadKeepsTypes DEF GoOnlineRead, GoOfflineRead
<1>6. ASSUME NEW s \in Sessions, NEW r \in Riders, NEW o \in Orders,
             AssignRead(s, r, o) \/ PickupRead(s, r, o) \/ DeliverRead(s, r, o)
      PROVE  TypeOK'
  <2>1. /\ Touch("assign", o) \in Session
        /\ Touch("pickup", o) \in Session
        /\ Touch("deliver", o) \in Session
    BY OrderReadIsSession DEF SessionOps
  <2>2. /\ payStatus[o] \in PaymentStatus \cup {"NONE"}
        /\ available[r] \in BOOLEAN
        /\ deliveries[r] \in Nat
    BY DEF TypeOK
  <2>3. /\ [Touch("assign", o) EXCEPT !.rider = r] \in Session
        /\ [Touch("pickup", o) EXCEPT !.rider = r] \in Session
        /\ [Touch("deliver", o) EXCEPT !.rider = r, !.pay = payStatus[o],
                                       !.avail = available[r], !.done = deliveries[r]]
               \in Session
    <3>1. \A rec \in Session : [rec EXCEPT !.rider = r] \in Session
      BY DEF Session
    <3>2. \A rec \in Session : [rec EXCEPT !.rider = r, !.pay = payStatus[o],
                                !.avail = available[r], !.done = deliveries[r]] \in Session
      BY <2>2 DEF Session
    <3> QED
      BY <2>1, <3>1, <3>2
  <2>4. CASE AssignRead(s, r, o)
    BY <2>3, <2>4, ReadKeepsTypes DEF AssignRead
  <2>5. CASE PickupRead(s, r, o)
    BY <2>3, <2>5, ReadKeepsTypes DEF PickupRead
  <2>6. CASE DeliverRead(s, r, o)
    BY <2>3, <2>6, ReadKeepsTypes DEF DeliverRead
  <2> QED
    BY <1>6, <2>4, <2>5, <2>6
<1>7. ASSUME NEW o \in Orders, ResponseTimeout(o) PROVE TypeOK'
  <2>1. CASE TimeoutTooLate(o)
    BY <2>1 DEF TimeoutTooLate, TypeOK, orderCols, payCols, riderCols, razorpay
  <2>2. ASSUME NEW s \in Sessions, TimeoutRead(s, o) PROVE TypeOK'
    <3>1. OrderAndPayment("timeout", o) \in Session
      BY OrderReadIsSession DEF SessionOps
    <3> QED
      BY <2>2, <3>1, ReadKeepsTypes DEF TimeoutRead
  <2> QED
    BY <1>7, <2>1, <2>2 DEF ResponseTimeout
<1>8. ASSUME NEW o \in Orders, check_rider_assignment_timeout(o) PROVE TypeOK'
  <2> DEFINE t == OrderAndPayment("idle", o)
  <2>1. riderTimers' \in [Orders -> Nat]
    BY <1>8 DEF check_rider_assignment_timeout, TypeOK
  <2>2. t.paid = provPayment[o]
    BY DEF OrderAndPayment, Touch, Idle
  <2>3. refunded' \subseteq RzpIds
    <3>1. CASE refunded' = refunded
      BY <3>1 DEF TypeOK
    <3>2. CASE refunded' = refunded \cup {t.paid} /\ RefundCallsProvider(t) /\ ~ RefundRaises(t)
      <4>1. t.paid # NoRzp
        BY <3>2 DEF RefundRaises, RefundCallsProvider
      <4> QED
        BY <2>2, <3>2, <4>1 DEF TypeOK
    <3> QED
      BY <1>8, <3>1, <3>2 DEF check_rider_assignment_timeout
  <2>4. faults' \in Nat
    BY <1>8, FaultType DEF check_rider_assignment_timeout, TypeOK
  <2> QED
    BY <1>8, <2>1, <2>3, <2>4 DEF check_rider_assignment_timeout, TypeOK, orderCols, payCols, riderCols
<1> QED
  BY <1>1, <1>2, <1>3, <1>4, <1>5, <1>6, <1>7, <1>8
  DEF Arrival, WebhookArrives, RestaurantArrives, RiderArrives

(* What a session in flight holds when its op names an order. *)
LEMMA SessionFields ==
    ASSUME TypeOK, NEW s \in Sessions
    PROVE  /\ txn[s] \in Session
           /\ txn[s].order \in Orders \cup {NoOrder}
           /\ txn[s].rider \in Riders \cup {NoRider}
           /\ txn[s].rzp \in RzpIds \cup {NoRzp}
           /\ txn[s].paid \in RzpIds \cup {NoRzp}
           /\ txn[s].on \in BOOLEAN /\ txn[s].avail \in BOOLEAN
           /\ txn[s].done \in Nat
BY DEF TypeOK, Session

(* A granted refund names a Razorpay payment. *)
LEMMA RefundNamesPayment ==
    ASSUME TypeOK, NEW t \in Session, RefundCallsProvider(t), ~ RefundRaises(t)
    PROVE  t.paid \in RzpIds \ refunded
BY DEF RefundCallsProvider, RefundRaises, Session, TypeOK

LEMMA RefundKeepsTypes ==
    ASSUME TypeOK, NEW t \in Session, initiate_refund(t)
    PROVE  /\ refunded' \subseteq RzpIds
           /\ payStatus' \in [Orders -> PaymentStatus \cup {"NONE"}]
<1>1. refunded' \subseteq RzpIds
  <2>1. refunded \subseteq RzpIds
    BY DEF TypeOK
  <2> QED
    BY <2>1, RefundNamesPayment DEF initiate_refund
<1>2. payStatus \in [Orders -> PaymentStatus \cup {"NONE"}]
  BY DEF TypeOK
<1>3. payStatus' \in [Orders -> PaymentStatus \cup {"NONE"}]
  BY <1>2 DEF initiate_refund, PaymentStatus
<1> QED
  BY <1>1, <1>3

(* The columns the payment handlers write. *)
LEMMA PaymentCommitsKeepTypes ==
    ASSUME TypeOK, NEW s \in Sessions,
           \/ \E z \in RzpIds : InitiateCommit(s, z)
           \/ CapturedCommit(s) \/ ShortCommit(s) \/ FailedCommit(s)
    PROVE  TypeOK'
<1> DEFINE t == txn[s]
<1>1. CASE End(s) /\ \E z \in RzpIds : InitiateCommit(s, z)
  <2>1. PICK z \in RzpIds : InitiateCommit(s, z)
    BY <1>1
  <2>2. txn' \in [Sessions -> Session]
    BY <1>1, EndType
  <2>3. rzpFor' \in [RzpIds -> Orders \cup {NoOrder}]
    BY <2>1, SessionFields DEF InitiateCommit, TypeOK
  <2>4. provOrder' \in [Orders -> RzpIds \cup {NoRzp}]
    BY <2>1 DEF InitiateCommit, TypeOK
  <2> QED
    BY <2>1, <2>2, <2>3, <2>4 DEF InitiateCommit, TypeOK, orderCols, riderCols, queue
<1>2. CASE End(s) /\ CapturedCommit(s)
  <2>1. txn' \in [Sessions -> Session]
    BY <1>2, EndType
  <2>2. payStatus' \in [Orders -> PaymentStatus \cup {"NONE"}]
    BY <1>2 DEF CapturedCommit, TypeOK, PaymentStatus
  <2>3. provPayment' \in [Orders -> RzpIds \cup {NoRzp}]
    BY <1>2, SessionFields DEF CapturedCommit, TypeOK, Flush
  <2>4. status' \in [Orders -> OrderStatus \cup {"NONE"}]
    BY <1>2 DEF CapturedCommit, TypeOK, Flush, OrderStatus, Stages
  <2>5. reached' \in [Orders -> SUBSET Stages]
    BY <1>2 DEF CapturedCommit, TypeOK, Stages
  <2> QED
    BY <1>2, <2>1, <2>2, <2>3, <2>4, <2>5
    DEF CapturedCommit, TypeOK, riderCols, razorpay, queue
<1>3. CASE End(s) /\ (ShortCommit(s) \/ FailedCommit(s))
  <2>1. txn' \in [Sessions -> Session]
    BY <1>3, EndType
  <2>2. payStatus' \in [Orders -> PaymentStatus \cup {"NONE"}]
    BY <1>3 DEF ShortCommit, FailedCommit, TypeOK, Flush, PaymentStatus
  <2> QED
    BY <1>3, <2>1, <2>2
    DEF ShortCommit, FailedCommit, TypeOK, orderCols, riderCols, razorpay, queue
<1> QED
  BY <1>1, <1>2, <1>3 DEF InitiateCommit, CapturedCommit, ShortCommit, FailedCommit

(* A stage entered or an order cancelled leaves the order columns typed. *)
LEMMA StageKeepsTypes ==
    ASSUME TypeOK, NEW o, NEW st \in Stages, EnterStage(o, st)
    PROVE  /\ status' \in [Orders -> OrderStatus \cup {"NONE"}]
           /\ reached' \in [Orders -> SUBSET Stages]
<1>1. status' \in [Orders -> OrderStatus \cup {"NONE"}]
  BY DEF EnterStage, TypeOK, OrderStatus
<1>2. reached' \in [Orders -> SUBSET Stages]
  BY DEF EnterStage, TypeOK
<1> QED
  BY <1>1, <1>2

LEMMA CancelKeepsTypes ==
    ASSUME TypeOK, NEW t, NEW why \in CancellationReason, Cancel(t, why)
    PROVE  /\ status' \in [Orders -> OrderStatus \cup {"NONE"}]
           /\ reason' \in [Orders -> CancellationReason \cup {"NONE"}]
<1>1. status' \in [Orders -> OrderStatus \cup {"NONE"}]
  BY DEF Cancel, TypeOK, OrderStatus
<1>2. reason' \in [Orders -> CancellationReason \cup {"NONE"}]
  BY DEF Cancel, TypeOK, Flush
<1> QED
  BY <1>1, <1>2

LEMMA OrderCommitsKeepTypes ==
    ASSUME TypeOK, NEW s \in Sessions,
           \/ accept_order(s) \/ reject_order(s)
           \/ change_order_status_to_preparing(s)
           \/ change_order_status_to_ready_for_pickup(s)
           \/ TimeoutUnpaid(s) \/ TimeoutUnanswered(s)
    PROVE  TypeOK'
<1>0. txn[s] \in Session
  BY SessionFields
<1>1. CASE accept_order(s) \/ change_order_status_to_preparing(s)
  <2>1. txn' \in [Sessions -> Session]
    BY <1>1, EndType DEF accept_order, change_order_status_to_preparing
  <2>2. \/ EnterStage(txn[s].order, "CONFIRMED")
        \/ EnterStage(txn[s].order, "PREPARING")
    BY <1>1 DEF accept_order, change_order_status_to_preparing, Writes
  <2>3. /\ status' \in [Orders -> OrderStatus \cup {"NONE"}]
        /\ reached' \in [Orders -> SUBSET Stages]
    BY <2>2, StageKeepsTypes DEF Stages
  <2> QED
    BY <1>1, <2>1, <2>3
    DEF accept_order, change_order_status_to_preparing, TypeOK, payCols, riderCols,
        razorpay, queue
<1>2. CASE change_order_status_to_ready_for_pickup(s)
  <2>1. txn' \in [Sessions -> Session]
    BY <1>2, EndType DEF change_order_status_to_ready_for_pickup
  <2>2. EnterStage(txn[s].order, "READY_FOR_PICKUP")
    BY <1>2 DEF change_order_status_to_ready_for_pickup, Writes
  <2>3. riderTimers' \in [Orders -> Nat] /\ faults' \in Nat
    BY <1>2, FaultType DEF change_order_status_to_ready_for_pickup, TypeOK
  <2>4. "READY_FOR_PICKUP" \in Stages
    BY DEF Stages
  <2> QED
    BY <1>2, <2>1, <2>2, <2>3, <2>4, StageKeepsTypes
    DEF change_order_status_to_ready_for_pickup, TypeOK, payCols, riderCols, razorpay
<1>3. CASE reject_order(s) \/ TimeoutUnanswered(s)
  <2>1. txn' \in [Sessions -> Session]
    BY <1>3, EndType DEF reject_order, TimeoutUnanswered
  <2>2. \/ Cancel(txn[s], "RESTAURANT_REJECTED")
        \/ Cancel(txn[s], "RESTAURANT_TIMEOUT")
    BY <1>3 DEF reject_order, TimeoutUnanswered
  <2>3. initiate_refund(txn[s])
    BY <1>3 DEF reject_order, TimeoutUnanswered
  <2>4. /\ status' \in [Orders -> OrderStatus \cup {"NONE"}]
        /\ reason' \in [Orders -> CancellationReason \cup {"NONE"}]
    BY <2>2, CancelKeepsTypes DEF CancellationReason
  <2>5. UNCHANGED <<reached, riderId, method>>
    BY <2>2 DEF Cancel
  <2>6. /\ refunded' \subseteq RzpIds
        /\ payStatus' \in [Orders -> PaymentStatus \cup {"NONE"}]
    BY <1>0, <2>3, RefundKeepsTypes
  <2> QED
    BY <1>3, <2>1, <2>4, <2>5, <2>6
    DEF reject_order, TimeoutUnanswered, TypeOK, riderCols, queue
<1>4. CASE TimeoutUnpaid(s)
  <2>1. txn' \in [Sessions -> Session]
    BY <1>4, EndType DEF TimeoutUnpaid
  <2>2. Cancel(txn[s], "PAYMENT_FAILED")
    BY <1>4 DEF TimeoutUnpaid
  <2>3. /\ status' \in [Orders -> OrderStatus \cup {"NONE"}]
        /\ reason' \in [Orders -> CancellationReason \cup {"NONE"}]
    BY <2>2, CancelKeepsTypes DEF CancellationReason
  <2>4. UNCHANGED <<reached, riderId, method>>
    BY <2>2 DEF Cancel
  <2> QED
    BY <1>4, <2>1, <2>3, <2>4
    DEF TimeoutUnpaid, TypeOK, payCols, riderCols, razorpay, queue
<1> QED
  BY <1>1, <1>2, <1>3, <1>4

LEMMA RiderCommitsKeepTypes ==
    ASSUME TypeOK, NEW s \in Sessions,
           \/ toggle_rider_online_status(s) \/ assign_rider_to_order(s)
           \/ mark_order_picked_up(s) \/ mark_order_delivered(s)
    PROVE  TypeOK'
<1>1. CASE toggle_rider_online_status(s)
  <2>1. txn' \in [Sessions -> Session]
    BY <1>1, EndType DEF toggle_rider_online_status
  <2>2. online' \in [Riders -> BOOLEAN] /\ available' \in [Riders -> BOOLEAN]
    BY <1>1 DEF toggle_rider_online_status, TypeOK, Flush
  <2> QED
    BY <1>1, <2>1, <2>2
    DEF toggle_rider_online_status, TypeOK, orderCols, payCols, razorpay, queue
<1>2. CASE assign_rider_to_order(s)
  <2>1. txn' \in [Sessions -> Session]
    BY <1>2, EndType DEF assign_rider_to_order
  <2>2. status' \in [Orders -> OrderStatus \cup {"NONE"}]
    BY <1>2 DEF assign_rider_to_order, TypeOK, OrderStatus, Stages
  <2>3. reached' \in [Orders -> SUBSET Stages]
    BY <1>2 DEF assign_rider_to_order, TypeOK, Stages
  <2>4. riderId' \in [Orders -> Riders \cup {NoRider}]
    BY <1>2, SessionFields DEF assign_rider_to_order, TypeOK
  <2>5. available' \in [Riders -> BOOLEAN]
    BY <1>2 DEF assign_rider_to_order, TypeOK
  <2> QED
    BY <1>2, <2>1, <2>2, <2>3, <2>4, <2>5
    DEF assign_rider_to_order, TypeOK, payCols, razorpay, queue
<1>3. CASE mark_order_picked_up(s)
  <2>1. txn' \in [Sessions -> Session]
    BY <1>3, EndType DEF mark_order_picked_up
  <2>2. status' \in [Orders -> OrderStatus \cup {"NONE"}]
    BY <1>3 DEF mark_order_picked_up, TypeOK, OrderStatus, Stages
  <2>3. reached' \in [Orders -> SUBSET Stages]
    BY <1>3 DEF mark_order_picked_up, TypeOK, Stages
  <2> QED
    BY <1>3, <2>1, <2>2, <2>3
    DEF mark_order_picked_up, TypeOK, payCols, riderCols, razorpay, queue
<1>4. CASE mark_order_delivered(s)
  <2>1. txn' \in [Sessions -> Session]
    BY <1>4, EndType DEF mark_order_delivered
  <2>2. status' \in [Orders -> OrderStatus \cup {"NONE"}]
    BY <1>4 DEF mark_order_delivered, TypeOK, OrderStatus, Stages
  <2>3. reached' \in [Orders -> SUBSET Stages]
    BY <1>4 DEF mark_order_delivered, TypeOK, Stages
  <2>4. payStatus' \in [Orders -> PaymentStatus \cup {"NONE"}]
    BY <1>4 DEF mark_order_delivered, TypeOK, Flush, PaymentStatus
  <2>5. available' \in [Riders -> BOOLEAN]
    BY <1>4 DEF mark_order_delivered, TypeOK, Flush
  <2>6. deliveries' \in [Riders -> Nat]
    <3>1. txn[s].done + 1 \in Nat
      BY SessionFields
    <3> QED
      BY <1>4, <3>1 DEF mark_order_delivered, TypeOK
  <2>7. earned' \in [Orders -> Riders \cup {NoRider}]
    BY <1>4, SessionFields DEF mark_order_delivered, TypeOK
  <2> QED
    BY <1>4, <2>1, <2>2, <2>3, <2>4, <2>5, <2>6, <2>7
    DEF mark_order_delivered, TypeOK, razorpay, queue
<1> QED
  BY <1>1, <1>2, <1>3, <1>4

(* Rollbacks: an error of the handler's own, or a crash. *)
LEMMA RollbacksKeepTypes ==
    ASSUME TypeOK, NEW s \in Sessions,
           \/ RefundAborts(s) \/ AssignConflict(s) \/ AlreadyEarned(s)
           \/ CrashAfterRefund(s) \/ Crash(s)
    PROVE  TypeOK'
<1>1. End(s)
  BY DEF RefundAborts, AssignConflict, AlreadyEarned, CrashAfterRefund, Crash
<1>2. faults' \in Nat
  BY FaultType
  DEF RefundAborts, AssignConflict, AlreadyEarned, CrashAfterRefund, Crash, TypeOK
<1>3. CASE CrashAfterRefund(s)
  <2>1. refunded' \subseteq RzpIds
    BY <1>3, SessionFields, RefundNamesPayment DEF CrashAfterRefund, TypeOK
  <2> QED
    BY <1>1, <1>2, <1>3, <2>1, RollbackKeepsTypes DEF CrashAfterRefund
<1>4. CASE RefundAborts(s) \/ AssignConflict(s) \/ AlreadyEarned(s) \/ Crash(s)
  <2>1. UNCHANGED <<orderCols, payCols, riderCols, razorpay, queue>>
    BY <1>4 DEF RefundAborts, AssignConflict, AlreadyEarned, Crash
  <2> QED
    BY <1>1, <1>2, <2>1, RollbackKeepsTypes DEF razorpay, TypeOK
<1> QED
  BY <1>3, <1>4

(* Razorpay's own steps and the checkout. *)
LEMMA OutsideKeepsTypes ==
    ASSUME TypeOK, Checkout \/ Razorpay
    PROVE  TypeOK'
<1>1. ASSUME NEW o \in Orders, NEW m \in Methods, create_order_from_cart(o, m) PROVE TypeOK'
  <2>1. status' \in [Orders -> OrderStatus \cup {"NONE"}]
    BY <1>1 DEF create_order_from_cart, TypeOK, OrderStatus, Stages
  <2>2. reached' \in [Orders -> SUBSET Stages]
    BY <1>1 DEF create_order_from_cart, TypeOK, Stages
  <2>3. method' \in [Orders -> Methods \cup {"NONE"}]
    BY <1>1 DEF create_order_from_cart, TypeOK
  <2>4. payStatus' \in [Orders -> PaymentStatus \cup {"NONE"}]
    BY <1>1 DEF create_order_from_cart, TypeOK, PaymentStatus
  <2>5. responseTimer' \subseteq Orders /\ faults' \in Nat
    BY <1>1, FaultType DEF create_order_from_cart, TypeOK
  <2> QED
    BY <1>1, <2>1, <2>2, <2>3, <2>4, <2>5
    DEF create_order_from_cart, TypeOK, riderCols, razorpay
<1>2. ASSUME NEW z \in RzpIds, NEW amount \in {"paid", "short"}, CustomerPays(z, amount)
      PROVE  TypeOK'
  BY <1>2 DEF CustomerPays, TypeOK, orderCols, payCols, riderCols, queue
<1>3. ASSUME NEW z \in RzpIds, PaymentAttemptFails(z) PROVE TypeOK'
  BY <1>3 DEF PaymentAttemptFails, TypeOK, orderCols, payCols, riderCols, queue
<1> QED
  BY <1>1, <1>2, <1>3 DEF Checkout, Razorpay

LEMMA InitTypes == Init => TypeOK
BY IdleIsSession, StoreAssumption DEF Init, TypeOK, OrderStatus

LEMMA NextKeepsTypes ==
    ASSUME TypeOK, [Next]_vars
    PROVE  TypeOK'
<1>1. CASE UNCHANGED vars
  BY <1>1 DEF TypeOK, vars, orderCols, payCols, riderCols, razorpay, queue
<1>2. ASSUME NEW s \in Sessions, Finish(s) PROVE TypeOK'
  BY <1>2, PaymentCommitsKeepTypes, OrderCommitsKeepTypes, RiderCommitsKeepTypes,
     RollbacksKeepTypes
  DEF Finish
<1>3. ASSUME NEW s \in Sessions, CrashAfterRefund(s) \/ Crash(s) PROVE TypeOK'
  BY <1>3, RollbacksKeepTypes
<1> QED
  BY <1>1, <1>2, <1>3, ArrivalKeepsTypes, OutsideKeepsTypes DEF Next

(* Every row, timer and session in flight has its type, for any number of  *)
(* orders, riders, Razorpay orders, sessions and faults.                   *)
THEOREM TypeCorrect == Spec => []TypeOK
<1>1. Init => TypeOK
  BY InitTypes
<1>2. TypeOK /\ [Next]_vars => TypeOK'
  BY NextKeepsTypes
<1> QED
  BY <1>1, <1>2, PTL DEF Spec

-----------------------------------------------------------------------------
(* What a session in flight relies on. *)

LEMMA IdleIsOK == StageSessionOK(Idle)
BY StoreAssumption DEF StageSessionOK, Idle, OrderOps, Needs

(* The columns JourneyInv is about. *)
journeyCols == <<status, reached, method, provOrder, rzpFor, rzpState>>

(* A session that begins, or ends, without writing any of them. *)
LEMMA SessionStepKeeps ==
    ASSUME JourneyInv, TypeOK', NEW s \in Sessions, NEW rec, StageSessionOK(rec),
           txn' = [txn EXCEPT ![s] = rec], UNCHANGED journeyCols
    PROVE  JourneyInv'
<1> USE DEF journeyCols
<1>1. \A q \in Sessions : StageSessionOK(txn'[q])
  BY DEF JourneyInv, TypeOK
<1>2. \A q \in Sessions : StageSessionOK(txn[q])'
  BY <1>1 DEF StageSessionOK
<1> QED
  BY <1>2 DEF JourneyInv, BlankUntilCheckout, RazorpayIdsAreOurs, NoStageSkipped,
              PlacedWasPaid, PaidInFull

(* What a session relies on is not taken away: other sessions add stages,  *)
(* overwrite the status with another, and Razorpay's answers stay.         *)
LEMMA OtherSessionsKeep ==
    ASSUME JourneyInv, TypeOK', NEW s \in Sessions, End(s),
           \A o \in Orders : status[o] # "NONE" => status'[o] # "NONE",
           \A o \in Orders : reached[o] \subseteq reached'[o],
           \A z \in RzpIds : rzpFor[z] # NoOrder => rzpFor'[z] = rzpFor[z],
           UNCHANGED rzpState
    PROVE  \A q \in Sessions : StageSessionOK(txn[q])'
<1> SUFFICES ASSUME NEW q \in Sessions PROVE StageSessionOK(txn[q])'
  OBVIOUS
<1>1. CASE q = s
  <2>1. txn'[q] = Idle
    BY <1>1 DEF End, JourneyInv, TypeOK
  <2> QED
    BY <2>1, StoreAssumption DEF StageSessionOK, Idle, OrderOps, Needs
<1>2. CASE q # s
  <2>1. txn'[q] = txn[q]
    BY <1>2 DEF End, JourneyInv, TypeOK
  <2>2. StageSessionOK(txn[q])
    BY DEF JourneyInv
  <2>3. DOMAIN Needs \subseteq OrderOps
    BY DEF Needs, OrderOps, SessionOps
  <2>4. "captured" \in OrderOps
    BY DEF OrderOps, SessionOps
  <2> QED
    BY <2>1, <2>2, <2>3, <2>4, StoreAssumption DEF StageSessionOK
<1> QED
  BY <1>1, <1>2

(* Order o enters stage st, or had it and has it again. *)
LEMMA StageStepKeeps ==
    ASSUME JourneyInv, TypeOK', NEW s \in Sessions, End(s),
           NEW o \in Orders, status[o] # "NONE",
           NEW st \in Stages,
           IF st = "PLACED" THEN PaidInFull(o) ELSE Before[st] \in reached[o],
           \/ status' = [status EXCEPT ![o] = st]
           \/ UNCHANGED status,
           reached' = [reached EXCEPT ![o] = @ \cup {st}],
           UNCHANGED <<method, provOrder, rzpFor, rzpState>>
    PROVE  JourneyInv'
<1> USE DEF JourneyInv
<1>1. \A p \in Orders : status[p] # "NONE" => status'[p] # "NONE"
  BY DEF TypeOK, Stages
<1>2. \A p \in Orders : reached'[p] = IF p = o THEN reached[p] \cup {st} ELSE reached[p]
  BY DEF TypeOK
<1>3. \A q \in Sessions : StageSessionOK(txn[q])'
  BY <1>1, <1>2, OtherSessionsKeep
<1>4. BlankUntilCheckout'
  BY <1>2 DEF BlankUntilCheckout, TypeOK, Stages
<1>5. NoStageSkipped'
  BY <1>2 DEF NoStageSkipped, TypeOK
<1>6. PlacedWasPaid'
  BY <1>2 DEF PlacedWasPaid, PaidInFull
<1>7. RazorpayIdsAreOurs'
  BY DEF RazorpayIdsAreOurs
<1> QED
  BY <1>3, <1>4, <1>5, <1>6, <1>7

LEMMA CancelStepKeeps ==
    ASSUME JourneyInv, TypeOK', NEW s \in Sessions, End(s), NEW t, NEW why,
           Cancel(t, why), UNCHANGED <<provOrder, rzpFor, rzpState>>
    PROVE  JourneyInv'
<1> USE DEF JourneyInv
<1>0. /\ status' = [status EXCEPT ![t.order] = "CANCELLED"]
      /\ UNCHANGED <<reached, method>>
  BY DEF Cancel
<1>1. \A p \in Orders : status'[p] \in {status[p], "CANCELLED"}
  BY <1>0 DEF TypeOK
<1>2. \A q \in Sessions : StageSessionOK(txn[q])'
  BY <1>0, <1>1, OtherSessionsKeep
<1>3. BlankUntilCheckout' /\ RazorpayIdsAreOurs'
  BY <1>0, <1>1 DEF BlankUntilCheckout, RazorpayIdsAreOurs
<1>4. NoStageSkipped'
  BY <1>0, <1>1 DEF NoStageSkipped, Stages
<1>5. PlacedWasPaid'
  BY <1>0 DEF PlacedWasPaid, PaidInFull
<1> QED
  BY <1>2, <1>3, <1>4, <1>5

-----------------------------------------------------------------------------
(* Requests, webhooks and tasks arriving. *)

LEMMA ArrivalKeepsJourney ==
    ASSUME JourneyInv, Arrival
    PROVE  JourneyInv'
<1> USE DEF journeyCols, orderCols, payCols, razorpay
<1>0. TypeOK /\ TypeOK' /\ NoStageSkipped
  BY ArrivalKeepsTypes DEF JourneyInv
<1>1. ASSUME NEW s \in Sessions, NEW o \in Orders, InitiateRead(s, o) PROVE JourneyInv'
  <2>1. StageSessionOK(Touch("initiate", o))
    BY <1>1 DEF InitiateRead, StageSessionOK, Touch, Idle, Needs
  <2> QED
    BY <1>0, <1>1, <2>1, SessionStepKeeps DEF InitiateRead, Begin
<1>2. ASSUME NEW s \in Sessions, NEW z \in RzpIds, NEW o \in Orders, CapturedRead(s, z, o)
      PROVE  JourneyInv'
  <2> DEFINE op == IF rzpState[z] = "paid" THEN "captured" ELSE "short"
             rec == [OrderAndPayment(op, o) EXCEPT !.rzp = z]
  <2>1. rec.op = op /\ rec.order = o /\ rec.rzp = z
    BY DEF OrderAndPayment, Touch, Idle
  <2>2. rzpFor[z] = o
    BY <1>2 DEF CapturedRead, JourneyInv, RazorpayIdsAreOurs
  <2>3. status[o] # "NONE"
    BY <2>2 DEF JourneyInv, BlankUntilCheckout
  <2>4. StageSessionOK(rec)
    BY <2>1, <2>2, <2>3 DEF StageSessionOK, Needs
  <2>5. txn' = [txn EXCEPT ![s] = rec]
    BY <1>2 DEF CapturedRead, Begin
  <2> HIDE DEF rec
  <2> QED
    BY <1>0, <1>2, <2>4, <2>5, SessionStepKeeps DEF CapturedRead
<1>3. ASSUME NEW s \in Sessions, NEW z \in RzpIds, NEW o \in Orders, FailedRead(s, z, o)
      PROVE  JourneyInv'
  <2>1. status[o] # "NONE"
    BY <1>3 DEF FailedRead, JourneyInv, RazorpayIdsAreOurs, BlankUntilCheckout
  <2>2. StageSessionOK(Touch("failed", o))
    BY <2>1 DEF StageSessionOK, Touch, Idle, Needs
  <2> QED
    BY <1>0, <1>3, <2>2, SessionStepKeeps DEF FailedRead, Begin
<1>4. ASSUME NEW s \in Sessions, NEW op \in DOMAIN Checks, NEW o \in Orders,
             RestaurantRead(s, op, o)
      PROVE  JourneyInv'
  <2> DEFINE rec == IF op = "reject" THEN OrderAndPayment(op, o) ELSE Touch(op, o)
  <2>1. rec.op = op /\ rec.order = o
    BY DEF OrderAndPayment, Touch, Idle
  <2>2. Checks[op] = Needs[op] /\ Checks[op] \in Stages /\ op \notin {"captured", "deliver"}
    BY DEF Checks, Needs, Stages
  <2>3. status[o] \in Stages /\ Needs[op] \in reached[o]
    BY <1>0, <1>4, <2>2 DEF RestaurantRead, NoStageSkipped
  <2>4. StageSessionOK(rec)
    BY <2>1, <2>2, <2>3 DEF StageSessionOK, Stages
  <2>5. txn' = [txn EXCEPT ![s] = rec]
    BY <1>4 DEF RestaurantRead, Begin
  <2> HIDE DEF rec
  <2> QED
    BY <1>0, <1>4, <2>4, <2>5, SessionStepKeeps DEF RestaurantRead
<1>5. ASSUME NEW s \in Sessions, NEW r \in Riders, GoOnlineRead(s, r) \/ GoOfflineRead(s, r)
      PROVE  JourneyInv'
  <2>1. StageSessionOK(RiderRow("online", r)) /\ StageSessionOK(RiderRow("offline", r))
    BY StoreAssumption DEF StageSessionOK, RiderRow, Idle, OrderOps, Needs
  <2> QED
    BY <1>0, <1>5, <2>1, SessionStepKeeps DEF GoOnlineRead, GoOfflineRead, Begin
<1>6. ASSUME NEW s \in Sessions, NEW r \in Riders, NEW o \in Orders, AssignRead(s, r, o)
      PROVE  JourneyInv'
  <2>1. StageSessionOK([Touch("assign", o) EXCEPT !.rider = r])
    BY <1>6 DEF AssignRead, StageSessionOK, Touch, Idle, Needs
  <2> QED
    BY <1>0, <1>6, <2>1, SessionStepKeeps DEF AssignRead, Begin
<1>7. ASSUME NEW s \in Sessions, NEW r \in Riders, NEW o \in Orders, PickupRead(s, r, o)
      PROVE  JourneyInv'
  <2>1. "RIDER_ASSIGNED" \in reached[o]
    BY <1>0, <1>7 DEF PickupRead, NoStageSkipped, Stages
  <2>2. StageSessionOK([Touch("pickup", o) EXCEPT !.rider = r])
    BY <1>7, <2>1 DEF PickupRead, StageSessionOK, Touch, Idle, Needs
  <2> QED
    BY <1>0, <1>7, <2>2, SessionStepKeeps DEF PickupRead, Begin
<1>8. ASSUME NEW s \in Sessions, NEW r \in Riders, NEW o \in Orders, DeliverRead(s, r, o)
      PROVE  JourneyInv'
  <2> DEFINE rec == [Touch("deliver", o) EXCEPT !.rider = r, !.pay = payStatus[o],
                                       !.avail = available[r], !.done = deliveries[r]]
  <2>1. "OUT_FOR_DELIVERY" \in reached[o]
    BY <1>0, <1>8 DEF DeliverRead, NoStageSkipped, Stages
  <2>2. rec.op = "deliver" /\ rec.order = o /\ rec.rider = r
    BY DEF Touch, Idle
  <2>3. StageSessionOK(rec)
    BY <1>8, <2>1, <2>2 DEF DeliverRead, StageSessionOK, Needs
  <2>4. txn' = [txn EXCEPT ![s] = rec]
    BY <1>8 DEF DeliverRead, Begin
  <2> HIDE DEF rec
  <2> QED
    BY <1>0, <1>8, <2>3, <2>4, SessionStepKeeps DEF DeliverRead
<1>9. ASSUME NEW s \in Sessions, NEW o \in Orders, TimeoutRead(s, o) PROVE JourneyInv'
  <2> DEFINE rec == OrderAndPayment("timeout", o)
  <2>1. rec.op = "timeout" /\ rec.order = o
    BY DEF OrderAndPayment, Touch, Idle
  <2>2. StageSessionOK(rec)
    BY <1>9, <2>1 DEF TimeoutRead, StageSessionOK, Needs
  <2> QED
    BY <1>0, <1>9, <2>2, SessionStepKeeps DEF TimeoutRead, Begin
<1>10. CASE UNCHANGED <<txn, journeyCols>>
  BY <1>0, <1>10
  DEF JourneyInv, StageSessionOK, BlankUntilCheckout, RazorpayIdsAreOurs, NoStageSkipped,
      PlacedWasPaid, PaidInFull
<1>11. ASSUME NEW o \in Orders, TimeoutTooLate(o) \/ check_rider_assignment_timeout(o)
       PROVE  JourneyInv'
  BY <1>10, <1>11 DEF TimeoutTooLate, check_rider_assignment_timeout
<1> QED
  BY <1>1, <1>2, <1>3, <1>4, <1>5, <1>6, <1>7, <1>8, <1>9, <1>11
  DEF Arrival, WebhookArrives, RestaurantArrives, RiderArrives, ResponseTimeout

-----------------------------------------------------------------------------
(* Sessions in flight committing or rolling back. *)

LEMMA PaymentCommitsKeepJourney ==
    ASSUME JourneyInv, TypeOK', NEW s \in Sessions,
           \/ \E z \in RzpIds : InitiateCommit(s, z)
           \/ CapturedCommit(s) \/ ShortCommit(s) \/ FailedCommit(s)
    PROVE  JourneyInv'
<1> USE DEF journeyCols, orderCols, razorpay
<1> DEFINE o == txn[s].order
<1>0. TypeOK /\ StageSessionOK(txn[s])
  BY DEF JourneyInv
<1>1. ASSUME NEW z \in RzpIds, InitiateCommit(s, z) PROVE JourneyInv'
  <2>1. o \in Orders /\ status[o] # "NONE"
    BY <1>0, <1>1 DEF InitiateCommit, StageSessionOK, OrderOps, SessionOps
  <2>2. /\ rzpFor' = [rzpFor EXCEPT ![z] = o] /\ rzpFor[z] = NoOrder
        /\ provOrder' = [provOrder EXCEPT ![o] = z]
        /\ End(s) /\ UNCHANGED <<status, reached, method, rzpState>>
    BY <1>1 DEF InitiateCommit
  <2>3. \A y \in RzpIds : rzpFor[y] # NoOrder => rzpFor'[y] = rzpFor[y]
    BY <1>0, <2>2 DEF TypeOK
  <2>4. \A q \in Sessions : StageSessionOK(txn[q])'
    BY <2>2, <2>3, OtherSessionsKeep
  <2>5. RazorpayIdsAreOurs'
    <3>1. \A p \in Orders : provOrder'[p] \in RzpIds => rzpFor'[provOrder'[p]] = p
      <4> SUFFICES ASSUME NEW p \in Orders, provOrder'[p] \in RzpIds
                   PROVE  rzpFor'[provOrder'[p]] = p
        OBVIOUS
      <4>1. CASE p = o
        BY <1>0, <2>2, <4>1 DEF TypeOK
      <4>2. CASE p # o
        <5>1. provOrder'[p] = provOrder[p]
          BY <1>0, <2>2, <4>2 DEF TypeOK
        <5>2. rzpFor[provOrder[p]] = p
          BY <5>1 DEF JourneyInv, RazorpayIdsAreOurs
        <5> QED
          BY <2>3, <5>1, <5>2, StoreAssumption
      <4> QED
        BY <4>1, <4>2
    <3>2. \A y \in RzpIds : rzpFor'[y] = NoOrder => rzpState'[y] = "unpaid"
      BY <1>0, <2>1, <2>2, StoreAssumption DEF JourneyInv, RazorpayIdsAreOurs, TypeOK
    <3> QED
      BY <3>1, <3>2 DEF RazorpayIdsAreOurs
  <2>6. BlankUntilCheckout'
    BY <1>0, <2>1, <2>2 DEF JourneyInv, BlankUntilCheckout, TypeOK
  <2>7. NoStageSkipped'
    BY <2>2 DEF JourneyInv, NoStageSkipped
  <2>8. PlacedWasPaid'
    BY <2>2, <2>3, StoreAssumption DEF JourneyInv, PlacedWasPaid, PaidInFull
  <2> QED
    BY <2>4, <2>5, <2>6, <2>7, <2>8 DEF JourneyInv
<1>2. CASE CapturedCommit(s)
  <2>1. o \in Orders /\ status[o] # "NONE" /\ PaidInFull(o)
    BY <1>0, <1>2 DEF CapturedCommit, StageSessionOK, OrderOps, SessionOps, PaidInFull
  <2>2. \/ status' = [status EXCEPT ![o] = "PLACED"]
        \/ UNCHANGED status
    BY <1>0, <1>2, <2>1 DEF CapturedCommit, Flush, TypeOK
  <2>3. "PLACED" \in Stages
    BY DEF Stages
  <2>4. /\ reached' = [reached EXCEPT ![o] = @ \cup {"PLACED"}]
        /\ End(s) /\ UNCHANGED <<method, provOrder, rzpFor, rzpState>>
    BY <1>2 DEF CapturedCommit
  <2> QED
    BY <2>1, <2>2, <2>3, <2>4, StageStepKeeps
<1>3. CASE ShortCommit(s) \/ FailedCommit(s)
  <2>1. UNCHANGED journeyCols /\ End(s)
    BY <1>3 DEF ShortCommit, FailedCommit
  <2> QED
    BY <2>1, IdleIsOK, SessionStepKeeps DEF End
<1> QED
  BY <1>1, <1>2, <1>3

LEMMA OrderCommitsKeepJourney ==
    ASSUME JourneyInv, TypeOK', NEW s \in Sessions,
           \/ accept_order(s) \/ reject_order(s)
           \/ change_order_status_to_preparing(s)
           \/ change_order_status_to_ready_for_pickup(s)
           \/ TimeoutUnpaid(s) \/ TimeoutUnanswered(s)
    PROVE  JourneyInv'
<1> USE DEF payCols, razorpay
<1> DEFINE o == txn[s].order
<1>0. TypeOK /\ StageSessionOK(txn[s])
  BY DEF JourneyInv
<1>1. CASE accept_order(s)
  <2>1. /\ o \in Orders /\ status[o] # "NONE"
        /\ "CONFIRMED" \in Stages /\ "CONFIRMED" # "PLACED"
        /\ Before["CONFIRMED"] \in reached[o]
    BY <1>0, <1>1
    DEF accept_order, StageSessionOK, OrderOps, SessionOps, Needs, Before, Stages
  <2> QED
    BY <1>1, <2>1, StageStepKeeps DEF accept_order, EnterStage, Writes
<1>2. CASE change_order_status_to_preparing(s)
  <2>1. /\ o \in Orders /\ status[o] # "NONE"
        /\ "PREPARING" \in Stages /\ "PREPARING" # "PLACED"
        /\ Before["PREPARING"] \in reached[o]
    BY <1>0, <1>2
    DEF change_order_status_to_preparing, StageSessionOK, OrderOps, SessionOps, Needs,
        Before, Stages
  <2> QED
    BY <1>2, <2>1, StageStepKeeps
    DEF change_order_status_to_preparing, EnterStage, Writes
<1>3. CASE change_order_status_to_ready_for_pickup(s)
  <2>1. /\ o \in Orders /\ status[o] # "NONE"
        /\ "READY_FOR_PICKUP" \in Stages /\ "READY_FOR_PICKUP" # "PLACED"
        /\ Before["READY_FOR_PICKUP"] \in reached[o]
    BY <1>0, <1>3
    DEF change_order_status_to_ready_for_pickup, StageSessionOK, OrderOps, SessionOps,
        Needs, Before, Stages
  <2> QED
    BY <1>3, <2>1, StageStepKeeps
    DEF change_order_status_to_ready_for_pickup, EnterStage, Writes
<1>4. CASE reject_order(s) \/ TimeoutUnpaid(s) \/ TimeoutUnanswered(s)
  <2>1. \/ Cancel(txn[s], "RESTAURANT_REJECTED")
        \/ Cancel(txn[s], "PAYMENT_FAILED")
        \/ Cancel(txn[s], "RESTAURANT_TIMEOUT")
    BY <1>4 DEF reject_order, TimeoutUnpaid, TimeoutUnanswered
  <2>2. End(s) /\ UNCHANGED <<provOrder, rzpFor, rzpState>>
    BY <1>4 DEF reject_order, TimeoutUnpaid, TimeoutUnanswered
  <2> QED
    BY <2>1, <2>2, CancelStepKeeps
<1> QED
  BY <1>1, <1>2, <1>3, <1>4

LEMMA RiderCommitsKeepJourney ==
    ASSUME JourneyInv, TypeOK', NEW s \in Sessions,
           \/ toggle_rider_online_status(s) \/ assign_rider_to_order(s)
           \/ mark_order_picked_up(s) \/ mark_order_delivered(s)
    PROVE  JourneyInv'
<1> USE DEF payCols, orderCols, razorpay
<1> DEFINE o == txn[s].order
<1>0. TypeOK /\ StageSessionOK(txn[s]) /\ NoStageSkipped
  BY DEF JourneyInv
<1>1. CASE toggle_rider_online_status(s)
  <2>1. UNCHANGED journeyCols /\ End(s)
    BY <1>1 DEF toggle_rider_online_status, journeyCols
  <2> QED
    BY <2>1, IdleIsOK, SessionStepKeeps DEF End
<1>2. CASE assign_rider_to_order(s)
  <2>1. o \in Orders /\ status[o] = "READY_FOR_PICKUP"
    BY <1>0, <1>2 DEF assign_rider_to_order, StageSessionOK, OrderOps, SessionOps
  <2>2. "RIDER_ASSIGNED" \in Stages /\ Before["RIDER_ASSIGNED"] \in reached[o]
    BY <1>0, <2>1 DEF NoStageSkipped, Before, Stages
  <2> QED
    BY <1>2, <2>1, <2>2, StageStepKeeps DEF assign_rider_to_order
<1>3. CASE mark_order_picked_up(s)
  <2>1. /\ o \in Orders /\ status[o] # "NONE"
        /\ "OUT_FOR_DELIVERY" \in Stages /\ "OUT_FOR_DELIVERY" # "PLACED"
        /\ Before["OUT_FOR_DELIVERY"] \in reached[o]
    BY <1>0, <1>3
    DEF mark_order_picked_up, StageSessionOK, OrderOps, SessionOps, Needs, Before, Stages
  <2> QED
    BY <1>3, <2>1, StageStepKeeps DEF mark_order_picked_up
<1>4. CASE mark_order_delivered(s)
  <2>1. /\ o \in Orders /\ status[o] # "NONE"
        /\ "DELIVERED" \in Stages /\ "DELIVERED" # "PLACED"
        /\ Before["DELIVERED"] \in reached[o]
    BY <1>0, <1>4
    DEF mark_order_delivered, StageSessionOK, OrderOps, SessionOps, Needs, Before, Stages
  <2> QED
    BY <1>4, <2>1, StageStepKeeps DEF mark_order_delivered
<1> QED
  BY <1>1, <1>2, <1>3, <1>4

LEMMA RollbacksKeepJourney ==
    ASSUME JourneyInv, TypeOK', NEW s \in Sessions,
           \/ RefundAborts(s) \/ AssignConflict(s) \/ AlreadyEarned(s)
           \/ CrashAfterRefund(s) \/ Crash(s)
    PROVE  JourneyInv'
<1>1. End(s) /\ UNCHANGED journeyCols
  BY DEF RefundAborts, AssignConflict, AlreadyEarned, CrashAfterRefund, Crash,
         journeyCols, orderCols, payCols, razorpay
<1> QED
  BY <1>1, IdleIsOK, SessionStepKeeps DEF End

-----------------------------------------------------------------------------
(* Checkout, and Razorpay's own steps. *)

LEMMA CheckoutKeepsJourney ==
    ASSUME JourneyInv, TypeOK', NEW o \in Orders, NEW m \in Methods,
           create_order_from_cart(o, m)
    PROVE  JourneyInv'
<1> USE DEF JourneyInv
<1>1. /\ status[o] = "NONE"
      /\ status' = [status EXCEPT ![o] = IF m = "COD" THEN "PLACED" ELSE "AWAITING_PAYMENT"]
      /\ reached' = [reached EXCEPT ![o] = IF m = "COD" THEN {"PLACED"} ELSE {}]
      /\ method' = [method EXCEPT ![o] = m]
      /\ UNCHANGED <<txn, provOrder, rzpFor, rzpState>>
  BY DEF create_order_from_cart, razorpay
<1>2. reached[o] = {}
  BY <1>1 DEF BlankUntilCheckout
<1>3. \A q \in Sessions : StageSessionOK(txn[q])'
  <2> SUFFICES ASSUME NEW q \in Sessions PROVE StageSessionOK(txn[q])'
    OBVIOUS
  <2>1. StageSessionOK(txn[q])
    OBVIOUS
  <2>2. DOMAIN Needs \subseteq OrderOps
    BY DEF Needs, OrderOps, SessionOps
  <2>3. \A p \in Orders : status[p] # "NONE" => status'[p] = status[p] /\ reached'[p] = reached[p]
    BY <1>1 DEF TypeOK
  <2> QED
    BY <1>1, <2>1, <2>2, <2>3 DEF StageSessionOK
<1>4. BlankUntilCheckout'
  BY <1>1 DEF BlankUntilCheckout, TypeOK
<1>5. RazorpayIdsAreOurs'
  BY <1>1 DEF RazorpayIdsAreOurs
<1>6. NoStageSkipped'
  BY <1>1 DEF NoStageSkipped, TypeOK, Stages
<1>7. PlacedWasPaid'
  BY <1>1 DEF PlacedWasPaid, PaidInFull, TypeOK
<1> QED
  BY <1>3, <1>4, <1>5, <1>6, <1>7

LEMMA RazorpayKeepsJourney ==
    ASSUME JourneyInv, TypeOK', NEW z \in RzpIds,
           \/ \E amount \in {"paid", "short"} : CustomerPays(z, amount)
           \/ PaymentAttemptFails(z)
    PROVE  JourneyInv'
<1> USE DEF JourneyInv, orderCols, payCols
<1>1. ASSUME NEW amount \in {"paid", "short"}, CustomerPays(z, amount) PROVE JourneyInv'
  <2>1. /\ rzpFor[z] # NoOrder /\ rzpState[z] = "unpaid"
        /\ rzpState' = [rzpState EXCEPT ![z] = amount]
        /\ UNCHANGED <<txn, status, reached, method, provOrder, rzpFor>>
    BY <1>1 DEF CustomerPays
  <2>2. \A y \in RzpIds : rzpState[y] # "unpaid" => rzpState'[y] = rzpState[y]
    BY <2>1 DEF TypeOK
  <2>3. \A q \in Sessions : StageSessionOK(txn[q])'
    BY <2>1, <2>2 DEF StageSessionOK
  <2>4. BlankUntilCheckout' /\ NoStageSkipped'
    BY <2>1 DEF BlankUntilCheckout, NoStageSkipped
  <2>5. RazorpayIdsAreOurs'
    BY <2>1 DEF RazorpayIdsAreOurs, TypeOK
  <2>6. PlacedWasPaid'
    BY <2>1, <2>2 DEF PlacedWasPaid, PaidInFull
  <2> QED
    BY <2>3, <2>4, <2>5, <2>6
<1>2. CASE PaymentAttemptFails(z)
  BY <1>2
  DEF PaymentAttemptFails, StageSessionOK, BlankUntilCheckout, RazorpayIdsAreOurs,
      NoStageSkipped, PlacedWasPaid, PaidInFull
<1> QED
  BY <1>1, <1>2

-----------------------------------------------------------------------------
(* The theorems. *)

LEMMA InitJourney == Init => JourneyInv
<1> SUFFICES ASSUME Init PROVE JourneyInv
  OBVIOUS
<1>1. TypeOK
  BY InitTypes
<1>2. \A s \in Sessions : StageSessionOK(txn[s])
  BY IdleIsOK DEF Init
<1>3. BlankUntilCheckout /\ RazorpayIdsAreOurs
  BY StoreAssumption DEF Init, BlankUntilCheckout, RazorpayIdsAreOurs
<1>4. NoStageSkipped /\ PlacedWasPaid
  BY DEF Init, NoStageSkipped, PlacedWasPaid, Stages
<1> QED
  BY <1>1, <1>2, <1>3, <1>4 DEF JourneyInv

LEMMA NextKeepsJourney ==
    ASSUME JourneyInv, [Next]_vars
    PROVE  JourneyInv'
<1>0. TypeOK'
  BY NextKeepsTypes DEF JourneyInv
<1>1. CASE UNCHANGED vars
  BY <1>0, <1>1
  DEF vars, orderCols, payCols, razorpay, JourneyInv, StageSessionOK, BlankUntilCheckout,
      RazorpayIdsAreOurs, NoStageSkipped, PlacedWasPaid, PaidInFull
<1>2. CASE Checkout
  BY <1>0, <1>2, CheckoutKeepsJourney DEF Checkout
<1>3. CASE Razorpay
  BY <1>0, <1>3, RazorpayKeepsJourney DEF Razorpay
<1>4. CASE Arrival
  BY <1>4, ArrivalKeepsJourney
<1>5. ASSUME NEW s \in Sessions, Finish(s) PROVE JourneyInv'
  BY <1>0, <1>5, PaymentCommitsKeepJourney, OrderCommitsKeepJourney,
     RiderCommitsKeepJourney, RollbacksKeepJourney
  DEF Finish
<1>6. ASSUME NEW s \in Sessions, CrashAfterRefund(s) \/ Crash(s) PROVE JourneyInv'
  BY <1>0, <1>6, RollbacksKeepJourney
<1> QED
  BY <1>1, <1>2, <1>3, <1>4, <1>5, <1>6 DEF Next

(* The inductive invariant holds throughout. *)
THEOREM JourneyInvariant == Spec => []JourneyInv
<1>1. Init => JourneyInv
  BY InitJourney
<1>2. JourneyInv /\ [Next]_vars => JourneyInv'
  BY NextKeepsJourney
<1> QED
  BY <1>1, <1>2, PTL DEF Spec

(* However handlers overlap, no order reaches a stage without the ones     *)
(* before it, and its status never names a stage it has not reached.       *)
THEOREM StagesInOrder == Spec => []NoStageSkipped
<1>1. JourneyInv => NoStageSkipped
  BY DEF JourneyInv
<1> QED
  BY <1>1, JourneyInvariant, PTL

(* No restaurant is shown an online order before Razorpay has its price.   *)
THEOREM NothingPlacedUnpaid == Spec => []PlacedWasPaid
<1>1. JourneyInv => PlacedWasPaid
  BY DEF JourneyInv
<1> QED
  BY <1>1, JourneyInvariant, PTL

-----------------------------------------------------------------------------
(* Refinement. *)

AbstractStep == Journey!JourneyNext \/ UNCHANGED Journey!journeyVars

LEMMA StepStutters ==
    ASSUME UNCHANGED <<reached, method, earned, rzpFor, rzpState>>
    PROVE  AbstractStep
BY DEF AbstractStep, Journey!journeyVars, PaidInFull

LEMMA StepAdvances ==
    ASSUME NEW o \in Orders, NEW st \in Stages \ {"PLACED", "DELIVERED"},
           Before[st] \in reached[o],
           reached' = [reached EXCEPT ![o] = @ \cup {st}],
           UNCHANGED <<method, earned, rzpFor, rzpState>>
    PROVE  AbstractStep
<1>1. st \in DOMAIN Journey!Predecessor \ {"DELIVERED"} /\ Journey!Predecessor[st] = Before[st]
  BY DEF Journey!Predecessor, Before, Stages
<1>2. Journey!Advance(o, st)
  BY <1>1 DEF Journey!Advance, PaidInFull
<1> QED
  BY <1>1, <1>2 DEF AbstractStep, Journey!JourneyNext

LEMMA CheckoutRefines ==
    ASSUME JourneyInv, NEW o \in Orders, NEW m \in Methods, create_order_from_cart(o, m)
    PROVE  AbstractStep
<1>1. /\ status[o] = "NONE"
      /\ reached' = [reached EXCEPT ![o] = IF m = "COD" THEN {"PLACED"} ELSE {}]
      /\ method' = [method EXCEPT ![o] = m]
      /\ UNCHANGED <<earned, rzpFor, rzpState>>
  BY DEF create_order_from_cart, razorpay, riderCols
<1>2. reached[o] = {} /\ method[o] = "NONE" /\ ~ PaidInFull(o)
  BY <1>1 DEF JourneyInv, BlankUntilCheckout, PaidInFull
<1>3. method \in [Orders -> Methods \cup {"NONE"}] /\ reached \in [Orders -> SUBSET Stages]
  BY DEF JourneyInv, TypeOK
<1>4. {p \in Orders : PaidInFull(p)}' = {p \in Orders : PaidInFull(p)}
  BY <1>1 DEF PaidInFull
<1>5. CASE m = "COD"
  <2>1. {p \in Orders : method'[p] = "COD"} = {p \in Orders : method[p] = "COD"} \cup {o}
    BY <1>1, <1>3, <1>5
  <2>2. Journey!PlaceCash(o)
    BY <1>1, <1>2, <1>4, <1>5, <2>1 DEF Journey!PlaceCash
  <2> QED
    BY <2>2 DEF AbstractStep, Journey!JourneyNext
<1>6. CASE m # "COD"
  <2>1. {p \in Orders : method'[p] = "COD"} = {p \in Orders : method[p] = "COD"}
    BY <1>1, <1>2, <1>3, <1>6
  <2>2. reached' = reached
    BY <1>1, <1>2, <1>3, <1>6
  <2> QED
    BY <1>1, <1>4, <2>1, <2>2 DEF AbstractStep, Journey!journeyVars
<1> QED
  BY <1>5, <1>6

LEMMA RazorpayRefines ==
    ASSUME JourneyInv, NEW z \in RzpIds,
           \/ \E amount \in {"paid", "short"} : CustomerPays(z, amount)
           \/ PaymentAttemptFails(z)
    PROVE  AbstractStep
<1> USE DEF orderCols, riderCols
<1>0. rzpState \in [RzpIds -> {"unpaid", "paid", "short"}]
  BY DEF JourneyInv, TypeOK
<1>1. CASE CustomerPays(z, "paid")
  <2>1. rzpFor[z] \in Orders
    BY <1>1 DEF CustomerPays, JourneyInv, TypeOK
  <2>2. {p \in Orders : PaidInFull(p)}' = {p \in Orders : PaidInFull(p)} \cup {rzpFor[z]}
    BY <1>0, <1>1, <2>1 DEF CustomerPays, PaidInFull
  <2>3. Journey!Fund(rzpFor[z])
    BY <1>1, <2>2 DEF CustomerPays, Journey!Fund
  <2> QED
    BY <2>1, <2>3 DEF AbstractStep, Journey!JourneyNext
<1>2. CASE CustomerPays(z, "short")
  <2>1. {p \in Orders : PaidInFull(p)}' = {p \in Orders : PaidInFull(p)}
    BY <1>0, <1>2 DEF CustomerPays, PaidInFull
  <2> QED
    BY <1>2, <2>1 DEF CustomerPays, AbstractStep, Journey!journeyVars
<1>3. CASE PaymentAttemptFails(z)
  BY <1>3, StepStutters DEF PaymentAttemptFails
<1> QED
  BY <1>1, <1>2, <1>3

LEMMA ArrivalRefines ==
    ASSUME Arrival
    PROVE  AbstractStep
<1>1. UNCHANGED <<reached, method, earned, rzpFor, rzpState>>
  BY DEF Arrival, WebhookArrives, RestaurantArrives, RiderArrives, ResponseTimeout,
         InitiateRead, CapturedRead, FailedRead, RestaurantRead, GoOnlineRead,
         GoOfflineRead, AssignRead, PickupRead, DeliverRead, TimeoutTooLate, TimeoutRead,
         check_rider_assignment_timeout, orderCols, riderCols, razorpay
<1> QED
  BY <1>1, StepStutters

LEMMA PaymentCommitsRefine ==
    ASSUME JourneyInv, NEW s \in Sessions,
           \/ \E z \in RzpIds : InitiateCommit(s, z)
           \/ CapturedCommit(s) \/ ShortCommit(s) \/ FailedCommit(s)
    PROVE  AbstractStep
<1> USE DEF orderCols, riderCols, razorpay
<1> DEFINE o == txn[s].order
<1>0. TypeOK /\ StageSessionOK(txn[s])
  BY DEF JourneyInv
<1>1. ASSUME NEW z \in RzpIds, InitiateCommit(s, z) PROVE AbstractStep
  <2>1. rzpState[z] = "unpaid" /\ rzpFor[z] = NoOrder
    BY <1>1 DEF InitiateCommit, JourneyInv, RazorpayIdsAreOurs
  <2>2. \A y \in RzpIds : y # z => rzpFor'[y] = rzpFor[y]
    BY <1>0, <1>1 DEF InitiateCommit, TypeOK
  <2>3. {p \in Orders : PaidInFull(p)}' = {p \in Orders : PaidInFull(p)}
    BY <1>1, <2>1, <2>2 DEF InitiateCommit, PaidInFull
  <2> QED
    BY <1>1, <2>3 DEF InitiateCommit, AbstractStep, Journey!journeyVars
<1>2. CASE CapturedCommit(s)
  <2>1. o \in Orders /\ PaidInFull(o)
    BY <1>0, <1>2 DEF CapturedCommit, StageSessionOK, OrderOps, SessionOps, PaidInFull
  <2>2. {p \in Orders : PaidInFull(p)}' = {p \in Orders : PaidInFull(p)}
    BY <1>2 DEF CapturedCommit, PaidInFull
  <2>3. Journey!PlaceFunded(o)
    BY <1>2, <2>1, <2>2 DEF CapturedCommit, Journey!PlaceFunded
  <2> QED
    BY <2>1, <2>3 DEF AbstractStep, Journey!JourneyNext
<1>3. CASE ShortCommit(s) \/ FailedCommit(s)
  BY <1>3, StepStutters DEF ShortCommit, FailedCommit
<1> QED
  BY <1>1, <1>2, <1>3

LEMMA OrderCommitsRefine ==
    ASSUME JourneyInv, NEW s \in Sessions,
           \/ accept_order(s) \/ reject_order(s)
           \/ change_order_status_to_preparing(s)
           \/ change_order_status_to_ready_for_pickup(s)
           \/ TimeoutUnpaid(s) \/ TimeoutUnanswered(s)
    PROVE  AbstractStep
<1> USE DEF riderCols, razorpay
<1> DEFINE o == txn[s].order
           st == CASE txn[s].op = "accept" -> "CONFIRMED"
                   [] txn[s].op = "preparing" -> "PREPARING"
                   [] txn[s].op = "ready" -> "READY_FOR_PICKUP"
<1>0. StageSessionOK(txn[s])
  BY DEF JourneyInv
<1>1. CASE \/ accept_order(s) \/ change_order_status_to_preparing(s)
           \/ change_order_status_to_ready_for_pickup(s)
  <2>1. txn[s].op \in {"accept", "preparing", "ready"} /\ EnterStage(o, st)
    BY <1>1 DEF accept_order, change_order_status_to_preparing,
                change_order_status_to_ready_for_pickup, Writes
  <2>2. o \in Orders /\ st \in Stages \ {"PLACED", "DELIVERED"} /\ Before[st] \in reached[o]
    BY <1>0, <2>1 DEF StageSessionOK, OrderOps, SessionOps, Needs, Before, Stages
  <2>3. /\ reached' = [reached EXCEPT ![o] = @ \cup {st}]
        /\ UNCHANGED <<method, earned, rzpFor, rzpState>>
    BY <1>1, <2>1 DEF EnterStage, accept_order, change_order_status_to_preparing,
                      change_order_status_to_ready_for_pickup
  <2> HIDE DEF st
  <2> QED
    BY <2>2, <2>3, StepAdvances
<1>2. CASE reject_order(s) \/ TimeoutUnpaid(s) \/ TimeoutUnanswered(s)
  BY <1>2, StepStutters DEF reject_order, TimeoutUnpaid, TimeoutUnanswered, Cancel
<1> QED
  BY <1>1, <1>2

LEMMA RiderCommitsRefine ==
    ASSUME JourneyInv, NEW s \in Sessions,
           \/ toggle_rider_online_status(s) \/ assign_rider_to_order(s)
           \/ mark_order_picked_up(s) \/ mark_order_delivered(s)
    PROVE  AbstractStep
<1> USE DEF orderCols, riderCols, razorpay
<1> DEFINE o == txn[s].order
<1>0. TypeOK /\ StageSessionOK(txn[s]) /\ NoStageSkipped
  BY DEF JourneyInv
<1>1. CASE toggle_rider_online_status(s)
  BY <1>1, StepStutters DEF toggle_rider_online_status
<1>2. CASE assign_rider_to_order(s)
  <2>1. o \in Orders /\ status[o] = "READY_FOR_PICKUP"
    BY <1>0, <1>2 DEF assign_rider_to_order, StageSessionOK, OrderOps, SessionOps
  <2>2. /\ "RIDER_ASSIGNED" \in Stages \ {"PLACED", "DELIVERED"}
        /\ Before["RIDER_ASSIGNED"] \in reached[o]
    BY <1>0, <2>1 DEF NoStageSkipped, Before, Stages
  <2> QED
    BY <1>2, <2>1, <2>2, StepAdvances DEF assign_rider_to_order
<1>3. CASE mark_order_picked_up(s)
  <2>1. /\ o \in Orders
        /\ "OUT_FOR_DELIVERY" \in Stages \ {"PLACED", "DELIVERED"}
        /\ Before["OUT_FOR_DELIVERY"] \in reached[o]
    BY <1>0, <1>3
    DEF mark_order_picked_up, StageSessionOK, OrderOps, SessionOps, Needs, Before, Stages
  <2> QED
    BY <1>3, <2>1, StepAdvances DEF mark_order_picked_up
<1>4. CASE mark_order_delivered(s)
  <2>1. o \in Orders /\ "OUT_FOR_DELIVERY" \in reached[o]
    BY <1>0, <1>4 DEF mark_order_delivered, StageSessionOK, OrderOps, SessionOps, Needs
  <2>2. Journey!Predecessor["DELIVERED"] = "OUT_FOR_DELIVERY"
    BY DEF Journey!Predecessor
  <2>3. {p \in Orders : PaidInFull(p)}' = {p \in Orders : PaidInFull(p)}
    BY <1>4 DEF mark_order_delivered, PaidInFull
  <2>4. txn[s].rider \in Riders
    BY <1>0, <1>4 DEF mark_order_delivered, StageSessionOK
  <2>5. Journey!Deliver(o, txn[s].rider)
    BY <1>4, <2>1, <2>2, <2>3 DEF mark_order_delivered, Journey!Deliver
  <2> QED
    BY <2>1, <2>4, <2>5 DEF AbstractStep, Journey!JourneyNext
<1> QED
  BY <1>1, <1>2, <1>3, <1>4

LEMMA NextRefines ==
    ASSUME JourneyInv, [Next]_vars
    PROVE  AbstractStep
<1>1. CASE UNCHANGED vars
  BY <1>1, StepStutters DEF vars, orderCols, riderCols, razorpay
<1>2. CASE Checkout
  BY <1>2, CheckoutRefines DEF Checkout
<1>3. CASE Razorpay
  BY <1>3, RazorpayRefines DEF Razorpay
<1>4. CASE Arrival
  BY <1>4, ArrivalRefines
<1>5. ASSUME NEW s \in Sessions,
             \/ RefundAborts(s) \/ AssignConflict(s) \/ AlreadyEarned(s)
             \/ CrashAfterRefund(s) \/ Crash(s)
      PROVE  AbstractStep
  BY <1>5, StepStutters
  DEF RefundAborts, AssignConflict, AlreadyEarned, CrashAfterRefund, Crash, orderCols,
      riderCols, razorpay
<1>6. ASSUME NEW s \in Sessions, Finish(s) PROVE AbstractStep
  BY <1>5, <1>6, PaymentCommitsRefine, OrderCommitsRefine, RiderCommitsRefine DEF Finish
<1> QED
  BY <1>1, <1>2, <1>3, <1>4, <1>5, <1>6 DEF Next

(* Whatever overlaps, an order's stages, the money and the earning behave  *)
(* as OrderJourney says: every step of the code is one step of it or none. *)
THEOREM JourneyImplemented == Spec => ImplementsJourney
<1>1. Init => Journey!JourneyInit
  <2> SUFFICES ASSUME Init PROVE Journey!JourneyInit
    OBVIOUS
  <2>1. {o \in Orders : PaidInFull(o)} = {}
    BY StoreAssumption DEF Init, PaidInFull
  <2>2. {o \in Orders : method[o] = "COD"} = {}
    BY DEF Init
  <2> QED
    BY <2>1, <2>2 DEF Init, Journey!JourneyInit
<1>2. JourneyInv /\ [Next]_vars => [Journey!JourneyNext]_(Journey!journeyVars)
  BY NextRefines DEF AbstractStep
<1> QED
  BY <1>1, <1>2, JourneyInvariant, PTL DEF Spec, ImplementsJourney, Journey!JourneySpec
=============================================================================
