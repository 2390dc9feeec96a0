-------------------------- MODULE OrderRiderProofs --------------------------
(***************************************************************************)
(* Riders: the counter on the rider's row never runs ahead of the earnings *)
(* (LedgerInv is inductive).  Then what the documentation claims and only  *)
(* one session at a time keeps: SerialInv and, with the payments, HeldInv  *)
(* are inductive under OneSession.                                         *)
(***************************************************************************)
EXTENDS OrderMoneyProofs, FiniteSetTheorems

-----------------------------------------------------------------------------
(* The reads of an arriving request write no order and no rider. *)
LEMMA ArrivalWritesNoRow ==
    ASSUME Arrival
    PROVE  UNCHANGED <<orderCols, payCols, riderCols>>
<1>1. ASSUME NEW s \in Sessions, NEW z \in RzpIds, NEW o \in Orders,
             CapturedRead(s, z, o) \/ FailedRead(s, z, o)
      PROVE  UNCHANGED <<orderCols, payCols, riderCols>>
  BY <1>1 DEF CapturedRead, FailedRead
<1>2. ASSUME NEW s \in Sessions, NEW o \in Orders, InitiateRead(s, o)
      PROVE  UNCHANGED <<orderCols, payCols, riderCols>>
  BY <1>2 DEF InitiateRead
<1>3. ASSUME NEW s \in Sessions, NEW op \in DOMAIN Checks, NEW o \in Orders,
             RestaurantRead(s, op, o)
      PROVE  UNCHANGED <<orderCols, payCols, riderCols>>
  BY <1>3 DEF RestaurantRead
<1>4. ASSUME NEW s \in Sessions, NEW r \in Riders, GoOnlineRead(s, r) \/ GoOfflineRead(s, r)
      PROVE  UNCHANGED <<orderCols, payCols, riderCols>>
  BY <1>4 DEF GoOnlineRead, GoOfflineRead
<1>5. ASSUME NEW s \in Sessions, NEW r \in Riders, NEW o \in Orders,
             AssignRead(s, r, o) \/ PickupRead(s, r, o) \/ DeliverRead(s, r, o)
      PROVE  UNCHANGED <<orderCols, payCols, riderCols>>
  BY <1>5 DEF AssignRead, PickupRead, DeliverRead
<1>6. ASSUME NEW o \in Orders, ResponseTimeout(o) \/ check_rider_assignment_timeout(o)
      PROVE  UNCHANGED <<orderCols, payCols, riderCols>>
  BY <1>6 DEF ResponseTimeout, TimeoutTooLate, TimeoutRead, check_rider_assignment_timeout
<1> QED
  BY <1>1, <1>2, <1>3, <1>4, <1>5, <1>6
  DEF Arrival, WebhookArrives, RestaurantArrives, RiderArrives

-----------------------------------------------------------------------------
(* The counter and the ledger. *)

LEMMA EarningsCounted ==
    ASSUME NEW r
    PROVE  IsFiniteSet(EarningsOf(r)) /\ Cardinality(EarningsOf(r)) \in Nat
BY OrdersAreFinite, FS_Subset, FS_CardinalityType DEF EarningsOf

(* The ledger after a step, of a rider named before it. *)
EarningsAfter(r) == {o \in Orders : earned'[o] = r}

(* An earning stays, so what a session counted is still covered. *)
LEMMA EarningsOnlyGrow ==
    ASSUME NEW r \in Riders,
           \A o \in Orders : earned[o] # NoRider => earned'[o] = earned[o]
    PROVE  /\ Cardinality(EarningsOf(r)) \in Nat /\ Cardinality(EarningsAfter(r)) \in Nat
           /\ Cardinality(EarningsOf(r)) <= Cardinality(EarningsAfter(r))
<1>1. EarningsOf(r) \in SUBSET (EarningsAfter(r)) /\ EarningsAfter(r) \in SUBSET Orders
  BY StoreAssumption DEF EarningsOf, EarningsAfter
<1>2. IsFiniteSet(EarningsAfter(r))
  BY <1>1, OrdersAreFinite, FS_Subset
<1> QED
  BY <1>1, <1>2, EarningsCounted, FS_Subset, FS_CardinalityType

DeliverSessionOK(t) == t.op = "deliver" => t.done <= Cardinality(EarningsOf(t.rider))

(* A step that writes neither the counter nor the ledger. *)
LEMMA LedgerUntouched ==
    ASSUME LedgerInv, JourneyInv', UNCHANGED <<deliveries, earned>>,
           \A q \in Sessions : txn'[q] = txn[q] \/ DeliverSessionOK(txn'[q])
    PROVE  LedgerInv'
<1>1. DeliveriesWithinLedger'
  BY DEF LedgerInv, DeliveriesWithinLedger, EarningsOf
<1>2. \A q \in Sessions : txn'[q].op = "deliver" =>
         txn'[q].done <= Cardinality(EarningsOf(txn'[q].rider))
  BY DEF LedgerInv, DeliverSessionOK
<1>3. \A q \in Sessions : txn'[q].op = "deliver" =>
         txn'[q].done <= Cardinality({o \in Orders : earned'[o] = txn'[q].rider})
  BY <1>2 DEF EarningsOf
<1> QED
  BY <1>1, <1>3 DEF LedgerInv, EarningsOf

LEMMA ArrivalKeepsLedger ==
    ASSUME LedgerInv, JourneyInv', Arrival
    PROVE  LedgerInv'
<1>0. TypeOK /\ UNCHANGED <<deliveries, earned>>
  BY ArrivalWritesNoRow DEF riderCols, LedgerInv, JourneyInv
<1> SUFFICES \A q \in Sessions : txn'[q] = txn[q] \/ DeliverSessionOK(txn'[q])
  BY <1>0, LedgerUntouched
<1> USE DEF Begin
<1>1. ASSUME NEW s \in Sessions, NEW rec, txn' = [txn EXCEPT ![s] = rec],
             DeliverSessionOK(rec)
      PROVE  \A q \in Sessions : txn'[q] = txn[q] \/ DeliverSessionOK(txn'[q])
  BY <1>0, <1>1 DEF TypeOK
<1>2. ASSUME NEW op, NEW o PROVE Touch(op, o).op = op /\ OrderAndPayment(op, o).op = op
  BY DEF Touch, OrderAndPayment, Idle
<1>3. ASSUME NEW s \in Sessions, NEW z \in RzpIds, NEW o \in Orders, CapturedRead(s, z, o)
      PROVE  \A q \in Sessions : txn'[q] = txn[q] \/ DeliverSessionOK(txn'[q])
  <2> DEFINE op == IF rzpState[z] = "paid" THEN "captured" ELSE "short"
             rec == [OrderAndPayment(op, o) EXCEPT !.rzp = z]
  <2>1. rec.op = op
    BY DEF OrderAndPayment, Touch, Idle
  <2>2. txn' = [txn EXCEPT ![s] = rec] /\ DeliverSessionOK(rec)
    BY <1>3, <2>1 DEF CapturedRead, DeliverSessionOK
  <2> QED
    BY <1>1, <2>2
<1>4. ASSUME NEW s \in Sessions, NEW z \in RzpIds, NEW o \in Orders, FailedRead(s, z, o)
      PROVE  \A q \in Sessions : txn'[q] = txn[q] \/ DeliverSessionOK(txn'[q])
  BY <1>1, <1>2, <1>4 DEF FailedRead, DeliverSessionOK
<1>5. ASSUME NEW s \in Sessions, NEW o \in Orders, InitiateRead(s, o)
      PROVE  \A q \in Sessions : txn'[q] = txn[q] \/ DeliverSessionOK(txn'[q])
  BY <1>1, <1>2, <1>5 DEF InitiateRead, DeliverSessionOK
<1>6. ASSUME NEW s \in Sessions, NEW op \in DOMAIN Checks, NEW o \in Orders,
             RestaurantRead(s, op, o)
      PROVE  \A q \in Sessions : txn'[q] = txn[q] \/ DeliverSessionOK(txn'[q])
  <2>1. op # "deliver"
    BY DEF Checks
  <2> QED
    BY <1>1, <1>2, <1>6, <2>1 DEF RestaurantRead, DeliverSessionOK
<1>7. ASSUME NEW s \in Sessions, NEW r \in Riders, GoOnlineRead(s, r) \/ GoOfflineRead(s, r)
      PROVE  \A q \in Sessions : txn'[q] = txn[q] \/ DeliverSessionOK(txn'[q])
  <2>1. RiderRow("online", r).op = "online" /\ RiderRow("offline", r).op = "offline"
    BY DEF RiderRow, Idle
  <2> QED
    BY <1>1, <1>7, <2>1 DEF GoOnlineRead, GoOfflineRead, DeliverSessionOK
<1>8. ASSUME NEW s \in Sessions, NEW r \in Riders, NEW o \in Orders,
             AssignRead(s, r, o) \/ PickupRead(s, r, o)
      PROVE  \A q \in Sessions : txn'[q] = txn[q] \/ DeliverSessionOK(txn'[q])
  <2>1. /\ [Touch("assign", o) EXCEPT !.rider = r].op = "assign"
        /\ [Touch("pickup", o) EXCEPT !.rider = r].op = "pickup"
    BY DEF Touch, Idle
  <2> QED
    BY <1>1, <1>8, <2>1 DEF AssignRead, PickupRead, DeliverSessionOK
<1>9. ASSUME NEW s \in Sessions, NEW r \in Riders, NEW o \in Orders, DeliverRead(s, r, o)
      PROVE  \A q \in Sessions : txn'[q] = txn[q] \/ DeliverSessionOK(txn'[q])
  <2> DEFINE rec == [Touch("deliver", o) EXCEPT !.rider = r, !.pay = payStatus[o],
                                       !.avail = available[r], !.done = deliveries[r]]
  <2>1. rec.rider = r /\ rec.done = deliveries[r]
    BY DEF Touch, Idle
  <2>2. deliveries[r] <= Cardinality(EarningsOf(r))
    BY DEF LedgerInv, DeliveriesWithinLedger
  <2>3. txn' = [txn EXCEPT ![s] = rec] /\ DeliverSessionOK(rec)
    BY <1>9, <2>1, <2>2 DEF DeliverRead, DeliverSessionOK
  <2> QED
    BY <1>1, <2>3
<1>10. ASSUME NEW o \in Orders, ResponseTimeout(o)
       PROVE  \A q \in Sessions : txn'[q] = txn[q] \/ DeliverSessionOK(txn'[q])
  BY <1>1, <1>2, <1>10 DEF ResponseTimeout, TimeoutRead, TimeoutTooLate, DeliverSessionOK
<1>11. ASSUME NEW o \in Orders, check_rider_assignment_timeout(o)
       PROVE  \A q \in Sessions : txn'[q] = txn[q] \/ DeliverSessionOK(txn'[q])
  BY <1>11 DEF check_rider_assignment_timeout
<1> QED
  BY <1>3, <1>4, <1>5, <1>6, <1>7, <1>8, <1>9, <1>10, <1>11
  DEF Arrival, WebhookArrives, RestaurantArrives, RiderArrives

(* The increment of a stale count, paid for by one new earning. *)
LEMMA DeliveryKeepsLedger ==
    ASSUME LedgerInv, JourneyInv', NEW s \in Sessions, mark_order_delivered(s)
    PROVE  LedgerInv'
<1> DEFINE o == txn[s].order
           r == txn[s].rider
<1>0. TypeOK /\ o \in Orders /\ r \in Riders /\ txn[s].op = "deliver" /\ txn[s].done \in Nat
  BY DEF LedgerInv, JourneyInv, StageSessionOK, OrderOps, SessionOps, mark_order_delivered,
         TypeOK, Session
<1>1. /\ earned[o] = NoRider /\ earned' = [earned EXCEPT ![o] = r]
      /\ deliveries' = [deliveries EXCEPT ![r] = txn[s].done + 1]
      /\ txn' = [txn EXCEPT ![s] = Idle]
  BY DEF mark_order_delivered, End
<1>2. \A p \in Orders : earned[p] # NoRider => earned'[p] = earned[p]
  BY <1>0, <1>1 DEF TypeOK
<1>3. EarningsAfter(r) = EarningsOf(r) \cup {o} /\ o \notin EarningsOf(r)
  BY <1>0, <1>1, StoreAssumption DEF EarningsOf, EarningsAfter, TypeOK
<1>4. Cardinality(EarningsAfter(r)) = Cardinality(EarningsOf(r)) + 1
  BY <1>3, EarningsCounted, FS_AddElement
<1>5. DeliveriesWithinLedger'
  <2> SUFFICES ASSUME NEW x \in Riders
               PROVE  deliveries'[x] <= Cardinality(EarningsAfter(x))
    BY DEF DeliveriesWithinLedger, EarningsOf, EarningsAfter
  <2>1. CASE x = r
    <3>1. deliveries'[r] = txn[s].done + 1
      BY <1>0, <1>1 DEF TypeOK
    <3>2. txn[s].done <= Cardinality(EarningsOf(r))
      BY <1>0 DEF LedgerInv
    <3> QED
      BY <1>0, <1>4, <2>1, <3>1, <3>2, EarningsCounted
  <2>2. CASE x # r
    <3>1. deliveries'[x] = deliveries[x] /\ deliveries[x] \in Nat
      BY <1>0, <1>1, <2>2 DEF TypeOK
    <3>2. deliveries[x] <= Cardinality(EarningsOf(x))
      BY DEF LedgerInv, DeliveriesWithinLedger
    <3> QED
      BY <1>2, <3>1, <3>2, EarningsOnlyGrow
  <2> QED
    BY <2>1, <2>2
<1>6. ASSUME NEW q \in Sessions, txn'[q].op = "deliver"
      PROVE  txn'[q].done <= Cardinality(EarningsAfter(txn'[q].rider))
  <2>1. txn'[q] = txn[q]
    BY <1>0, <1>1, <1>6 DEF TypeOK, Idle
  <2>2. txn[q].rider \in Riders /\ txn[q].done \in Nat
    BY <1>0, <1>6, <2>1 DEF LedgerInv, JourneyInv, StageSessionOK, TypeOK, Session
  <2>3. txn[q].done <= Cardinality(EarningsOf(txn[q].rider))
    BY <1>6, <2>1 DEF LedgerInv
  <2> QED
    BY <1>2, <2>1, <2>2, <2>3, EarningsOnlyGrow
<1> QED
  BY <1>0, <1>5, <1>6 DEF LedgerInv, EarningsOf, EarningsAfter

(* The other commits and the rollbacks end a session and write neither. *)
LEMMA FinishKeepsLedger ==
    ASSUME LedgerInv, JourneyInv', NEW s \in Sessions,
           Finish(s) \/ CrashAfterRefund(s) \/ Crash(s)
    PROVE  LedgerInv'
<1> USE DEF riderCols
<1>0. TypeOK
  BY DEF LedgerInv, JourneyInv
<1>1. CASE mark_order_delivered(s)
  BY <1>1, DeliveryKeepsLedger
<1>2. ASSUME End(s), UNCHANGED <<deliveries, earned>> PROVE LedgerInv'
  <2>1. DeliverSessionOK(Idle)
    BY DEF DeliverSessionOK, Idle
  <2>2. \A q \in Sessions : txn'[q] = txn[q] \/ DeliverSessionOK(txn'[q])
    BY <1>0, <1>2, <2>1 DEF End, TypeOK
  <2> QED
    BY <1>2, <2>2, LedgerUntouched
<1>3. CASE \/ \E z \in RzpIds : InitiateCommit(s, z)
           \/ CapturedCommit(s) \/ ShortCommit(s) \/ FailedCommit(s)
  BY <1>2, <1>3 DEF InitiateCommit, CapturedCommit, ShortCommit, FailedCommit
<1>4. CASE \/ accept_order(s) \/ change_order_status_to_preparing(s)
           \/ change_order_status_to_ready_for_pickup(s)
  BY <1>2, <1>4 DEF accept_order, change_order_status_to_preparing,
                    change_order_status_to_ready_for_pickup
<1>5. CASE reject_order(s) \/ TimeoutUnpaid(s) \/ TimeoutUnanswered(s)
  BY <1>2, <1>5 DEF reject_order, TimeoutUnpaid, TimeoutUnanswered
<1>6. CASE RefundAborts(s) \/ CrashAfterRefund(s) \/ Crash(s)
  BY <1>2, <1>6 DEF RefundAborts, CrashAfterRefund, Crash
<1>7. CASE \/ toggle_rider_online_status(s) \/ assign_rider_to_order(s)
           \/ AssignConflict(s) \/ mark_order_picked_up(s) \/ AlreadyEarned(s)
  BY <1>2, <1>7 DEF toggle_rider_online_status, assign_rider_to_order, AssignConflict,
                    mark_order_picked_up, AlreadyEarned
<1> QED
  BY <1>1, <1>3, <1>4, <1>5, <1>6, <1>7 DEF Finish

LEMMA NextKeepsLedger ==
    ASSUME LedgerInv, [Next]_vars
    PROVE  LedgerInv'
<1>0. JourneyInv'
  BY NextKeepsJourney DEF LedgerInv
<1>1. CASE UNCHANGED <<deliveries, earned, txn>>
  BY <1>0, <1>1, LedgerUntouched
<1>2. CASE UNCHANGED vars
  BY <1>1, <1>2 DEF vars, riderCols
<1>3. CASE Checkout \/ Razorpay
  BY <1>1, <1>3 DEF Checkout, Razorpay, create_order_from_cart, CustomerPays,
                    PaymentAttemptFails, riderCols
<1>4. CASE Arrival
  BY <1>0, <1>4, ArrivalKeepsLedger
<1>5. ASSUME NEW s \in Sessions, Finish(s) \/ CrashAfterRefund(s) \/ Crash(s)
      PROVE  LedgerInv'
  BY <1>0, <1>5, FinishKeepsLedger
<1> QED
  BY <1>2, <1>3, <1>4, <1>5 DEF Next

(* The increment of total_deliveries is a read-modify-write that may lose  *)
(* an update, but it is committed with an earning whose order_id is        *)
(* UNIQUE, so the count never exceeds the rider's earnings.                *)
THEOREM CountWithinLedger == Spec => []DeliveriesWithinLedger
<1>1. Init => LedgerInv
  <2> SUFFICES ASSUME Init PROVE LedgerInv
    OBVIOUS
  <2>1. \A r : Cardinality(EarningsOf(r)) \in Nat
    BY EarningsCounted
  <2>2. DeliveriesWithinLedger
    BY <2>1 DEF Init, DeliveriesWithinLedger
  <2> QED
    BY <2>2, InitJourney DEF Init, LedgerInv, Idle
<1>2. LedgerInv /\ [Next]_vars => LedgerInv'
  BY NextKeepsLedger
<1>3. LedgerInv => DeliveriesWithinLedger
  BY DEF LedgerInv
<1> QED
  BY <1>1, <1>2, <1>3, PTL DEF Spec

-----------------------------------------------------------------------------
(* One session at a time. *)

(* A step of a session ends it: with one session nothing is remembered.    *)
LEMMA AloneAtTheEnd ==
    ASSUME OneSession, TypeOK, NEW s \in Sessions, End(s)
    PROVE  \A q \in Sessions : Stands(txn[q])'
<1>1. \A q \in Sessions : txn'[q] = Idle
  BY DEF OneSession, End, TypeOK
<1>2. \A q \in Sessions : txn'[q].op = "idle"
  BY <1>1 DEF Idle
<1> QED
  BY <1>2 DEF Stands, Checks

(* What an arriving request has read is what the rows say. *)
LEMMA ArrivalReadsRows ==
    ASSUME JourneyInv, Arrival
    PROVE  \A q \in Sessions : txn'[q] = txn[q] \/ Stands(txn'[q])
<1> USE DEF Begin
<1>0. TypeOK
  BY DEF JourneyInv
<1>1. ASSUME NEW s \in Sessions, NEW rec, txn' = [txn EXCEPT ![s] = rec], Stands(rec)
      PROVE  \A q \in Sessions : txn'[q] = txn[q] \/ Stands(txn'[q])
  BY <1>0, <1>1 DEF TypeOK
<1>2. ASSUME NEW op, NEW o
      PROVE  /\ Touch(op, o).op = op /\ Touch(op, o).order = o
             /\ OrderAndPayment(op, o).op = op /\ OrderAndPayment(op, o).order = o
             /\ OrderAndPayment(op, o).status = status[o] /\ OrderAndPayment(op, o).why = reason[o]
             /\ OrderAndPayment(op, o).pay = payStatus[o]
  BY DEF Touch, OrderAndPayment, Idle
<1>3. DOMAIN Checks = {"accept", "reject", "preparing", "ready"}
  BY DEF Checks
<1>4. ASSUME NEW s \in Sessions, NEW z \in RzpIds, NEW o \in Orders, CapturedRead(s, z, o)
      PROVE  \A q \in Sessions : txn'[q] = txn[q] \/ Stands(txn'[q])
  <2> DEFINE op == IF rzpState[z] = "paid" THEN "captured" ELSE "short"
             rec == [OrderAndPayment(op, o) EXCEPT !.rzp = z]
  <2>1. /\ rec.op \in {"captured", "short"} /\ rec.order = o
        /\ rec.status = status[o] /\ rec.why = reason[o] /\ rec.pay = payStatus[o]
    BY DEF OrderAndPayment, Touch, Idle
  <2>2. txn' = [txn EXCEPT ![s] = rec] /\ payStatus[o] # "PAID"
    BY <1>4 DEF CapturedRead
  <2> HIDE DEF rec
  <2>3. Stands(rec)
    BY <1>3, <2>1, <2>2 DEF Stands
  <2> QED
    BY <1>1, <2>2, <2>3
<1>5. ASSUME NEW s \in Sessions, NEW z \in RzpIds, NEW o \in Orders, FailedRead(s, z, o)
      PROVE  \A q \in Sessions : txn'[q] = txn[q] \/ Stands(txn'[q])
  <2>1. Stands(Touch("failed", o))
    BY <1>2, <1>3, <1>5 DEF FailedRead, Stands
  <2> QED
    BY <1>1, <1>5, <2>1 DEF FailedRead
<1>6. ASSUME NEW s \in Sessions, NEW o \in Orders, InitiateRead(s, o)
      PROVE  \A q \in Sessions : txn'[q] = txn[q] \/ Stands(txn'[q])
  <2>1. Stands(Touch("initiate", o))
    BY <1>2, <1>3 DEF Stands
  <2> QED
    BY <1>1, <1>6, <2>1 DEF InitiateRead
<1>7. ASSUME NEW s \in Sessions, NEW op \in DOMAIN Checks, NEW o \in Orders,
             RestaurantRead(s, op, o)
      PROVE  \A q \in Sessions : txn'[q] = txn[q] \/ Stands(txn'[q])
  <2>1. status[o] = Checks[op] /\ op \in {"accept", "reject", "preparing", "ready"}
    BY <1>3, <1>7 DEF RestaurantRead
  <2>2. Stands(OrderAndPayment(op, o)) /\ (op # "reject" => Stands(Touch(op, o)))
    BY <1>2, <1>3, <2>1 DEF Stands
  <2>3. txn' = [txn EXCEPT ![s] = IF op = "reject" THEN OrderAndPayment(op, o) ELSE Touch(op, o)]
    BY <1>7 DEF RestaurantRead
  <2> QED
    BY <1>1, <2>2, <2>3
<1>8. ASSUME NEW s \in Sessions, NEW r \in Riders, GoOnlineRead(s, r) \/ GoOfflineRead(s, r)
      PROVE  \A q \in Sessions : txn'[q] = txn[q] \/ Stands(txn'[q])
  <2>1. /\ RiderRow("online", r).op = "online" /\ RiderRow("offline", r).op = "offline"
    BY DEF RiderRow, Idle
  <2>2. Stands(RiderRow("online", r)) /\ Stands(RiderRow("offline", r))
    BY <1>3, <2>1 DEF Stands
  <2> QED
    BY <1>1, <1>8, <2>2 DEF GoOnlineRead, GoOfflineRead
<1>9. ASSUME NEW s \in Sessions, NEW r \in Riders, NEW o \in Orders,
             AssignRead(s, r, o) \/ PickupRead(s, r, o)
      PROVE  \A q \in Sessions : txn'[q] = txn[q] \/ Stands(txn'[q])
  <2> DEFINE a == [Touch("assign", o) EXCEPT !.rider = r]
             p == [Touch("pickup", o) EXCEPT !.rider = r]
  <2>1. a.op = "assign" /\ p.op = "pickup" /\ p.order = o
    BY DEF Touch, Idle
  <2>2. /\ AssignRead(s, r, o) => txn' = [txn EXCEPT ![s] = a]
        /\ PickupRead(s, r, o) => txn' = [txn EXCEPT ![s] = p] /\ status[o] \in ActiveDelivery
    BY DEF AssignRead, PickupRead, ActiveDelivery
  <2> HIDE DEF a, p
  <2>3. Stands(a) /\ (status[o] \in ActiveDelivery => Stands(p))
    BY <1>3, <2>1 DEF Stands
  <2> QED
    BY <1>1, <1>9, <2>2, <2>3
<1>10. ASSUME NEW s \in Sessions, NEW r \in Riders, NEW o \in Orders, DeliverRead(s, r, o)
       PROVE  \A q \in Sessions : txn'[q] = txn[q] \/ Stands(txn'[q])
  <2> DEFINE rec == [Touch("deliver", o) EXCEPT !.rider = r, !.pay = payStatus[o],
                                       !.avail = available[r], !.done = deliveries[r]]
  <2>1. rec.op = "deliver" /\ rec.order = o /\ rec.rider = r /\ rec.done = deliveries[r]
    BY DEF Touch, Idle
  <2>2. txn' = [txn EXCEPT ![s] = rec] /\ status[o] \in ActiveDelivery
    BY <1>10 DEF DeliverRead, ActiveDelivery
  <2> HIDE DEF rec
  <2>3. Stands(rec)
    BY <1>3, <2>1, <2>2 DEF Stands
  <2> QED
    BY <1>1, <2>2, <2>3
<1>11. ASSUME NEW o \in Orders, ResponseTimeout(o)
       PROVE  \A q \in Sessions : txn'[q] = txn[q] \/ Stands(txn'[q])
  <2>1. CASE TimeoutTooLate(o)
    BY <2>1 DEF TimeoutTooLate
  <2>2. ASSUME NEW s \in Sessions, TimeoutRead(s, o)
        PROVE  \A q \in Sessions : txn'[q] = txn[q] \/ Stands(txn'[q])
    <3>1. Stands(OrderAndPayment("timeout", o))
      BY <1>2, <1>3 DEF Stands
    <3> QED
      BY <1>1, <2>2, <3>1 DEF TimeoutRead
  <2> QED
    BY <1>11, <2>1, <2>2 DEF ResponseTimeout
<1>12. ASSUME NEW o \in Orders, check_rider_assignment_timeout(o)
       PROVE  \A q \in Sessions : txn'[q] = txn[q] \/ Stands(txn'[q])
  BY <1>12 DEF check_rider_assignment_timeout
<1> QED
  BY <1>4, <1>5, <1>6, <1>7, <1>8, <1>9, <1>10, <1>11, <1>12
  DEF Arrival, WebhookArrives, RestaurantArrives, RiderArrives

(* What one session alone never does to the rows. *)
SerialStep == \A o \in Orders : payStatus[o] = "PAID" => payStatus'[o] # "FAILED"

LEMMA RowsStand ==
    ASSUME SerialInv, JourneyInv',
           UNCHANGED <<status, reason, payStatus, deliveries, earned>>,
           \A q \in Sessions : txn'[q] = txn[q] \/ Stands(txn'[q])
    PROVE  SerialInv' /\ SerialStep
<1> USE DEF SerialInv
<1>1. UNCHANGED <<status, reason, payStatus, deliveries, earned>>
  OBVIOUS
<1>2. \A q \in Sessions : Stands(txn'[q])
  OBVIOUS
<1>3. \A q \in Sessions : Stands(txn[q])'
  BY <1>1, <1>2 DEF Stands
<1>4. (AwaitingIsUnpaid /\ UnpaidHoldsNoMoney /\ DeliveriesAreCounted)'
  BY <1>1 DEF AwaitingIsUnpaid, UnpaidHoldsNoMoney, DeliveriesAreCounted, EarningsOf
<1>5. SerialStep
  BY <1>1 DEF SerialStep
<1> QED
  BY <1>3, <1>4, <1>5

(* A checkout writes an order nobody has read yet. *)
LEMMA CheckoutStands ==
    ASSUME SerialInv, JourneyInv', NEW o \in Orders, NEW m \in Methods, create_order_from_cart(o, m)
    PROVE  SerialInv' /\ SerialStep
<1> USE DEF SerialInv, JourneyInv
<1>1. /\ status[o] = "NONE" /\ payStatus' = [payStatus EXCEPT ![o] = "PENDING"]
      /\ status' = [status EXCEPT ![o] = IF m = "COD" THEN "PLACED" ELSE "AWAITING_PAYMENT"]
      /\ UNCHANGED <<reason, deliveries, earned, txn>>
  BY DEF create_order_from_cart, riderCols
<1>2. /\ status'[o] \in {"PLACED", "AWAITING_PAYMENT"} /\ payStatus'[o] = "PENDING"
      /\ \A p \in Orders \ {o} : status'[p] = status[p] /\ payStatus'[p] = payStatus[p]
  BY <1>1 DEF TypeOK
<1>3. \A q \in Sessions : txn[q].order # o
  BY <1>1 DEF StageSessionOK
<1>5. ASSUME NEW q \in Sessions PROVE Stands(txn[q])'
  <2>1. txn'[q] = txn[q] /\ Stands(txn[q])
    BY <1>1
  <2>2. txn[q].op \in OrderOps => txn[q].order \in Orders \ {o}
    BY <1>3 DEF StageSessionOK
  <2>3. DOMAIN Checks \subseteq OrderOps /\ {"failed", "captured", "short", "reject", "timeout", "pickup", "deliver"}
                                            \subseteq OrderOps
    BY DEF Checks, OrderOps, SessionOps
  <2>4. txn[q].op \in OrderOps => /\ status'[txn[q].order] = status[txn[q].order]
                                 /\ payStatus'[txn[q].order] = payStatus[txn[q].order]
    BY <1>2, <2>2
  <2>5. /\ txn[q].op = "failed" => payStatus'[txn[q].order] = "PENDING"
        /\ txn[q].op \in {"captured", "short"} =>
              txn[q].pay = payStatus'[txn[q].order] /\ txn[q].pay # "PAID"
    BY <2>1, <2>3, <2>4 DEF Stands
  <2>6. /\ txn[q].op \in {"captured", "reject", "timeout"} =>
              txn[q].status = status'[txn[q].order] /\ txn[q].why = reason[txn[q].order]
        /\ txn[q].op \in DOMAIN Checks => status'[txn[q].order] = Checks[txn[q].op]
    BY <2>1, <2>3, <2>4 DEF Stands
  <2>7. /\ txn[q].op = "deliver" => txn[q].done = deliveries[txn[q].rider]
        /\ txn[q].op \in {"pickup", "deliver"} => status'[txn[q].order] \in ActiveDelivery
    BY <1>1, <2>1, <2>3, <2>4 DEF Stands
  <2>8. Checks' = Checks
    BY DEF Checks
  <2> QED
    BY <1>1, <2>1, <2>5, <2>6, <2>7, <2>8 DEF Stands
<1>6. AwaitingIsUnpaid' /\ UnpaidHoldsNoMoney' /\ DeliveriesAreCounted'
  <2>1. AwaitingIsUnpaid'
    BY <1>2 DEF AwaitingIsUnpaid
  <2>2. UnpaidHoldsNoMoney'
    BY <1>1, <1>2 DEF UnpaidHoldsNoMoney
  <2>3. DeliveriesAreCounted'
    BY <1>1 DEF DeliveriesAreCounted, EarningsOf
  <2> QED
    BY <2>1, <2>2, <2>3
<1>7. SerialStep
  BY <1>2 DEF SerialStep
<1> QED
  BY <1>5, <1>6, <1>7

(* What a commit has to keep: nobody is left to remember anything. *)
RowsOfOne == AwaitingIsUnpaid /\ UnpaidHoldsNoMoney /\ DeliveriesAreCounted

(* An order enters a stage, or is captured or delivered with it. *)
LEMMA StageStands ==
    ASSUME SerialInv, NEW o \in Orders, NEW st \in Stages,
           status' = [status EXCEPT ![o] = st],
           payStatus' \in [Orders -> PaymentStatus \cup {"NONE"}],
           \A p \in Orders \ {o} : payStatus'[p] = payStatus[p],
           payStatus[o] = "PAID" => payStatus'[o] # "FAILED",
           UNCHANGED reason
    PROVE  AwaitingIsUnpaid' /\ UnpaidHoldsNoMoney' /\ SerialStep
<1>1. /\ status'[o] = st /\ st # "AWAITING_PAYMENT" /\ st # "CANCELLED"
      /\ \A p \in Orders \ {o} : status'[p] = status[p]
  BY DEF SerialInv, JourneyInv, TypeOK, Stages
<1>2. AwaitingIsUnpaid' /\ UnpaidHoldsNoMoney'
  BY <1>1 DEF SerialInv, AwaitingIsUnpaid, UnpaidHoldsNoMoney
<1>3. SerialStep
  BY DEF SerialStep
<1> QED
  BY <1>2, <1>3

LEMMA StagesStand ==
    ASSUME SerialInv, NEW s \in Sessions,
           \/ accept_order(s) \/ change_order_status_to_preparing(s)
           \/ change_order_status_to_ready_for_pickup(s)
           \/ assign_rider_to_order(s) \/ mark_order_picked_up(s)
    PROVE  RowsOfOne' /\ SerialStep
<1> DEFINE o == txn[s].order
<1> USE DEF SerialInv, JourneyInv
<1>1. ASSUME NEW p \in Orders, NEW st \in Stages, status' = [status EXCEPT ![p] = st],
             UNCHANGED <<reason, payStatus, deliveries, earned>>
      PROVE  RowsOfOne' /\ SerialStep
  <2>1. AwaitingIsUnpaid' /\ UnpaidHoldsNoMoney' /\ SerialStep
    BY <1>1, StageStands DEF TypeOK
  <2>2. DeliveriesAreCounted'
    BY <1>1 DEF DeliveriesAreCounted, EarningsOf
  <2> QED
    BY <2>1, <2>2 DEF RowsOfOne
<1>2. txn[s].op \in {"accept", "preparing", "ready", "assign", "pickup"} => o \in Orders
  BY DEF StageSessionOK, OrderOps, SessionOps
<1>3. {"CONFIRMED", "PREPARING", "READY_FOR_PICKUP", "RIDER_ASSIGNED", "OUT_FOR_DELIVERY"} \subseteq Stages
  BY DEF Stages
<1>4. CASE accept_order(s)
  BY <1>1, <1>2, <1>3, <1>4 DEF accept_order, EnterStage, Writes, payCols, riderCols
<1>5. CASE change_order_status_to_preparing(s)
  BY <1>1, <1>2, <1>3, <1>5 DEF change_order_status_to_preparing, EnterStage, Writes, payCols, riderCols
<1>6. CASE change_order_status_to_ready_for_pickup(s)
  BY <1>1, <1>2, <1>3, <1>6 DEF change_order_status_to_ready_for_pickup, EnterStage, Writes, payCols,
     riderCols
<1>7. CASE assign_rider_to_order(s)
  BY <1>1, <1>2, <1>3, <1>7 DEF assign_rider_to_order, payCols
<1>8. CASE mark_order_picked_up(s)
  BY <1>1, <1>2, <1>3, <1>8 DEF mark_order_picked_up, payCols, riderCols
<1> QED
  BY <1>4, <1>5, <1>6, <1>7, <1>8

(* The cash and the counter: the count that was read is the count. *)
LEMMA DeliveryStands ==
    ASSUME SerialInv, JourneyInv', NEW s \in Sessions, mark_order_delivered(s)
    PROVE  RowsOfOne' /\ SerialStep
<1> DEFINE o == txn[s].order
           w == txn[s].rider
<1>0. TypeOK /\ o \in Orders /\ w \in Riders /\ txn[s].op = "deliver" /\ txn[s].done = deliveries[w]
  BY DEF SerialInv, JourneyInv, StageSessionOK, OrderOps, SessionOps, mark_order_delivered, Stands
<1>1. /\ earned[o] = NoRider /\ earned' = [earned EXCEPT ![o] = w]
      /\ deliveries' = [deliveries EXCEPT ![w] = deliveries[w] + 1]
      /\ status' = [status EXCEPT ![o] = "DELIVERED"]
      /\ payStatus' = [payStatus EXCEPT ![o] = IF method[o] = "COD" THEN Flush(@, txn[s].pay, "PAID") ELSE @]
      /\ UNCHANGED reason
  BY <1>0 DEF mark_order_delivered
<1>2. AwaitingIsUnpaid' /\ UnpaidHoldsNoMoney' /\ SerialStep
  <2>1. /\ payStatus' \in [Orders -> PaymentStatus \cup {"NONE"}]
        /\ \A p \in Orders \ {o} : payStatus'[p] = payStatus[p]
        /\ payStatus[o] = "PAID" => payStatus'[o] # "FAILED"
    BY <1>0, <1>1 DEF TypeOK, Flush, PaymentStatus
  <2>2. "DELIVERED" \in Stages
    BY DEF Stages
  <2> QED
    BY <1>0, <1>1, <2>1, <2>2, StageStands
<1>3. DeliveriesAreCounted'
  <2> SUFFICES ASSUME NEW x \in Riders
               PROVE  deliveries'[x] = Cardinality(EarningsAfter(x))
    BY DEF DeliveriesAreCounted, EarningsOf, EarningsAfter
  <2>1. deliveries[x] = Cardinality(EarningsOf(x))
    BY DEF SerialInv, DeliveriesAreCounted
  <2>2. CASE x = w
    <3>1. EarningsAfter(x) = EarningsOf(x) \cup {o} /\ o \notin EarningsOf(x)
      BY <1>0, <1>1, <2>2, StoreAssumption DEF EarningsOf, EarningsAfter, TypeOK
    <3>2. Cardinality(EarningsAfter(x)) = Cardinality(EarningsOf(x)) + 1
      BY <3>1, EarningsCounted, FS_AddElement
    <3>3. deliveries'[x] = deliveries[x] + 1
      BY <1>0, <1>1, <2>2 DEF TypeOK
    <3> QED
      BY <2>1, <3>2, <3>3
  <2>3. CASE x # w
    <3>1. EarningsAfter(x) = EarningsOf(x)
      BY <1>0, <1>1, <2>3, StoreAssumption DEF EarningsOf, EarningsAfter, TypeOK
    <3>2. deliveries'[x] = deliveries[x]
      BY <1>0, <1>1, <2>3 DEF TypeOK
    <3> QED
      BY <2>1, <3>1, <3>2
  <2> QED
    BY <2>2, <2>3
<1> QED
  BY <1>2, <1>3 DEF RowsOfOne

(* The webhook writes what it read as not PAID, a capture with its stage. *)
LEMMA WebhookStands ==
    ASSUME SerialInv, NEW s \in Sessions, CapturedCommit(s) \/ ShortCommit(s) \/ FailedCommit(s)
    PROVE  RowsOfOne' /\ SerialStep
<1> DEFINE o == txn[s].order
<1>0. /\ TypeOK /\ Stands(txn[s]) /\ AwaitingIsUnpaid /\ UnpaidHoldsNoMoney
      /\ txn[s].op \in {"captured", "short", "failed"} => o \in Orders
  BY DEF SerialInv, JourneyInv, StageSessionOK, OrderOps, SessionOps
<1>1. UNCHANGED <<deliveries, earned, reason>>
  BY DEF CapturedCommit, ShortCommit, FailedCommit, riderCols, orderCols
<1>2. DeliveriesAreCounted'
  BY <1>1 DEF SerialInv, DeliveriesAreCounted, EarningsOf
<1>3. CASE CapturedCommit(s)
  <2>1. o \in Orders /\ txn[s].status = status[o] /\ payStatus' = [payStatus EXCEPT ![o] = "PAID"]
    BY <1>0, <1>3 DEF CapturedCommit, Stands
  <2>2. status' = [status EXCEPT ![o] = "PLACED"]
    BY <1>0, <1>3, <2>1 DEF CapturedCommit, Flush, TypeOK
  <2>3. /\ payStatus' \in [Orders -> PaymentStatus \cup {"NONE"}] /\ payStatus'[o] # "FAILED"
        /\ \A p \in Orders \ {o} : payStatus'[p] = payStatus[p]
    BY <1>0, <2>1 DEF TypeOK, PaymentStatus
  <2>4. "PLACED" \in Stages
    BY DEF Stages
  <2> QED
    BY <1>1, <1>2, <2>1, <2>2, <2>3, <2>4, StageStands DEF RowsOfOne
<1>4. CASE ShortCommit(s) \/ FailedCommit(s)
  <2>1. o \in Orders /\ payStatus[o] # "PAID" /\ status' = status
    BY <1>0, <1>4 DEF ShortCommit, FailedCommit, Stands, orderCols
  <2>2. payStatus'[o] = "FAILED" /\ \A p \in Orders \ {o} : payStatus'[p] = payStatus[p]
    BY <1>0, <1>4, <2>1 DEF ShortCommit, FailedCommit, Stands, Flush, TypeOK
  <2>3. \A p \in Orders : payStatus'[p] = "PAID" => payStatus[p] = "PAID"
    BY <2>2
  <2>4. AwaitingIsUnpaid' /\ UnpaidHoldsNoMoney'
    BY <1>0, <1>1, <2>1, <2>3 DEF AwaitingIsUnpaid, UnpaidHoldsNoMoney
  <2>5. SerialStep
    BY <2>1, <2>2 DEF SerialStep
  <2> QED
    BY <1>2, <2>4, <2>5 DEF RowsOfOne
<1> QED
  BY <1>3, <1>4

(* A cancellation: of an unpaid order for want of payment, or of a placed  *)
(* one, whose reason is then another.                                      *)
LEMMA CancelStands ==
    ASSUME SerialInv, NEW s \in Sessions, reject_order(s) \/ TimeoutUnpaid(s) \/ TimeoutUnanswered(s)
    PROVE  RowsOfOne' /\ SerialStep
<1> DEFINE t == txn[s]
           o == t.order
<1>0. /\ TypeOK /\ Stands(t) /\ AwaitingIsUnpaid /\ UnpaidHoldsNoMoney
      /\ t.op \in {"reject", "timeout"} => o \in Orders
  BY DEF SerialInv, JourneyInv, StageSessionOK, OrderOps, SessionOps
<1>1. UNCHANGED <<deliveries, earned>>
  BY DEF reject_order, TimeoutUnpaid, TimeoutUnanswered, riderCols
<1>2. DeliveriesAreCounted'
  BY <1>1 DEF SerialInv, DeliveriesAreCounted, EarningsOf
<1>3. /\ t.op \in {"reject", "timeout"} /\ o \in Orders
      /\ t.status = status[o] /\ t.why = reason[o]
      /\ t.op = "reject" => status[o] = "PLACED"
  BY <1>0 DEF reject_order, TimeoutUnpaid, TimeoutUnanswered, Stands, Checks
<1>4. /\ status' = [status EXCEPT ![o] = "CANCELLED"]
      /\ \E why \in CancellationReason : reason' = [reason EXCEPT ![o] = Flush(@, t.why, why)]
  BY DEF reject_order, TimeoutUnpaid, TimeoutUnanswered, Cancel, CancellationReason
<1>5. /\ status'[o] = "CANCELLED"
      /\ \A p \in Orders \ {o} : status'[p] = status[p] /\ reason'[p] = reason[p]
  BY <1>0, <1>3, <1>4 DEF TypeOK
<1>6. /\ \A p \in Orders : payStatus'[p] = "PAID" => payStatus[p] = "PAID"
      /\ \A p \in Orders : payStatus'[p] = "FAILED" => payStatus[p] = "FAILED"
  <2>1. CASE payStatus' = payStatus
    BY <2>1
  <2>2. CASE \E x \in {"REFUNDED", "REFUND_PENDING"} : payStatus' = [payStatus EXCEPT ![o] = x]
    BY <1>0, <2>2 DEF TypeOK
  <2> QED
    BY <2>1, <2>2 DEF reject_order, TimeoutUnpaid, TimeoutUnanswered, initiate_refund, payCols
<1>7. AwaitingIsUnpaid'
  BY <1>0, <1>5, <1>6 DEF AwaitingIsUnpaid
<1>8. SerialStep
  BY <1>6 DEF SerialStep
<1>9. UnpaidHoldsNoMoney'
  <2> SUFFICES ASSUME status'[o] = "CANCELLED", reason'[o] = "PAYMENT_FAILED"
               PROVE  payStatus'[o] # "PAID"
    BY <1>0, <1>5, <1>6 DEF UnpaidHoldsNoMoney
  <2>1. CASE TimeoutUnpaid(s)
    BY <1>0, <1>3, <1>6, <2>1 DEF TimeoutUnpaid, AwaitingIsUnpaid
  <2>2. CASE reject_order(s)
    <3>1. reason' = [reason EXCEPT ![o] = "RESTAURANT_REJECTED"]
      BY <1>0, <1>3, <2>2 DEF reject_order, Cancel, Flush, TypeOK
    <3> QED
      BY <1>0, <1>3, <3>1 DEF TypeOK
  <2>3. CASE TimeoutUnanswered(s)
    <3>1. reason' = [reason EXCEPT ![o] = "RESTAURANT_TIMEOUT"]
      BY <1>0, <1>3, <2>3 DEF TimeoutUnanswered, Cancel, Flush, TypeOK
    <3> QED
      BY <1>0, <1>3, <3>1 DEF TypeOK
  <2> QED
    BY <2>1, <2>2, <2>3
<1> QED
  BY <1>2, <1>7, <1>8, <1>9 DEF RowsOfOne

(* A session that ends writing none of the columns Stands and the claims   *)
(* speak of.                                                               *)
LEMMA EndStands ==
    ASSUME SerialInv, JourneyInv', OneSession, NEW s \in Sessions, End(s),
           UNCHANGED <<status, reason, payStatus, deliveries, earned>>
    PROVE  SerialInv' /\ SerialStep
<1>1. TypeOK /\ Stands(Idle)
  BY DEF SerialInv, JourneyInv, Stands, Checks, Idle
<1>2. \A q \in Sessions : txn'[q] = txn[q] \/ Stands(txn'[q])
  BY <1>1 DEF End, TypeOK
<1> QED
  BY <1>2, RowsStand

LEMMA FinishStands ==
    ASSUME SerialInv, JourneyInv', OneSession, NEW s \in Sessions,
           Finish(s) \/ CrashAfterRefund(s) \/ Crash(s)
    PROVE  SerialInv' /\ SerialStep
<1>0. TypeOK
  BY DEF SerialInv, JourneyInv
<1>1. ASSUME End(s), RowsOfOne' /\ SerialStep PROVE SerialInv' /\ SerialStep
  <2>1. \A q \in Sessions : Stands(txn[q])'
    BY <1>0, <1>1, AloneAtTheEnd
  <2> QED
    BY <1>1, <2>1 DEF RowsOfOne, SerialInv
<1>2. CASE \/ accept_order(s) \/ change_order_status_to_preparing(s)
           \/ change_order_status_to_ready_for_pickup(s)
           \/ assign_rider_to_order(s) \/ mark_order_picked_up(s)
  BY <1>1, <1>2, StagesStand
  DEF accept_order, change_order_status_to_preparing, change_order_status_to_ready_for_pickup,
      assign_rider_to_order, mark_order_picked_up
<1>3. CASE mark_order_delivered(s)
  BY <1>1, <1>3, DeliveryStands DEF mark_order_delivered
<1>4. CASE CapturedCommit(s) \/ ShortCommit(s) \/ FailedCommit(s)
  BY <1>1, <1>4, WebhookStands DEF CapturedCommit, ShortCommit, FailedCommit
<1>5. CASE reject_order(s) \/ TimeoutUnpaid(s) \/ TimeoutUnanswered(s)
  BY <1>1, <1>5, CancelStands DEF reject_order, TimeoutUnpaid, TimeoutUnanswered
<1>6. CASE toggle_rider_online_status(s)
  BY <1>6, EndStands DEF toggle_rider_online_status, orderCols, payCols
<1>7. CASE \E z \in RzpIds : InitiateCommit(s, z)
  BY <1>7, EndStands DEF InitiateCommit, orderCols, riderCols
<1>8. CASE AssignConflict(s) \/ AlreadyEarned(s) \/ RefundAborts(s)
  BY <1>8, EndStands DEF AssignConflict, AlreadyEarned, RefundAborts, orderCols, payCols, riderCols
<1>9. CASE CrashAfterRefund(s) \/ Crash(s)
  BY <1>9, EndStands DEF CrashAfterRefund, Crash, orderCols, payCols, riderCols
<1> QED
  BY <1>2, <1>3, <1>4, <1>5, <1>6, <1>7, <1>8, <1>9 DEF Finish

LEMMA NextStands ==
    ASSUME OneSession, SerialInv, [Next]_vars
    PROVE  SerialInv' /\ SerialStep
<1>0. JourneyInv'
  BY NextKeepsJourney DEF SerialInv
<1>1. ASSUME UNCHANGED <<status, reason, payStatus, deliveries, earned, txn>>
      PROVE  SerialInv' /\ SerialStep
  <2>1. \A q \in Sessions : txn'[q] = txn[q]
    BY <1>1
  <2> QED
    BY <1>0, <1>1, <2>1, RowsStand
<1>2. CASE UNCHANGED vars
  BY <1>1, <1>2 DEF vars, orderCols, payCols, riderCols
<1>3. CASE Razorpay
  BY <1>1, <1>3 DEF Razorpay, CustomerPays, PaymentAttemptFails, orderCols, payCols, riderCols
<1>4. CASE Checkout
  BY <1>0, <1>4, CheckoutStands DEF Checkout
<1>5. CASE Arrival
  <2>1. UNCHANGED <<status, reason, payStatus, deliveries, earned>>
    BY <1>5, ArrivalWritesNoRow DEF orderCols, payCols, riderCols
  <2>2. \A q \in Sessions : txn'[q] = txn[q] \/ Stands(txn'[q])
    BY <1>5, ArrivalReadsRows DEF SerialInv
  <2> QED
    BY <1>0, <2>1, <2>2, RowsStand
<1>6. ASSUME NEW s \in Sessions, Finish(s) \/ CrashAfterRefund(s) \/ Crash(s)
      PROVE  SerialInv' /\ SerialStep
  BY <1>0, <1>6, FinishStands
<1> QED
  BY <1>2, <1>3, <1>4, <1>5, <1>6 DEF Next

LEMMA InitStands == Init => SerialInv
<1> SUFFICES ASSUME Init PROVE SerialInv
  OBVIOUS
<1>1. \A s \in Sessions : Stands(txn[s])
  BY DEF Init, Stands, Checks, Idle
<1>2. AwaitingIsUnpaid /\ UnpaidHoldsNoMoney
  BY DEF Init, AwaitingIsUnpaid, UnpaidHoldsNoMoney
<1>3. ASSUME NEW r \in Riders PROVE deliveries[r] = Cardinality(EarningsOf(r))
  <2>1. EarningsOf(r) = {} /\ deliveries[r] = 0
    BY StoreAssumption DEF Init, EarningsOf
  <2> QED
    BY <2>1, FS_EmptySet
<1> QED
  BY <1>1, <1>2, <1>3, InitJourney DEF SerialInv, DeliveriesAreCounted

(* What is read stands as long as nobody else commits: then the rows keep  *)
(* what the documentation says of them, however many requests, retries and *)
(* crashes there are, as long as they come one after the other.            *)
THEOREM ReadsStand == ASSUME OneSession PROVE Spec => []SerialInv
<1>1. SerialInv /\ [Next]_vars => SerialInv'
  BY NextStands
<1> QED
  BY <1>1, InitStands, PTL DEF Spec

(* orders/tasks.py:52 "no refund - nothing was ever captured": true of the *)
(* task that no webhook overlaps.                                          *)
THEOREM UnpaidIsUnpaid == ASSUME OneSession PROVE Spec => []UnpaidHoldsNoMoney
<1>1. SerialInv => UnpaidHoldsNoMoney
  BY DEF SerialInv
<1> QED
  BY <1>1, ReadsStand, PTL

(* riders/services.py:436: without overlaps no increment is lost and       *)
(* total_deliveries is exactly the number of the rider's earnings.         *)
THEOREM EveryDeliveryCounts == ASSUME OneSession PROVE Spec => []DeliveriesAreCounted
<1>1. SerialInv => DeliveriesAreCounted
  BY DEF SerialInv
<1> QED
  BY <1>1, ReadsStand, PTL

(* The webhook of an earlier failed attempt, or of a short one, leaves a   *)
(* captured payment alone when it is handled on its own.                   *)
THEOREM CaptureIsKept == ASSUME OneSession PROVE Spec => PaidIsNotFailed
<1>1. SerialInv /\ [Next]_vars =>
        [\A o \in Orders : payStatus[o] = "PAID" => payStatus'[o] # "FAILED"]_vars
  BY NextStands DEF SerialStep
<1> QED
  BY <1>1, ReadsStand, PTL DEF Spec, PaidIsNotFailed

-----------------------------------------------------------------------------
(* One session at a time: an order keeps its rider. *)

(* The order's row is one of those HeldInv allows. *)
RowHeld(o) ==
    /\ status[o] \in Stages /\ method[o] # "COD" => payStatus[o] = "PAID"
    /\ riderId[o] # NoRider => status[o] \in ActiveDelivery \cup {"DELIVERED"}

RowHeldNext(o) ==
    /\ status'[o] \in Stages /\ method'[o] # "COD" => payStatus'[o] = "PAID"
    /\ riderId'[o] # NoRider => status'[o] \in ActiveDelivery \cup {"DELIVERED"}

HeldStep == \A o \in Orders : riderId[o] # NoRider => riderId'[o] = riderId[o]

HeldCols == <<status, method, payStatus, riderId>>

LEMMA RowsHeld ==
    ASSUME HeldInv
    PROVE  \A o \in Orders : RowHeld(o)
BY DEF HeldInv, PlacedIsPaid, HeldIsUnderWay, RowHeld

(* A step that writes the row of one order. *)
LEMMA OneRowHeld ==
    ASSUME HeldInv, CashInv', SerialInv', NEW o \in Orders,
           \A p \in Orders \ {o} : /\ status'[p] = status[p] /\ method'[p] = method[p]
                                   /\ payStatus'[p] = payStatus[p] /\ riderId'[p] = riderId[p],
           riderId[o] # NoRider => riderId'[o] = riderId[o],
           RowHeldNext(o)
    PROVE  HeldInv' /\ HeldStep
<1>1. \A p \in Orders : RowHeldNext(p)
  BY RowsHeld DEF RowHeld, RowHeldNext
<1>2. PlacedIsPaid' /\ HeldIsUnderWay'
  BY <1>1 DEF RowHeldNext, PlacedIsPaid, HeldIsUnderWay
<1>3. HeldStep
  BY DEF HeldStep
<1> QED
  BY <1>2, <1>3 DEF HeldInv

LEMMA NoRowHeld ==
    ASSUME HeldInv, CashInv', SerialInv', UNCHANGED HeldCols
    PROVE  HeldInv' /\ HeldStep
BY DEF HeldInv, HeldCols, PlacedIsPaid, HeldIsUnderWay, HeldStep

(* The status moves between stages while no rider has the order yet, or,   *)
(* with the rider it has, along its delivery.                              *)
LEMMA StageIsHeld ==
    ASSUME HeldInv, CashInv', SerialInv', NEW o \in Orders, NEW st \in Stages,
           status[o] \in Stages, status' = [status EXCEPT ![o] = st],
           UNCHANGED <<method, payStatus, riderId>>,
           status[o] \in ActiveDelivery \cup {"DELIVERED"} => st \in ActiveDelivery
    PROVE  HeldInv' /\ HeldStep
<1>0. TypeOK
  BY DEF HeldInv, CashInv, JourneyInv
<1>1. status'[o] = st /\ \A p \in Orders \ {o} : status'[p] = status[p]
  BY <1>0 DEF TypeOK
<1>2. RowHeldNext(o)
  BY <1>1, RowsHeld DEF RowHeld, RowHeldNext
<1> QED
  BY <1>1, <1>2, OneRowHeld

LEMMA CheckoutIsHeld ==
    ASSUME HeldInv, CashInv', SerialInv', NEW o \in Orders, NEW m \in Methods,
           create_order_from_cart(o, m)
    PROVE  HeldInv' /\ HeldStep
<1>0. TypeOK
  BY DEF HeldInv, CashInv, JourneyInv
<1>1. riderId[o] = NoRider
  BY RowsHeld DEF RowHeld, create_order_from_cart, ActiveDelivery
<1>2. /\ UNCHANGED riderId
      /\ status' = [status EXCEPT ![o] = IF m = "COD" THEN "PLACED" ELSE "AWAITING_PAYMENT"]
      /\ method' = [method EXCEPT ![o] = m]
      /\ payStatus' = [payStatus EXCEPT ![o] = "PENDING"]
  BY DEF create_order_from_cart
<1>3. \A p \in Orders \ {o} : /\ status'[p] = status[p] /\ method'[p] = method[p]
                             /\ payStatus'[p] = payStatus[p] /\ riderId'[p] = riderId[p]
  BY <1>0, <1>2 DEF TypeOK
<1>4. method'[o] = m /\ (m # "COD" => status'[o] = "AWAITING_PAYMENT")
  BY <1>0, <1>2 DEF TypeOK
<1>5. RowHeldNext(o)
  BY <1>1, <1>2, <1>4 DEF RowHeld, RowHeldNext, Stages
<1> QED
  BY <1>1, <1>2, <1>3, <1>5, OneRowHeld

(* The webhook: what it finds unpaid is not with a rider yet. *)
LEMMA WebhookIsHeld ==
    ASSUME HeldInv, CashInv', SerialInv', NEW s \in Sessions,
           CapturedCommit(s) \/ ShortCommit(s) \/ FailedCommit(s)
    PROVE  HeldInv' /\ HeldStep
<1> DEFINE t == txn[s]
           o == t.order
<1>0. /\ TypeOK /\ StageSessionOK(t) /\ CashSessionOK(t) /\ Stands(t)
      /\ t.op \in {"captured", "short", "failed"}
  BY DEF HeldInv, SerialInv, CashInv, JourneyInv, CapturedCommit, ShortCommit, FailedCommit
<1>1. o \in Orders /\ method[o] # "COD" /\ payStatus[o] # "PAID"
  BY <1>0 DEF StageSessionOK, OrderOps, SessionOps, CashSessionOK, Stands
<1>2. riderId[o] = NoRider /\ status[o] \notin Stages
  BY <1>1, RowsHeld DEF RowHeld, ActiveDelivery, Stages
<1>3. UNCHANGED <<method, riderId>>
  BY DEF CapturedCommit, ShortCommit, FailedCommit, orderCols
<1>4. CASE CapturedCommit(s)
  <2>1. /\ status' = [status EXCEPT ![o] = Flush(@, t.status, "PLACED")]
        /\ payStatus' = [payStatus EXCEPT ![o] = "PAID"]
    BY <1>4 DEF CapturedCommit
  <2>2. /\ payStatus'[o] = "PAID"
        /\ \A p \in Orders \ {o} : status'[p] = status[p] /\ payStatus'[p] = payStatus[p]
    BY <1>0, <1>1, <2>1 DEF TypeOK
  <2> QED
    BY <1>1, <1>2, <1>3, <2>2, OneRowHeld DEF RowHeldNext
<1>5. CASE ShortCommit(s) \/ FailedCommit(s)
  <2>1. /\ UNCHANGED status
        /\ \A p \in Orders \ {o} : payStatus'[p] = payStatus[p]
    BY <1>0, <1>1, <1>5 DEF ShortCommit, FailedCommit, orderCols, TypeOK
  <2> QED
    BY <1>1, <1>2, <1>3, <2>1, OneRowHeld DEF RowHeldNext
<1> QED
  BY <1>4, <1>5

(* A cancellation finds the order placed, or not even that. *)
LEMMA CancelIsHeld ==
    ASSUME HeldInv, CashInv', SerialInv', NEW s \in Sessions,
           reject_order(s) \/ TimeoutUnpaid(s) \/ TimeoutUnanswered(s)
    PROVE  HeldInv' /\ HeldStep
<1> DEFINE t == txn[s]
           o == t.order
<1>0. TypeOK /\ StageSessionOK(t) /\ Stands(t) /\ t.op \in {"reject", "timeout"}
  BY DEF HeldInv, SerialInv, CashInv, JourneyInv, reject_order, TimeoutUnpaid, TimeoutUnanswered
<1>1. o \in Orders /\ status[o] \in {"PLACED", "AWAITING_PAYMENT"}
  BY <1>0 DEF StageSessionOK, OrderOps, SessionOps, Stands, Checks, reject_order, TimeoutUnpaid,
              TimeoutUnanswered
<1>2. riderId[o] = NoRider
  BY <1>1, RowsHeld DEF RowHeld, ActiveDelivery
<1>3. UNCHANGED <<method, riderId>> /\ status' = [status EXCEPT ![o] = "CANCELLED"]
  BY DEF reject_order, TimeoutUnpaid, TimeoutUnanswered, Cancel
<1>4. \A p \in Orders \ {o} : status'[p] = status[p] /\ payStatus'[p] = payStatus[p]
  <2>1. \A p \in Orders \ {o} : status'[p] = status[p]
    BY <1>0, <1>1, <1>3 DEF TypeOK
  <2>2. payStatus' = payStatus \/ \E x : payStatus' = [payStatus EXCEPT ![o] = x]
    BY DEF reject_order, TimeoutUnpaid, TimeoutUnanswered, initiate_refund, payCols
  <2>3. \A p \in Orders \ {o} : payStatus'[p] = payStatus[p]
    BY <1>0, <2>2 DEF TypeOK
  <2> QED
    BY <2>1, <2>3
<1>5. status'[o] = "CANCELLED"
  BY <1>0, <1>1, <1>3 DEF TypeOK
<1>6. RowHeldNext(o)
  BY <1>2, <1>3, <1>5 DEF RowHeld, RowHeldNext, Stages
<1> QED
  BY <1>1, <1>2, <1>3, <1>4, <1>6, OneRowHeld

(* The restaurant's steps come before the rider has the order, the rider's *)
(* along the delivery.                                                     *)
LEMMA StagesAreHeld ==
    ASSUME HeldInv, CashInv', SerialInv', NEW s \in Sessions,
           \/ accept_order(s) \/ change_order_status_to_preparing(s)
           \/ change_order_status_to_ready_for_pickup(s) \/ mark_order_picked_up(s)
    PROVE  HeldInv' /\ HeldStep
<1> DEFINE o == txn[s].order
<1>0. /\ StageSessionOK(txn[s]) /\ Stands(txn[s])
      /\ txn[s].op \in {"accept", "preparing", "ready", "pickup"}
  BY DEF HeldInv, SerialInv, CashInv, JourneyInv, accept_order, change_order_status_to_preparing,
         change_order_status_to_ready_for_pickup, mark_order_picked_up
<1>1. o \in Orders
  BY <1>0 DEF StageSessionOK, OrderOps, SessionOps
<1>2. CASE accept_order(s)
  <2>1. status[o] = "PLACED" /\ status' = [status EXCEPT ![o] = "CONFIRMED"]
        /\ UNCHANGED <<method, payStatus, riderId>>
    BY <1>0, <1>2 DEF accept_order, EnterStage, Writes, Stands, Checks, payCols
  <2> QED
    BY <1>1, <2>1, StageIsHeld DEF Stages, ActiveDelivery
<1>3. CASE change_order_status_to_preparing(s)
  <2>1. status[o] = "CONFIRMED" /\ status' = [status EXCEPT ![o] = "PREPARING"]
        /\ UNCHANGED <<method, payStatus, riderId>>
    BY <1>0, <1>3 DEF change_order_status_to_preparing, EnterStage, Writes, Stands, Checks, payCols
  <2> QED
    BY <1>1, <2>1, StageIsHeld DEF Stages, ActiveDelivery
<1>4. CASE change_order_status_to_ready_for_pickup(s)
  <2>1. status[o] = "PREPARING" /\ status' = [status EXCEPT ![o] = "READY_FOR_PICKUP"]
        /\ UNCHANGED <<method, payStatus, riderId>>
    BY <1>0, <1>4
    DEF change_order_status_to_ready_for_pickup, EnterStage, Writes, Stands, Checks, payCols
  <2> QED
    BY <1>1, <2>1, StageIsHeld DEF Stages, ActiveDelivery
<1>5. CASE mark_order_picked_up(s)
  <2>1. status[o] \in ActiveDelivery /\ status' = [status EXCEPT ![o] = "OUT_FOR_DELIVERY"]
        /\ UNCHANGED <<method, payStatus, riderId>>
    BY <1>0, <1>5 DEF mark_order_picked_up, Stands, payCols
  <2> QED
    BY <1>1, <2>1, StageIsHeld DEF Stages, ActiveDelivery
<1> QED
  BY <1>2, <1>3, <1>4, <1>5

(* A rider accepts an order nobody has, and delivers the one he has. *)
LEMMA RiderIsHeld ==
    ASSUME HeldInv, CashInv', SerialInv', NEW s \in Sessions,
           assign_rider_to_order(s) \/ mark_order_delivered(s)
    PROVE  HeldInv' /\ HeldStep
<1> DEFINE o == txn[s].order
<1>0. /\ TypeOK /\ StageSessionOK(txn[s]) /\ Stands(txn[s])
      /\ txn[s].op \in {"assign", "deliver"}
  BY DEF HeldInv, SerialInv, CashInv, JourneyInv, assign_rider_to_order, mark_order_delivered
<1>1. o \in Orders /\ UNCHANGED method
  BY <1>0 DEF StageSessionOK, OrderOps, SessionOps, assign_rider_to_order, mark_order_delivered
<1>2. CASE assign_rider_to_order(s)
  <2>1. /\ status[o] = "READY_FOR_PICKUP" /\ UNCHANGED payStatus
        /\ status' = [status EXCEPT ![o] = "RIDER_ASSIGNED"]
        /\ riderId' = [riderId EXCEPT ![o] = txn[s].rider]
    BY <1>2 DEF assign_rider_to_order, payCols
  <2>2. riderId[o] = NoRider /\ (method[o] # "COD" => payStatus[o] = "PAID")
    BY <1>1, <2>1, RowsHeld DEF RowHeld, ActiveDelivery, Stages
  <2>3. /\ status'[o] = "RIDER_ASSIGNED"
        /\ \A p \in Orders \ {o} : status'[p] = status[p] /\ riderId'[p] = riderId[p]
    BY <1>0, <1>1, <2>1 DEF TypeOK
  <2>4. RowHeldNext(o)
    BY <1>1, <2>1, <2>2, <2>3 DEF RowHeld, RowHeldNext, ActiveDelivery
  <2> QED
    BY <1>1, <2>1, <2>2, <2>3, <2>4, OneRowHeld
<1>3. CASE mark_order_delivered(s)
  <2>1. /\ status[o] \in ActiveDelivery /\ UNCHANGED riderId
        /\ status' = [status EXCEPT ![o] = "DELIVERED"]
        /\ payStatus' = [payStatus EXCEPT ![o] =
                            IF method[o] = "COD" THEN Flush(@, txn[s].pay, "PAID") ELSE @]
    BY <1>0, <1>3 DEF mark_order_delivered, Stands
  <2>2. method[o] # "COD" => payStatus[o] = "PAID"
    BY <1>1, <2>1, RowsHeld DEF RowHeld, ActiveDelivery, Stages
  <2>3. /\ status'[o] = "DELIVERED" /\ (method[o] # "COD" => payStatus'[o] = payStatus[o])
        /\ \A p \in Orders \ {o} : status'[p] = status[p] /\ payStatus'[p] = payStatus[p]
    BY <1>0, <1>1, <2>1 DEF TypeOK
  <2>4. RowHeldNext(o)
    BY <1>1, <2>1, <2>2, <2>3 DEF RowHeld, RowHeldNext, ActiveDelivery
  <2> QED
    BY <1>1, <2>1, <2>3, <2>4, OneRowHeld
<1> QED
  BY <1>2, <1>3

LEMMA NextIsHeld ==
    ASSUME OneSession, HeldInv, [Next]_vars
    PROVE  HeldInv' /\ HeldStep
<1>0. CashInv' /\ SerialInv'
  BY NextKeepsCash, NextStands DEF HeldInv
<1>1. ASSUME UNCHANGED HeldCols PROVE HeldInv' /\ HeldStep
  BY <1>0, <1>1, NoRowHeld
<1>2. CASE UNCHANGED vars
  BY <1>1, <1>2 DEF vars, orderCols, payCols, HeldCols
<1>3. CASE Razorpay
  BY <1>1, <1>3 DEF Razorpay, CustomerPays, PaymentAttemptFails, orderCols, payCols, HeldCols
<1>4. CASE Checkout
  BY <1>0, <1>4, CheckoutIsHeld DEF Checkout
<1>5. CASE Arrival
  BY <1>1, <1>5, ArrivalWritesNoRow DEF orderCols, payCols, HeldCols
<1>6. ASSUME NEW s \in Sessions, Finish(s) \/ CrashAfterRefund(s) \/ Crash(s)
      PROVE  HeldInv' /\ HeldStep
  <2>1. CASE CapturedCommit(s) \/ ShortCommit(s) \/ FailedCommit(s)
    BY <1>0, <2>1, WebhookIsHeld
  <2>2. CASE reject_order(s) \/ TimeoutUnpaid(s) \/ TimeoutUnanswered(s)
    BY <1>0, <2>2, CancelIsHeld
  <2>3. CASE \/ accept_order(s) \/ change_order_status_to_preparing(s)
             \/ change_order_status_to_ready_for_pickup(s) \/ mark_order_picked_up(s)
    BY <1>0, <2>3, StagesAreHeld
  <2>4. CASE assign_rider_to_order(s) \/ mark_order_delivered(s)
    BY <1>0, <2>4, RiderIsHeld
  <2>5. CASE toggle_rider_online_status(s) \/ \E z \in RzpIds : InitiateCommit(s, z)
    BY <1>1, <2>5 DEF toggle_rider_online_status, InitiateCommit, orderCols, payCols, HeldCols
  <2>6. CASE AssignConflict(s) \/ AlreadyEarned(s) \/ RefundAborts(s)
    BY <1>1, <2>6 DEF AssignConflict, AlreadyEarned, RefundAborts, orderCols, payCols, HeldCols
  <2>7. CASE CrashAfterRefund(s) \/ Crash(s)
    BY <1>1, <2>7 DEF CrashAfterRefund, Crash, orderCols, payCols, HeldCols
  <2> QED
    BY <1>6, <2>1, <2>2, <2>3, <2>4, <2>5, <2>6, <2>7 DEF Finish
<1> QED
  BY <1>2, <1>3, <1>4, <1>5, <1>6 DEF Next

(* README:23 "locking the order row so the second request correctly        *)
(* fails": without overlaps nothing ever takes an order a rider has back   *)
(* to READY_FOR_PICKUP - no late capture, for what was handed over is      *)
(* paid, no second press of a restaurant's button, no timeout - and so no  *)
(* other rider's request succeeds, however often it is sent.               *)
THEOREM OrderStaysWithItsRider == ASSUME OneSession PROVE Spec => OrderKeepsItsRider
<1>1. Init => HeldInv
  <2> SUFFICES ASSUME Init PROVE HeldInv
    OBVIOUS
  <2>1. PlacedIsPaid /\ HeldIsUnderWay
    BY DEF Init, PlacedIsPaid, HeldIsUnderWay, Stages
  <2> QED
    BY <2>1, InitStands, InitCash DEF HeldInv
<1>2. HeldInv /\ [Next]_vars => HeldInv'
  BY NextIsHeld
<1>3. HeldInv /\ [Next]_vars =>
        [\A o \in Orders : riderId[o] # NoRider => riderId'[o] = riderId[o]]_vars
  BY NextIsHeld DEF HeldStep
<1> QED
  BY <1>1, <1>2, <1>3, PTL DEF Spec, OrderKeepsItsRider

=============================================================================
