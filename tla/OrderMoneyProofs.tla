-------------------------- MODULE OrderMoneyProofs --------------------------
(***************************************************************************)
(* Cash, books, refunds and waits: CashInv, BooksInv, RefundsInv and       *)
(* WatchInv are inductive, so the cash of an order is booked exactly when  *)
(* it is delivered, our books never claim what Razorpay did not do, only   *)
(* an order that was placed is refunded, and an order that waits has its   *)
(* timeout before it.                                                      *)
(***************************************************************************)
EXTENDS OrderJourneyProofs

-----------------------------------------------------------------------------
(* Cash: what a step does to an order to be paid at the door. *)

cashCols == <<status, reached, method, payStatus, provOrder>>

DeliveredOnce(o) == "DELIVERED" \in reached'[o] <=> "DELIVERED" \in reached[o]

(* Its payment is as it was, or it is booked with the delivery. *)
CashRowKept(o) ==
    /\ provOrder'[o] = provOrder[o]
    /\ \/ /\ status'[o] \in {status[o], "CONFIRMED", "PREPARING", "READY_FOR_PICKUP",
                             "RIDER_ASSIGNED", "OUT_FOR_DELIVERY", "CANCELLED"}
          /\ payStatus'[o] = payStatus[o]
          /\ DeliveredOnce(o)
       \/ /\ status'[o] = "DELIVERED"
          /\ payStatus'[o] = "PAID"
          /\ "DELIVERED" \in reached'[o]

LEMMA CashRowsKept ==
    ASSUME CashInv, UNCHANGED method, \A o \in Orders : method[o] = "COD" => CashRowKept(o)
    PROVE  CashStaysOffline' /\ CashCollected'
BY DEF CashInv, CashStaysOffline, CashCollected, CashRowKept, DeliveredOnce

LEMMA IdleHasNoOrder == CashSessionOK(Idle) /\ BooksSessionOK(Idle)
BY StoreAssumption DEF CashSessionOK, BooksSessionOK, Idle

(* A session that begins. *)
LEMMA BeginKeepsCash ==
    ASSUME CashInv, JourneyInv', NEW s \in Sessions, NEW rec, CashSessionOK(rec),
           txn' = [txn EXCEPT ![s] = rec], UNCHANGED cashCols
    PROVE  CashInv'
<1>1. \A q \in Sessions : CashSessionOK(txn'[q])
  BY DEF CashInv, JourneyInv, TypeOK
<1>2. \A q \in Sessions : CashSessionOK(txn[q])'
  BY <1>1 DEF CashSessionOK, cashCols
<1>3. CashStaysOffline' /\ CashCollected'
  BY DEF CashInv, CashStaysOffline, CashCollected, cashCols
<1> QED
  BY <1>2, <1>3 DEF CashInv

(* A session that ends. *)
LEMMA EndKeepsCash ==
    ASSUME CashInv, JourneyInv', NEW s \in Sessions, End(s), UNCHANGED method,
           \A o \in Orders : reached[o] \subseteq reached'[o],
           \A o \in Orders : method[o] = "COD" => CashRowKept(o)
    PROVE  CashInv'
<1>1. \A q \in Sessions : txn'[q] \in {txn[q], Idle}
  BY DEF End, CashInv, JourneyInv, TypeOK
<1>2. \A q \in Sessions : CashSessionOK(txn'[q])
  BY <1>1, IdleHasNoOrder DEF CashInv
<1>3. \A q \in Sessions : CashSessionOK(txn[q])'
  BY <1>2 DEF CashSessionOK
<1> QED
  BY <1>3, CashRowsKept DEF CashInv

LEMMA ArrivalKeepsCash ==
    ASSUME CashInv, JourneyInv', Arrival
    PROVE  CashInv'
<1> USE DEF cashCols, orderCols, payCols
<1>0. TypeOK /\ CashStaysOffline /\ CashCollected
  BY DEF CashInv, JourneyInv
<1>1. ASSUME NEW s \in Sessions, NEW o \in Orders, InitiateRead(s, o) PROVE CashInv'
  <2>1. CashSessionOK(Touch("initiate", o))
    BY <1>0, <1>1 DEF InitiateRead, CashStaysOffline, CashSessionOK, Touch, Idle
  <2> QED
    BY <1>1, <2>1, BeginKeepsCash DEF InitiateRead, Begin
<1>2. ASSUME NEW s \in Sessions, NEW z \in RzpIds, NEW o \in Orders, CapturedRead(s, z, o)
      PROVE  CashInv'
  <2> DEFINE op == IF rzpState[z] = "paid" THEN "captured" ELSE "short"
             rec == [OrderAndPayment(op, o) EXCEPT !.rzp = z]
  <2>1. rec.order = o
    BY DEF OrderAndPayment, Touch, Idle
  <2>2. method[o] # "COD"
    BY <1>0, <1>2, StoreAssumption DEF CapturedRead, CashStaysOffline
  <2>3. CashSessionOK(rec)
    BY <2>1, <2>2 DEF CashSessionOK
  <2>4. txn' = [txn EXCEPT ![s] = rec]
    BY <1>2 DEF CapturedRead, Begin
  <2> HIDE DEF rec
  <2> QED
    BY <1>2, <2>3, <2>4, BeginKeepsCash DEF CapturedRead
<1>3. ASSUME NEW s \in Sessions, NEW z \in RzpIds, NEW o \in Orders, FailedRead(s, z, o)
      PROVE  CashInv'
  <2>1. method[o] # "COD"
    BY <1>0, <1>3, StoreAssumption DEF FailedRead, CashStaysOffline
  <2>2. CashSessionOK(Touch("failed", o))
    BY <2>1 DEF CashSessionOK, Touch, Idle
  <2> QED
    BY <1>3, <2>2, BeginKeepsCash DEF FailedRead, Begin
<1>4. ASSUME NEW s \in Sessions, NEW op \in DOMAIN Checks, NEW o \in Orders,
             RestaurantRead(s, op, o)
      PROVE  CashInv'
  <2> DEFINE rec == IF op = "reject" THEN OrderAndPayment(op, o) ELSE Touch(op, o)
  <2>1. rec.op = op /\ rec.order = o /\ (op = "reject" => rec.pay = payStatus[o])
    BY DEF OrderAndPayment, Touch, Idle
  <2>2. op \in {"accept", "reject", "preparing", "ready"} /\ Checks["reject"] = "PLACED"
    BY DEF Checks
  <2>3. CashSessionOK(rec)
    BY <1>0, <1>4, <2>1, <2>2
    DEF RestaurantRead, CashStaysOffline, CashCollected, CashSessionOK
  <2>4. txn' = [txn EXCEPT ![s] = rec]
    BY <1>4 DEF RestaurantRead, Begin
  <2> HIDE DEF rec
  <2> QED
    BY <1>4, <2>3, <2>4, BeginKeepsCash DEF RestaurantRead
<1>5. ASSUME NEW s \in Sessions, NEW r \in Riders, GoOnlineRead(s, r) \/ GoOfflineRead(s, r)
      PROVE  CashInv'
  <2>1. CashSessionOK(RiderRow("online", r)) /\ CashSessionOK(RiderRow("offline", r))
    BY StoreAssumption DEF CashSessionOK, RiderRow, Idle
  <2> QED
    BY <1>5, <2>1, BeginKeepsCash DEF GoOnlineRead, GoOfflineRead, Begin
<1>6. ASSUME NEW s \in Sessions, NEW r \in Riders, NEW o \in Orders,
             AssignRead(s, r, o) \/ PickupRead(s, r, o)
      PROVE  CashInv'
  <2>1. /\ CashSessionOK([Touch("assign", o) EXCEPT !.rider = r])
        /\ CashSessionOK([Touch("pickup", o) EXCEPT !.rider = r])
    BY DEF CashSessionOK, Touch, Idle
  <2> QED
    BY <1>6, <2>1, BeginKeepsCash DEF AssignRead, PickupRead, Begin
<1>7. ASSUME NEW s \in Sessions, NEW r \in Riders, NEW o \in Orders, DeliverRead(s, r, o)
      PROVE  CashInv'
  <2> DEFINE rec == [Touch("deliver", o) EXCEPT !.rider = r, !.pay = payStatus[o],
                                       !.avail = available[r], !.done = deliveries[r]]
  <2>1. rec.op = "deliver" /\ rec.order = o /\ rec.pay = payStatus[o]
    BY DEF Touch, Idle
  <2>2. CashSessionOK(rec)
    BY <1>0, <2>1 DEF CashCollected, CashSessionOK
  <2>3. txn' = [txn EXCEPT ![s] = rec]
    BY <1>7 DEF DeliverRead, Begin
  <2> HIDE DEF rec
  <2> QED
    BY <1>7, <2>2, <2>3, BeginKeepsCash DEF DeliverRead
<1>8. ASSUME NEW s \in Sessions, NEW o \in Orders, TimeoutRead(s, o) PROVE CashInv'
  <2> DEFINE rec == OrderAndPayment("timeout", o)
  <2>1. rec.op = "timeout" /\ rec.order = o /\ rec.pay = payStatus[o]
    BY DEF OrderAndPayment, Touch, Idle
  <2>2. CashSessionOK(rec)
    BY <1>0, <1>8, <2>1
    DEF TimeoutRead, CashStaysOffline, CashCollected, CashSessionOK
  <2> HIDE DEF rec
  <2> QED
    BY <1>8, <2>2, BeginKeepsCash DEF TimeoutRead, Begin, rec
<1>9. CASE UNCHANGED <<txn, cashCols>>
  BY <1>9 DEF CashInv, CashSessionOK, CashStaysOffline, CashCollected
<1>10. ASSUME NEW o \in Orders, TimeoutTooLate(o) \/ check_rider_assignment_timeout(o)
       PROVE  CashInv'
  BY <1>9, <1>10 DEF TimeoutTooLate, check_rider_assignment_timeout
<1> QED
  BY <1>1, <1>2, <1>3, <1>4, <1>5, <1>6, <1>7, <1>8, <1>10
  DEF Arrival, WebhookArrives, RestaurantArrives, RiderArrives, ResponseTimeout

(* A refund asked for by a session that saw a cash payment does nothing to it. *)
LEMMA CashIsNotRefunded ==
    ASSUME CashInv, NEW s \in Sessions, txn[s].op \in {"reject", "timeout"},
           initiate_refund(txn[s])
    PROVE  \A o \in Orders : method[o] = "COD" => payStatus'[o] = payStatus[o]
<1> DEFINE o == txn[s].order
<1>1. TypeOK /\ o \in Orders
  BY DEF CashInv, JourneyInv, StageSessionOK, OrderOps, SessionOps
<1>2. method[o] = "COD" => txn[s].pay = "PENDING"
  BY <1>1 DEF CashInv, CashSessionOK
<1>3. CASE txn[s].pay # "PAID"
  BY <1>3 DEF initiate_refund
<1>4. CASE txn[s].pay = "PAID"
  <2>1. \E st : payStatus' = [payStatus EXCEPT ![o] = st]
    BY <1>4 DEF initiate_refund
  <2> QED
    BY <1>1, <1>2, <1>4, <2>1 DEF TypeOK
<1> QED
  BY <1>3, <1>4

LEMMA PaymentCommitsKeepCash ==
    ASSUME CashInv, JourneyInv', NEW s \in Sessions,
           \/ \E z \in RzpIds : InitiateCommit(s, z)
           \/ CapturedCommit(s) \/ ShortCommit(s) \/ FailedCommit(s)
    PROVE  CashInv'
<1> USE DEF orderCols
<1> DEFINE o == txn[s].order
<1>0. TypeOK /\ CashSessionOK(txn[s]) /\ StageSessionOK(txn[s])
  BY DEF CashInv, JourneyInv
<1>1. o \in Orders /\ method[o] # "COD"
  BY <1>0 DEF InitiateCommit, CapturedCommit, ShortCommit, FailedCommit, CashSessionOK,
              StageSessionOK, OrderOps, SessionOps
<1>2. End(s) /\ UNCHANGED method
  BY DEF InitiateCommit, CapturedCommit, ShortCommit, FailedCommit
<1>3. \A p \in Orders : reached[p] \subseteq reached'[p]
  BY <1>0 DEF InitiateCommit, CapturedCommit, ShortCommit, FailedCommit, TypeOK
<1>4. \A p \in Orders : p # o => /\ status'[p] = status[p] /\ reached'[p] = reached[p]
                                 /\ payStatus'[p] = payStatus[p]
                                 /\ provOrder'[p] = provOrder[p]
  BY <1>0 DEF InitiateCommit, CapturedCommit, ShortCommit, FailedCommit, TypeOK
<1>5. \A p \in Orders : method[p] = "COD" => CashRowKept(p)
  BY <1>1, <1>4 DEF CashRowKept, DeliveredOnce
<1> QED
  BY <1>2, <1>3, <1>5, EndKeepsCash

LEMMA OrderCommitsKeepCash ==
    ASSUME CashInv, JourneyInv', NEW s \in Sessions,
           \/ accept_order(s) \/ reject_order(s)
           \/ change_order_status_to_preparing(s)
           \/ change_order_status_to_ready_for_pickup(s)
           \/ TimeoutUnpaid(s) \/ TimeoutUnanswered(s)
    PROVE  CashInv'
<1> USE DEF payCols
<1> DEFINE o == txn[s].order
<1>0. TypeOK
  BY DEF CashInv, JourneyInv
<1>1. ASSUME NEW st \in {"CONFIRMED", "PREPARING", "READY_FOR_PICKUP"},
             EnterStage(o, st), End(s), UNCHANGED <<method, payStatus, provOrder>>
      PROVE  CashInv'
  <2>1. \A p \in Orders : /\ status'[p] \in {status[p], st}
                          /\ reached'[p] \in {reached[p], reached[p] \cup {st}}
    BY <1>0, <1>1 DEF EnterStage, TypeOK
  <2>2. \A p \in Orders : reached[p] \subseteq reached'[p] /\ CashRowKept(p)
    BY <1>1, <2>1 DEF CashRowKept, DeliveredOnce
  <2> QED
    BY <1>1, <2>2, EndKeepsCash
<1>2. CASE accept_order(s)
  BY <1>1, <1>2 DEF accept_order, Writes
<1>3. CASE change_order_status_to_preparing(s)
  BY <1>1, <1>3 DEF change_order_status_to_preparing, Writes
<1>4. CASE change_order_status_to_ready_for_pickup(s)
  BY <1>1, <1>4 DEF change_order_status_to_ready_for_pickup, Writes
<1>5. CASE reject_order(s) \/ TimeoutUnpaid(s) \/ TimeoutUnanswered(s)
  <2>1. /\ \E why : Cancel(txn[s], why)
        /\ End(s) /\ UNCHANGED provOrder
    BY <1>5 DEF reject_order, TimeoutUnpaid, TimeoutUnanswered
  <2>2. /\ UNCHANGED <<reached, method>>
        /\ \A p \in Orders : status'[p] \in {status[p], "CANCELLED"}
    BY <1>0, <2>1 DEF Cancel, TypeOK
  <2>3. \A p \in Orders : method[p] = "COD" => payStatus'[p] = payStatus[p]
    BY <1>5, CashIsNotRefunded DEF reject_order, TimeoutUnpaid, TimeoutUnanswered
  <2>4. \A p \in Orders : method[p] = "COD" => CashRowKept(p)
    BY <2>1, <2>2, <2>3 DEF CashRowKept, DeliveredOnce
  <2> QED
    BY <2>1, <2>2, <2>4, EndKeepsCash
<1> QED
  BY <1>2, <1>3, <1>4, <1>5

LEMMA RiderCommitsKeepCash ==
    ASSUME CashInv, JourneyInv', NEW s \in Sessions,
           \/ toggle_rider_online_status(s) \/ assign_rider_to_order(s)
           \/ mark_order_picked_up(s) \/ mark_order_delivered(s)
    PROVE  CashInv'
<1> USE DEF payCols, orderCols
<1> DEFINE o == txn[s].order
<1>0. TypeOK /\ CashSessionOK(txn[s]) /\ StageSessionOK(txn[s])
  BY DEF CashInv, JourneyInv
<1>1. CASE toggle_rider_online_status(s)
  BY <1>1, EndKeepsCash DEF toggle_rider_online_status, CashRowKept, DeliveredOnce
<1>2. CASE assign_rider_to_order(s) \/ mark_order_picked_up(s)
  <2>1. /\ End(s) /\ UNCHANGED <<method, payStatus, provOrder>>
        /\ \E st \in {"RIDER_ASSIGNED", "OUT_FOR_DELIVERY"} :
             \A p \in Orders : /\ status'[p] \in {status[p], st}
                               /\ reached'[p] \in {reached[p], reached[p] \cup {st}}
    BY <1>0, <1>2 DEF assign_rider_to_order, mark_order_picked_up, TypeOK
  <2>2. \A p \in Orders : reached[p] \subseteq reached'[p] /\ CashRowKept(p)
    BY <2>1 DEF CashRowKept, DeliveredOnce
  <2> QED
    BY <2>1, <2>2, EndKeepsCash
<1>3. CASE mark_order_delivered(s)
  <2>1. o \in Orders /\ txn[s].op = "deliver"
    BY <1>0, <1>3 DEF mark_order_delivered, StageSessionOK, OrderOps, SessionOps
  <2>2. /\ End(s) /\ UNCHANGED <<method, provOrder>>
        /\ status' = [status EXCEPT ![o] = "DELIVERED"]
        /\ reached' = [reached EXCEPT ![o] = @ \cup {"DELIVERED"}]
        /\ payStatus' = [payStatus EXCEPT ![o] =
                            IF method[o] = "COD" THEN Flush(@, txn[s].pay, "PAID") ELSE @]
    BY <1>3 DEF mark_order_delivered
  <2>3. \A p \in Orders : reached[p] \subseteq reached'[p]
    BY <1>0, <2>2 DEF TypeOK
  <2>4. \A p \in Orders \ {o} : CashRowKept(p)
    BY <1>0, <2>2 DEF CashRowKept, DeliveredOnce, TypeOK
  <2>5. method[o] = "COD" => CashRowKept(o)
    <3> SUFFICES ASSUME method[o] = "COD" PROVE CashRowKept(o)
      OBVIOUS
    <3>1. txn[s].pay = "PAID" => payStatus[o] = "PAID"
      BY <1>0, <2>1 DEF CashSessionOK, CashInv, CashCollected
    <3>2. payStatus'[o] = "PAID"
      BY <1>0, <2>1, <2>2, <3>1 DEF Flush, TypeOK
    <3> QED
      BY <1>0, <2>1, <2>2, <3>2 DEF CashRowKept, TypeOK
  <2> QED
    BY <2>2, <2>3, <2>4, <2>5, EndKeepsCash
<1> QED
  BY <1>1, <1>2, <1>3

LEMMA RollbacksKeepCash ==
    ASSUME CashInv, JourneyInv', NEW s \in Sessions,
           \/ RefundAborts(s) \/ AssignConflict(s) \/ AlreadyEarned(s)
           \/ CrashAfterRefund(s) \/ Crash(s)
    PROVE  CashInv'
<1>1. End(s) /\ UNCHANGED cashCols
  BY DEF RefundAborts, AssignConflict, AlreadyEarned, CrashAfterRefund, Crash, cashCols,
         orderCols, payCols
<1> QED
  BY <1>1, IdleHasNoOrder, BeginKeepsCash DEF End

LEMMA CheckoutKeepsCash ==
    ASSUME CashInv, JourneyInv', NEW o \in Orders, NEW m \in Methods,
           create_order_from_cart(o, m)
    PROVE  CashInv'
<1>0. TypeOK
  BY DEF CashInv, JourneyInv
<1>1. /\ status[o] = "NONE"
      /\ status' = [status EXCEPT ![o] = IF m = "COD" THEN "PLACED" ELSE "AWAITING_PAYMENT"]
      /\ reached' = [reached EXCEPT ![o] = IF m = "COD" THEN {"PLACED"} ELSE {}]
      /\ method' = [method EXCEPT ![o] = m]
      /\ payStatus' = [payStatus EXCEPT ![o] = "PENDING"]
      /\ UNCHANGED <<provOrder, txn>>
  BY DEF create_order_from_cart
<1>2. provOrder[o] = NoRzp
  BY <1>1 DEF CashInv, JourneyInv, BlankUntilCheckout
<1>3. \A q \in Sessions : txn[q].order # o
  BY <1>1 DEF CashInv, JourneyInv, StageSessionOK
<1>4. \A p \in Orders \ {o} : /\ status'[p] = status[p] /\ reached'[p] = reached[p]
                              /\ method'[p] = method[p] /\ payStatus'[p] = payStatus[p]
  BY <1>0, <1>1 DEF TypeOK
<1>5. \A q \in Sessions : CashSessionOK(txn[q])'
  BY <1>1, <1>3, <1>4 DEF CashInv, CashSessionOK
<1>6. /\ status'[o] = IF m = "COD" THEN "PLACED" ELSE "AWAITING_PAYMENT"
      /\ "DELIVERED" \notin reached'[o] /\ method'[o] = m /\ payStatus'[o] = "PENDING"
  BY <1>0, <1>1 DEF TypeOK
<1>7. CashStaysOffline' /\ CashCollected'
  BY <1>1, <1>2, <1>4, <1>6 DEF CashInv, CashStaysOffline, CashCollected
<1> QED
  BY <1>5, <1>7 DEF CashInv

LEMMA NextKeepsCash ==
    ASSUME CashInv, [Next]_vars
    PROVE  CashInv'
<1>0. JourneyInv'
  BY NextKeepsJourney DEF CashInv
<1>1. CASE UNCHANGED <<txn, cashCols>>
  BY <1>0, <1>1 DEF CashInv, CashSessionOK, CashStaysOffline, CashCollected, cashCols
<1>2. CASE UNCHANGED vars
  BY <1>1, <1>2 DEF vars, orderCols, payCols, cashCols
<1>3. CASE Checkout
  BY <1>0, <1>3, CheckoutKeepsCash DEF Checkout
<1>4. CASE Razorpay
  BY <1>1, <1>4 DEF Razorpay, CustomerPays, PaymentAttemptFails, orderCols, payCols, cashCols
<1>5. CASE Arrival
  BY <1>0, <1>5, ArrivalKeepsCash
<1>6. ASSUME NEW s \in Sessions, Finish(s) PROVE CashInv'
  BY <1>0, <1>6, PaymentCommitsKeepCash, OrderCommitsKeepCash, RiderCommitsKeepCash,
     RollbacksKeepCash
  DEF Finish
<1>7. ASSUME NEW s \in Sessions, CrashAfterRefund(s) \/ Crash(s) PROVE CashInv'
  BY <1>0, <1>7, RollbacksKeepCash
<1> QED
  BY <1>2, <1>3, <1>4, <1>5, <1>6, <1>7 DEF Next

LEMMA InitCash == Init => CashInv
<1> SUFFICES ASSUME Init PROVE CashInv
  OBVIOUS
<1>1. CashStaysOffline /\ CashCollected
  BY DEF Init, CashStaysOffline, CashCollected
<1> QED
  BY <1>1, InitJourney, IdleHasNoOrder DEF Init, CashInv

(* The cash of an order paid at the door is booked with its delivery, once *)
(* and for good: no stale rejection, timeout or second delivery undoes it. *)
THEOREM CashBookedOnDelivery == Spec => []CashCollected
<1>1. CashInv => CashCollected
  BY DEF CashInv
<1> QED
  BY <1>1, InitCash, NextKeepsCash, PTL DEF Spec

-----------------------------------------------------------------------------
(* Books: what a step may do to payments and to Razorpay's side. *)

booksCols == <<status, reached, method, payStatus, provPayment, rzpFor, rzpState, refunded>>

(* Razorpay's answers stay, stages are added, no order appears. *)
RecordsKept ==
    /\ UNCHANGED method
    /\ \A o \in Orders : reached[o] \subseteq reached'[o]
    /\ \A o \in Orders : status[o] = "NONE" => status'[o] = "NONE"
    /\ \A z \in RzpIds : rzpFor[z] \in Orders => rzpFor'[z] = rzpFor[z]
    /\ \A z \in RzpIds : rzpState[z] = "paid" => rzpState'[z] = "paid"
    /\ refunded \subseteq refunded'

TakenAfter(z, o) ==
    z \in RzpIds /\ rzpFor'[z] = o /\ rzpState'[z] = "paid" /\ "PLACED" \in reached'[o]

(* A provider_payment_id is only replaced by that of another payment taken, *)
(* PAID comes with one and REFUND_PENDING with a refund.                    *)
PaymentRowKept(o) ==
    /\ \/ provPayment'[o] = provPayment[o]
       \/ TakenAfter(provPayment'[o], o)
    /\ \/ payStatus'[o] = payStatus[o]
       \/ payStatus'[o] \notin {"PAID", "REFUND_PENDING"}
       \/ method[o] = "COD"
       \/ payStatus'[o] = "PAID" /\ provPayment'[o] # NoRzp
       \/ payStatus'[o] = "REFUND_PENDING" /\ \E z \in refunded' : rzpFor'[z] = o

RefundsOfTaken == \A z \in refunded' \ refunded : \E o \in Orders : TakenFor(z, o)

LEMMA TakenStays ==
    ASSUME RecordsKept, NEW z, NEW o \in Orders, TakenFor(z, o)
    PROVE  TakenAfter(z, o)
BY DEF RecordsKept, TakenFor, TakenAfter

(* What the tables and Razorpay hold after such a step. *)
LEMMA BooksKept ==
    ASSUME BooksInv, CashInv', RecordsKept, RefundsOfTaken,
           \A o \in Orders : PaymentRowKept(o)
    PROVE  /\ \A o \in Orders : status'[o] # "NONE" => method'[o] \in PaymentProvider
           /\ \A o \in Orders : provPayment'[o] # NoRzp => TakenAfter(provPayment'[o], o)
           /\ BooksMatchRazorpay' /\ RefundedWasPlaced'
<1>0. TypeOK /\ UNCHANGED method
  BY DEF BooksInv, CashInv, JourneyInv, RecordsKept
<1>1. \A o \in Orders : status'[o] # "NONE" => method'[o] \in PaymentProvider
  BY DEF BooksInv, RecordsKept
<1>2. \A o \in Orders : provPayment'[o] # NoRzp => TakenAfter(provPayment'[o], o)
  BY TakenStays DEF BooksInv, PaymentRowKept
<1>3. \A z \in refunded' : \E o \in Orders : TakenAfter(z, o)
  <2>1. \A z \in refunded : TakenFor(z, rzpFor[z]) /\ rzpFor[z] \in Orders
    BY <1>0 DEF BooksInv, RefundedWasPlaced, TakenFor, TypeOK
  <2> QED
    BY <2>1, TakenStays DEF RefundsOfTaken
<1>4. RefundedWasPlaced'
  BY <1>3 DEF RefundedWasPlaced, TakenAfter
<1>5. BooksMatchRazorpay'
  <2> SUFFICES ASSUME NEW o \in Orders, method[o] # "COD"
               PROVE  /\ payStatus'[o] = "PAID" => TakenAfter(provPayment'[o], o)
                      /\ payStatus'[o] = "REFUND_PENDING" =>
                           \E z \in refunded' : rzpFor'[z] = o
    BY <1>0 DEF BooksMatchRazorpay, TakenAfter
  <2>1. payStatus[o] = "PAID" => provPayment[o] # NoRzp
    BY StoreAssumption DEF BooksInv, BooksMatchRazorpay
  <2>2. payStatus[o] = "REFUND_PENDING" => \E z \in refunded' : rzpFor'[z] = o
    BY <1>0 DEF BooksInv, BooksMatchRazorpay, RecordsKept, TypeOK
  <2>3. provPayment[o] # NoRzp => provPayment'[o] # NoRzp
    BY StoreAssumption DEF PaymentRowKept, TakenAfter
  <2> QED
    BY <1>2, <2>1, <2>2, <2>3 DEF PaymentRowKept
<1> QED
  BY <1>1, <1>2, <1>4, <1>5

(* A session that ends. *)
LEMMA EndKeepsBooks ==
    ASSUME BooksInv, CashInv', NEW s \in Sessions, End(s), RecordsKept, RefundsOfTaken,
           \A o \in Orders : PaymentRowKept(o)
    PROVE  BooksInv'
<1>1. \A q \in Sessions : txn'[q] \in {txn[q], Idle}
  BY DEF End, BooksInv, CashInv, JourneyInv, TypeOK
<1>2. \A q \in Sessions : BooksSessionOK(txn'[q])
  BY <1>1, IdleHasNoOrder DEF BooksInv
<1>3. \A o \in Orders : provPayment[o] # NoRzp => provPayment'[o] # NoRzp
  BY StoreAssumption DEF PaymentRowKept, TakenAfter
<1>4. \A q \in Sessions : BooksSessionOK(txn[q])'
  BY <1>2, <1>3, TakenStays DEF BooksSessionOK, TakenFor, TakenAfter, RecordsKept
<1> QED
  BY <1>4, BooksKept DEF BooksInv, TakenFor, TakenAfter

(* A session that begins. *)
LEMMA BeginKeepsBooks ==
    ASSUME BooksInv, CashInv', NEW s \in Sessions, NEW rec, BooksSessionOK(rec),
           txn' = [txn EXCEPT ![s] = rec], UNCHANGED booksCols
    PROVE  BooksInv'
<1>1. \A q \in Sessions : BooksSessionOK(txn'[q])
  BY DEF BooksInv, CashInv, JourneyInv, TypeOK
<1>2. \A q \in Sessions : BooksSessionOK(txn[q])'
  BY <1>1 DEF BooksSessionOK, TakenFor, booksCols
<1> QED
  BY <1>2 DEF BooksInv, BooksMatchRazorpay, RefundedWasPlaced, TakenFor, booksCols

LEMMA ArrivalKeepsBooks ==
    ASSUME BooksInv, CashInv', Arrival
    PROVE  BooksInv'
<1> USE DEF booksCols, orderCols, payCols, razorpay
<1>0. TypeOK /\ \A o \in Orders : provPayment[o] # NoRzp => TakenFor(provPayment[o], o)
  BY DEF BooksInv, CashInv, JourneyInv
<1>1. ASSUME NEW rec, rec.op \notin {"captured", "reject", "timeout"}
      PROVE  BooksSessionOK(rec)
  BY <1>1 DEF BooksSessionOK
<1>2. ASSUME NEW op, NEW o \in Orders, op = "captured" => method[o] # "COD"
      PROVE  /\ BooksSessionOK(OrderAndPayment(op, o))
             /\ OrderAndPayment(op, o).op = op /\ Touch(op, o).op = op
  <2>1. /\ OrderAndPayment(op, o).order = o /\ OrderAndPayment(op, o).op = op
        /\ OrderAndPayment(op, o).paid = provPayment[o] /\ Touch(op, o).op = op
    BY DEF OrderAndPayment, Touch, Idle
  <2> QED
    BY <1>0, <1>2, <2>1 DEF BooksSessionOK
<1>3. ASSUME NEW s \in Sessions, NEW o \in Orders, InitiateRead(s, o) PROVE BooksInv'
  <2>1. BooksSessionOK(Touch("initiate", o))
    BY <1>1 DEF Touch, Idle
  <2> QED
    BY <1>3, <2>1, BeginKeepsBooks DEF InitiateRead, Begin
<1>4. ASSUME NEW s \in Sessions, NEW z \in RzpIds, NEW o \in Orders, CapturedRead(s, z, o)
      PROVE  BooksInv'
  <2> DEFINE op == IF rzpState[z] = "paid" THEN "captured" ELSE "short"
             rec == [OrderAndPayment(op, o) EXCEPT !.rzp = z]
  <2>1. rec.op = op /\ rec.order = o /\ rec.paid = provPayment[o]
    BY DEF OrderAndPayment, Touch, Idle
  <2>2. method[o] # "COD"
    BY <1>4, StoreAssumption DEF CapturedRead, BooksInv, CashInv, CashStaysOffline
  <2>3. BooksSessionOK(rec)
    BY <1>0, <2>1, <2>2 DEF BooksSessionOK
  <2>4. txn' = [txn EXCEPT ![s] = rec]
    BY <1>4 DEF CapturedRead, Begin
  <2> HIDE DEF rec
  <2> QED
    BY <1>4, <2>3, <2>4, BeginKeepsBooks DEF CapturedRead
<1>5. ASSUME NEW s \in Sessions, NEW z \in RzpIds, NEW o \in Orders, FailedRead(s, z, o)
      PROVE  BooksInv'
  <2>1. BooksSessionOK(Touch("failed", o))
    BY <1>1 DEF Touch, Idle
  <2> QED
    BY <1>5, <2>1, BeginKeepsBooks DEF FailedRead, Begin
<1>6. ASSUME NEW s \in Sessions, NEW op \in DOMAIN Checks, NEW o \in Orders,
             RestaurantRead(s, op, o)
      PROVE  BooksInv'
  <2>1. op \notin {"captured", "timeout"}
    BY DEF Checks
  <2>2. BooksSessionOK(OrderAndPayment(op, o)) /\ (op # "reject" => BooksSessionOK(Touch(op, o)))
    BY <1>1, <1>2, <2>1
  <2> QED
    BY <1>6, <2>2, BeginKeepsBooks DEF RestaurantRead, Begin
<1>7. ASSUME NEW s \in Sessions, NEW r \in Riders, GoOnlineRead(s, r) \/ GoOfflineRead(s, r)
      PROVE  BooksInv'
  <2>1. BooksSessionOK(RiderRow("online", r)) /\ BooksSessionOK(RiderRow("offline", r))
    BY <1>1 DEF RiderRow, Idle
  <2> QED
    BY <1>7, <2>1, BeginKeepsBooks DEF GoOnlineRead, GoOfflineRead, Begin
<1>8. ASSUME NEW s \in Sessions, NEW r \in Riders, NEW o \in Orders,
             AssignRead(s, r, o) \/ PickupRead(s, r, o)
      PROVE  BooksInv'
  <2>1. /\ BooksSessionOK([Touch("assign", o) EXCEPT !.rider = r])
        /\ BooksSessionOK([Touch("pickup", o) EXCEPT !.rider = r])
    BY <1>1 DEF Touch, Idle
  <2> QED
    BY <1>8, <2>1, BeginKeepsBooks DEF AssignRead, PickupRead, Begin
<1>9. ASSUME NEW s \in Sessions, NEW r \in Riders, NEW o \in Orders, DeliverRead(s, r, o)
      PROVE  BooksInv'
  <2> DEFINE rec == [Touch("deliver", o) EXCEPT !.rider = r, !.pay = payStatus[o],
                                       !.avail = available[r], !.done = deliveries[r]]
  <2>1. rec.op = "deliver"
    BY DEF Touch, Idle
  <2>2. txn' = [txn EXCEPT ![s] = rec]
    BY <1>9 DEF DeliverRead, Begin
  <2> HIDE DEF rec
  <2> QED
    BY <1>1, <1>9, <2>1, <2>2, BeginKeepsBooks DEF DeliverRead
<1>10. ASSUME NEW s \in Sessions, NEW o \in Orders, TimeoutRead(s, o) PROVE BooksInv'
  <2>1. BooksSessionOK(OrderAndPayment("timeout", o))
    BY <1>2
  <2> QED
    BY <1>10, <2>1, BeginKeepsBooks DEF TimeoutRead, Begin
<1>11. CASE UNCHANGED <<txn, booksCols>>
  BY <1>11 DEF BooksInv, BooksSessionOK, BooksMatchRazorpay, RefundedWasPlaced, TakenFor
<1>12. ASSUME NEW o \in Orders, TimeoutTooLate(o) PROVE BooksInv'
  BY <1>11, <1>12 DEF TimeoutTooLate
<1>13. ASSUME NEW o \in Orders, check_rider_assignment_timeout(o) PROVE BooksInv'
  <2>1. /\ UNCHANGED <<txn, orderCols, payCols, rzpFor, rzpState>>
        /\ refunded' \in {refunded, refunded \cup {provPayment[o]}}
        /\ refunded' # refunded => provPayment[o] # NoRzp
    BY <1>13 DEF check_rider_assignment_timeout, RefundCallsProvider, RefundRaises,
                 OrderAndPayment, Touch, Idle
  <2>2. RecordsKept /\ RefundsOfTaken /\ \A p \in Orders : PaymentRowKept(p)
    BY <1>0, <2>1 DEF RecordsKept, RefundsOfTaken, PaymentRowKept
  <2>3. \A q \in Sessions : BooksSessionOK(txn[q])'
    BY <2>1 DEF BooksInv, BooksSessionOK, TakenFor
  <2> QED
    BY <2>2, <2>3, BooksKept DEF BooksInv, TakenFor, TakenAfter
<1> QED
  BY <1>3, <1>4, <1>5, <1>6, <1>7, <1>8, <1>9, <1>10, <1>12, <1>13
  DEF Arrival, WebhookArrives, RestaurantArrives, RiderArrives, ResponseTimeout

(* The refund of a payment the session read as PAID: its reference names   *)
(* money taken for the order, and Razorpay is asked unless it is cash.     *)
LEMMA RefundKeepsBooks ==
    ASSUME BooksInv, NEW s \in Sessions, txn[s].op \in {"reject", "timeout"},
           initiate_refund(txn[s]), UNCHANGED <<method, provPayment, rzpFor, rzpState>>
    PROVE  /\ refunded \subseteq refunded' /\ RefundsOfTaken
           /\ \A p \in Orders : PaymentRowKept(p)
<1> DEFINE t == txn[s]
           o == txn[s].order
<1>0. TypeOK /\ o \in Orders /\ method[o] \in PaymentProvider
  BY DEF BooksInv, CashInv, JourneyInv, StageSessionOK, OrderOps, SessionOps
<1>1. t.paid # NoRzp => TakenFor(t.paid, o)
  BY <1>0 DEF BooksInv, BooksSessionOK
<1>2. /\ refunded' = IF RefundCallsProvider(t) THEN refunded \cup {t.paid} ELSE refunded
      /\ ~ RefundRaises(t)
  BY DEF initiate_refund
<1>3. RefundCallsProvider(t) => TakenFor(t.paid, o)
  BY <1>1, <1>2 DEF RefundCallsProvider, RefundRaises
<1>4. refunded \subseteq refunded' /\ RefundsOfTaken
  BY <1>0, <1>2, <1>3 DEF RefundsOfTaken
<1>5. CASE t.pay # "PAID"
  BY <1>4, <1>5 DEF initiate_refund, PaymentRowKept
<1>6. CASE t.pay = "PAID"
  <2>1. method[o] \in {"RAZORPAY", "COD"}
    BY <1>0, <1>2, <1>6 DEF RefundRaises, PaymentProvider
  <2>2. payStatus' = [payStatus EXCEPT ![o] =
                         IF method[o] = "COD" THEN "REFUNDED" ELSE "REFUND_PENDING"]
    BY <1>6 DEF initiate_refund
  <2>3. method[o] = "RAZORPAY" => t.paid \in refunded' /\ rzpFor'[t.paid] = o
    BY <1>2, <1>3, <1>6 DEF RefundCallsProvider, TakenFor
  <2> QED
    BY <1>0, <1>4, <2>1, <2>2, <2>3 DEF PaymentRowKept, TypeOK
<1> QED
  BY <1>4, <1>5, <1>6

LEMMA PaymentCommitsKeepBooks ==
    ASSUME BooksInv, CashInv', NEW s \in Sessions,
           \/ \E z \in RzpIds : InitiateCommit(s, z)
           \/ CapturedCommit(s) \/ ShortCommit(s) \/ FailedCommit(s)
    PROVE  BooksInv'
<1> USE DEF orderCols, razorpay
<1> DEFINE o == txn[s].order
<1>0. /\ TypeOK /\ StageSessionOK(txn[s]) /\ BooksSessionOK(txn[s])
      /\ o \in Orders /\ status[o] # "NONE"
  BY DEF InitiateCommit, CapturedCommit, ShortCommit, FailedCommit,
         BooksInv, CashInv, JourneyInv, StageSessionOK, OrderOps, SessionOps
<1>1. End(s)
  BY DEF InitiateCommit, CapturedCommit, ShortCommit, FailedCommit
<1>2. ASSUME NEW z \in RzpIds, InitiateCommit(s, z) PROVE BooksInv'
  <2>1. \A y \in RzpIds : rzpFor[y] \in Orders => rzpFor'[y] = rzpFor[y]
    BY <1>0, <1>2, StoreAssumption DEF InitiateCommit, TypeOK
  <2>2. RecordsKept /\ RefundsOfTaken /\ \A p \in Orders : PaymentRowKept(p)
    BY <1>2, <2>1 DEF InitiateCommit, RecordsKept, RefundsOfTaken, PaymentRowKept
  <2> QED
    BY <1>1, <2>2, EndKeepsBooks
<1>3. CASE CapturedCommit(s)
  <2> DEFINE t == txn[s]
  <2>1. /\ payStatus' = [payStatus EXCEPT ![o] = "PAID"]
        /\ provPayment' = [provPayment EXCEPT ![o] = Flush(@, t.paid, t.rzp)]
        /\ reached' = [reached EXCEPT ![o] = @ \cup {"PLACED"}]
        /\ UNCHANGED <<method, rzpFor, rzpState, refunded>>
        /\ \A p \in Orders \ {o} : status'[p] = status[p]
    BY <1>0, <1>3 DEF CapturedCommit, TypeOK
  <2>2. /\ t.rzp \in RzpIds /\ rzpFor[t.rzp] = o /\ rzpState[t.rzp] = "paid"
        /\ t.paid = t.rzp => provPayment[o] # NoRzp
    BY <1>0, <1>3, StoreAssumption DEF CapturedCommit, StageSessionOK, BooksSessionOK
  <2>3. RecordsKept /\ RefundsOfTaken
    BY <1>0, <2>1 DEF RecordsKept, RefundsOfTaken, TypeOK
  <2>4. /\ \A p \in Orders \ {o} : /\ payStatus'[p] = payStatus[p]
                                   /\ provPayment'[p] = provPayment[p]
        /\ payStatus'[o] = "PAID" /\ "PLACED" \in reached'[o]
        /\ provPayment'[o] = Flush(provPayment[o], t.paid, t.rzp)
    BY <1>0, <2>1 DEF TypeOK
  <2>5. PaymentRowKept(o)
    BY <2>1, <2>2, <2>4, StoreAssumption DEF PaymentRowKept, TakenAfter, Flush
  <2>6. \A p \in Orders : PaymentRowKept(p)
    BY <2>4, <2>5 DEF PaymentRowKept
  <2> QED
    BY <1>1, <2>3, <2>6, EndKeepsBooks
<1>4. CASE ShortCommit(s) \/ FailedCommit(s)
  <2>1. /\ \A p \in Orders : payStatus'[p] \in {payStatus[p], "FAILED"}
        /\ UNCHANGED <<status, reached, method, provPayment, rzpFor, rzpState, refunded>>
    BY <1>0, <1>4 DEF ShortCommit, FailedCommit, Flush, TypeOK
  <2>2. RecordsKept /\ RefundsOfTaken /\ \A p \in Orders : PaymentRowKept(p)
    BY <2>1 DEF RecordsKept, RefundsOfTaken, PaymentRowKept
  <2> QED
    BY <1>1, <2>2, EndKeepsBooks
<1> QED
  BY <1>2, <1>3, <1>4

LEMMA OrderCommitsKeepBooks ==
    ASSUME BooksInv, CashInv', NEW s \in Sessions,
           \/ accept_order(s) \/ reject_order(s)
           \/ change_order_status_to_preparing(s)
           \/ change_order_status_to_ready_for_pickup(s)
           \/ TimeoutUnpaid(s) \/ TimeoutUnanswered(s)
    PROVE  BooksInv'
<1> USE DEF payCols, razorpay
<1> DEFINE o == txn[s].order
<1>0. TypeOK /\ o \in Orders /\ status[o] # "NONE"
  BY DEF accept_order, reject_order, change_order_status_to_preparing,
         change_order_status_to_ready_for_pickup, TimeoutUnpaid, TimeoutUnanswered,
         BooksInv, CashInv, JourneyInv, StageSessionOK, OrderOps, SessionOps
<1>1. ASSUME NEW st, EnterStage(o, st), End(s), UNCHANGED <<method, payCols, razorpay>>
      PROVE  BooksInv'
  <2>1. \A p \in Orders : /\ status[p] = "NONE" => status'[p] = "NONE"
                          /\ reached[p] \subseteq reached'[p]
    BY <1>0, <1>1 DEF EnterStage, TypeOK
  <2>2. RecordsKept /\ RefundsOfTaken /\ \A p \in Orders : PaymentRowKept(p)
    BY <1>1, <2>1 DEF RecordsKept, RefundsOfTaken, PaymentRowKept
  <2> QED
    BY <1>1, <2>2, EndKeepsBooks
<1>2. CASE accept_order(s)
  BY <1>1, <1>2 DEF accept_order
<1>3. CASE change_order_status_to_preparing(s)
  BY <1>1, <1>3 DEF change_order_status_to_preparing
<1>4. CASE change_order_status_to_ready_for_pickup(s)
  BY <1>1, <1>4 DEF change_order_status_to_ready_for_pickup
<1>5. CASE reject_order(s) \/ TimeoutUnpaid(s) \/ TimeoutUnanswered(s)
  <2>1. /\ \E why : Cancel(txn[s], why)
        /\ End(s) /\ UNCHANGED <<provPayment, rzpFor, rzpState>>
    BY <1>5 DEF reject_order, TimeoutUnpaid, TimeoutUnanswered
  <2>2. /\ UNCHANGED <<reached, method>>
        /\ \A p \in Orders : status[p] = "NONE" => status'[p] = "NONE"
    BY <1>0, <2>1 DEF Cancel, TypeOK
  <2>3. /\ refunded \subseteq refunded' /\ RefundsOfTaken
        /\ \A p \in Orders : PaymentRowKept(p)
    <3>1. CASE reject_order(s) \/ TimeoutUnanswered(s)
      BY <2>1, <2>2, <3>1, RefundKeepsBooks DEF reject_order, TimeoutUnanswered
    <3>2. CASE TimeoutUnpaid(s)
      BY <3>2 DEF TimeoutUnpaid, RefundsOfTaken, PaymentRowKept
    <3> QED
      BY <1>5, <3>1, <3>2
  <2>4. RecordsKept
    BY <2>1, <2>2, <2>3 DEF RecordsKept
  <2> QED
    BY <2>1, <2>3, <2>4, EndKeepsBooks
<1> QED
  BY <1>2, <1>3, <1>4, <1>5

LEMMA RiderCommitsKeepBooks ==
    ASSUME BooksInv, CashInv', NEW s \in Sessions,
           \/ toggle_rider_online_status(s) \/ assign_rider_to_order(s)
           \/ mark_order_picked_up(s) \/ mark_order_delivered(s)
    PROVE  BooksInv'
<1> USE DEF payCols, orderCols, razorpay
<1> DEFINE o == txn[s].order
<1>0. TypeOK /\ StageSessionOK(txn[s])
  BY DEF BooksInv, CashInv, JourneyInv
<1>1. End(s) /\ UNCHANGED <<method, provPayment, rzpFor, rzpState, refunded>>
  BY DEF toggle_rider_online_status, assign_rider_to_order, mark_order_picked_up,
         mark_order_delivered
<1>2. \A p \in Orders : /\ status[p] = "NONE" => status'[p] = "NONE"
                        /\ reached[p] \subseteq reached'[p]
  <2>1. CASE toggle_rider_online_status(s)
    BY <2>1 DEF toggle_rider_online_status
  <2>2. CASE assign_rider_to_order(s) \/ mark_order_picked_up(s) \/ mark_order_delivered(s)
    <3>1. o \in Orders /\ status[o] # "NONE"
      BY <1>0, <2>2 DEF assign_rider_to_order, mark_order_picked_up, mark_order_delivered,
                        StageSessionOK, OrderOps, SessionOps
    <3>2. \E st : EnterStage(o, st)
      BY <2>2 DEF assign_rider_to_order, mark_order_picked_up, mark_order_delivered, EnterStage
    <3> QED
      BY <1>0, <3>1, <3>2 DEF EnterStage, TypeOK
  <2> QED
    BY <2>1, <2>2
<1>3. \A p \in Orders : payStatus'[p] = payStatus[p] \/ method[p] = "COD"
  BY <1>0 DEF toggle_rider_online_status, assign_rider_to_order, mark_order_picked_up,
              mark_order_delivered, TypeOK
<1>4. RecordsKept /\ RefundsOfTaken /\ \A p \in Orders : PaymentRowKept(p)
  BY <1>1, <1>2, <1>3 DEF RecordsKept, RefundsOfTaken, PaymentRowKept
<1> QED
  BY <1>1, <1>4, EndKeepsBooks

(* A rollback loses the writes, not what Razorpay has granted. *)
LEMMA RollbacksKeepBooks ==
    ASSUME BooksInv, CashInv', NEW s \in Sessions,
           \/ RefundAborts(s) \/ AssignConflict(s) \/ AlreadyEarned(s)
           \/ CrashAfterRefund(s) \/ Crash(s)
    PROVE  BooksInv'
<1> USE DEF payCols, orderCols, razorpay
<1>0. TypeOK /\ StageSessionOK(txn[s]) /\ BooksSessionOK(txn[s])
  BY DEF BooksInv, CashInv, JourneyInv
<1>1. CASE RefundAborts(s) \/ AssignConflict(s) \/ AlreadyEarned(s) \/ Crash(s)
  <2>1. End(s) /\ UNCHANGED booksCols
    BY <1>1 DEF RefundAborts, AssignConflict, AlreadyEarned, Crash, booksCols
  <2> QED
    BY <2>1, IdleHasNoOrder, BeginKeepsBooks DEF End
<1>2. CASE CrashAfterRefund(s)
  <2>1. TakenFor(txn[s].paid, txn[s].order) /\ txn[s].order \in Orders
    BY <1>0, <1>2 DEF CrashAfterRefund, RefundCallsProvider, RefundRaises, BooksSessionOK,
                      StageSessionOK, OrderOps, SessionOps
  <2>2. RecordsKept /\ RefundsOfTaken /\ \A p \in Orders : PaymentRowKept(p)
    BY <1>2, <2>1 DEF CrashAfterRefund, RecordsKept, RefundsOfTaken, PaymentRowKept
  <2> QED
    BY <1>2, <2>2, EndKeepsBooks DEF CrashAfterRefund
<1> QED
  BY <1>1, <1>2

LEMMA CheckoutKeepsBooks ==
    ASSUME BooksInv, CashInv', NEW o \in Orders, NEW m \in Methods,
           create_order_from_cart(o, m)
    PROVE  BooksInv'
<1>0. TypeOK
  BY DEF BooksInv, CashInv, JourneyInv
<1>1. /\ status[o] = "NONE"
      /\ status' = [status EXCEPT ![o] = IF m = "COD" THEN "PLACED" ELSE "AWAITING_PAYMENT"]
      /\ reached' = [reached EXCEPT ![o] = IF m = "COD" THEN {"PLACED"} ELSE {}]
      /\ method' = [method EXCEPT ![o] = m]
      /\ payStatus' = [payStatus EXCEPT ![o] = "PENDING"]
      /\ UNCHANGED <<provPayment, rzpFor, rzpState, refunded, txn>>
  BY DEF create_order_from_cart, razorpay
<1>2. \A z \in RzpIds : rzpFor[z] # o
  BY <1>1 DEF BooksInv, CashInv, JourneyInv, BlankUntilCheckout
<1>3. \A q \in Sessions : txn[q].order # o
  BY <1>1 DEF BooksInv, CashInv, JourneyInv, StageSessionOK
<1>4. \A p \in Orders \ {o} : /\ status'[p] = status[p] /\ reached'[p] = reached[p]
                              /\ method'[p] = method[p] /\ payStatus'[p] = payStatus[p]
  BY <1>0, <1>1 DEF TypeOK
<1>5. method'[o] = m /\ m \in PaymentProvider /\ payStatus'[o] = "PENDING"
  BY <1>0, <1>1, StoreAssumption DEF TypeOK
<1>6. \A z, p : p # o => (TakenFor(z, p) => p \notin Orders \/ TakenAfter(z, p))
  BY <1>1, <1>4 DEF TakenFor, TakenAfter
<1>7. \A q \in Sessions : BooksSessionOK(txn[q])'
  BY <1>1, <1>3, <1>4 DEF BooksInv, BooksSessionOK, TakenFor
<1>8. \A p \in Orders : provPayment'[p] # NoRzp => TakenAfter(provPayment'[p], p)
  BY <1>1, <1>2, <1>6 DEF BooksInv, TakenFor
<1>9. BooksMatchRazorpay'
  BY <1>1, <1>4, <1>5 DEF BooksInv, BooksMatchRazorpay
<1>10. RefundedWasPlaced'
  BY <1>0, <1>1, <1>2, <1>4 DEF BooksInv, RefundedWasPlaced, TypeOK
<1>11. \A p \in Orders : status'[p] # "NONE" => method'[p] \in PaymentProvider
  BY <1>4, <1>5 DEF BooksInv
<1> QED
  BY <1>7, <1>8, <1>9, <1>10, <1>11 DEF BooksInv, TakenFor, TakenAfter

LEMMA RazorpayKeepsBooks ==
    ASSUME BooksInv, CashInv', Razorpay
    PROVE  BooksInv'
<1>0. TypeOK
  BY DEF BooksInv, CashInv, JourneyInv
<1>1. UNCHANGED <<orderCols, payCols, txn, rzpFor, refunded>>
  BY DEF Razorpay, CustomerPays, PaymentAttemptFails
<1>2. \A z \in RzpIds : rzpState[z] = "paid" => rzpState'[z] = "paid"
  BY <1>0 DEF Razorpay, CustomerPays, PaymentAttemptFails, TypeOK
<1>3. RecordsKept /\ RefundsOfTaken /\ \A p \in Orders : PaymentRowKept(p)
  BY <1>1, <1>2 DEF RecordsKept, RefundsOfTaken, PaymentRowKept, orderCols, payCols
<1>4. \A q \in Sessions : BooksSessionOK(txn[q])'
  BY <1>1, <1>2 DEF BooksInv, BooksSessionOK, TakenFor, orderCols, payCols
<1> QED
  BY <1>3, <1>4, BooksKept DEF BooksInv, TakenFor, TakenAfter

LEMMA NextKeepsBooks ==
    ASSUME BooksInv, [Next]_vars
    PROVE  BooksInv'
<1>0. CashInv'
  BY NextKeepsCash DEF BooksInv
<1>1. CASE UNCHANGED vars
  BY <1>0, <1>1 DEF BooksInv, BooksSessionOK, BooksMatchRazorpay, RefundedWasPlaced,
                    TakenFor, vars, orderCols, payCols, razorpay
<1>2. CASE Checkout
  BY <1>0, <1>2, CheckoutKeepsBooks DEF Checkout
<1>3. CASE Razorpay
  BY <1>0, <1>3, RazorpayKeepsBooks
<1>4. CASE Arrival
  BY <1>0, <1>4, ArrivalKeepsBooks
<1>5. ASSUME NEW s \in Sessions, Finish(s) PROVE BooksInv'
  BY <1>0, <1>5, PaymentCommitsKeepBooks, OrderCommitsKeepBooks, RiderCommitsKeepBooks,
     RollbacksKeepBooks
  DEF Finish
<1>6. ASSUME NEW s \in Sessions, CrashAfterRefund(s) \/ Crash(s) PROVE BooksInv'
  BY <1>0, <1>6, RollbacksKeepBooks
<1> QED
  BY <1>1, <1>2, <1>3, <1>4, <1>5, <1>6 DEF Next

(* The inductive invariant holds throughout. *)
THEOREM BooksInvariant == Spec => []BooksInv
<1>1. Init => BooksInv
  <2> SUFFICES ASSUME Init PROVE BooksInv
    OBVIOUS
  <2>1. BooksMatchRazorpay /\ RefundedWasPlaced
    BY DEF Init, BooksMatchRazorpay, RefundedWasPlaced
  <2> QED
    BY <2>1, InitCash, IdleHasNoOrder DEF Init, BooksInv
<1>2. BooksInv /\ [Next]_vars => BooksInv'
  BY NextKeepsBooks
<1> QED
  BY <1>1, <1>2, PTL DEF Spec

(* However webhooks, refunds and timeouts overlap or die half way, PAID    *)
(* names a payment Razorpay took in full for this very order, which has    *)
(* been placed, and REFUND_PENDING one it has given back.                  *)
THEOREM BooksAgree == Spec => []BooksMatchRazorpay
<1>1. BooksInv => BooksMatchRazorpay
  BY DEF BooksInv
<1> QED
  BY <1>1, BooksInvariant, PTL

(* Razorpay is never asked to give back money of an order that was never   *)
(* placed, or that it did not take.                                        *)
THEOREM OnlyPlacedIsRefunded == Spec => []RefundedWasPlaced
<1>1. BooksInv => RefundedWasPlaced
  BY DEF BooksInv
<1> QED
  BY <1>1, BooksInvariant, PTL

(* The safety half of CaptureReachesOrder: as long as the order of a paid  *)
(* Razorpay order is not placed, the webhook's guard on PAID lets the      *)
(* capture through, whatever short or failed attempts, refunds and         *)
(* timeouts have written to the payment before (handle_payment_captured).  *)
THEOREM CapturesAreTaken ==
    Spec => [](\A o \in Orders, z \in RzpIds :
                  rzpState[z] = "paid" /\ provOrder[o] = z /\ "PLACED" \notin reached[o]
                      => payStatus[o] # "PAID")
<1>1. BooksInv => \A o \in Orders : payStatus[o] = "PAID" => "PLACED" \in reached[o]
  <2> SUFFICES ASSUME BooksInv, NEW o \in Orders, payStatus[o] = "PAID" PROVE "PLACED" \in reached[o]
    OBVIOUS
  <2>1. CASE method[o] # "COD"
    BY <2>1 DEF BooksInv, BooksMatchRazorpay
  <2>2. CASE method[o] = "COD"
    <3>1. "DELIVERED" \in reached[o]
      BY <2>2 DEF BooksInv, CashInv, CashCollected
    <3>2. \A st \in reached[o] \ {"PLACED"} : Before[st] \in reached[o]
      BY DEF BooksInv, CashInv, JourneyInv, NoStageSkipped
    <3>3. {"OUT_FOR_DELIVERY", "RIDER_ASSIGNED", "READY_FOR_PICKUP"} \subseteq reached[o]
      BY <3>1, <3>2 DEF Before, Stages
    <3> QED
      BY <3>2, <3>3 DEF Before, Stages
  <2> QED
    BY <2>1, <2>2
<1>2. BooksInv => \A o \in Orders, z \in RzpIds :
          rzpState[z] = "paid" /\ provOrder[o] = z /\ "PLACED" \notin reached[o] => payStatus[o] # "PAID"
  BY <1>1
<1> QED
  BY <1>2, BooksInvariant, PTL
-----------------------------------------------------------------------------
(* Refunds: which are granted, and what has become of their orders. *)

(* A fault is counted, so faults = 0 says that none has happened. *)
LEMMA FaultCounts ==
    ASSUME TypeOK, Fault
    PROVE  faults' # 0
BY DEF TypeOK, Fault

LEMMA RefundsKept ==
    ASSUME RefundsInv, BooksInv', faults' = 0 => faults = 0,
           \A o \in Orders : reached[o] \subseteq reached'[o],
           \A o \in Orders : reason[o] # "NONE" => reason'[o] # "NONE",
           \A o \in Orders : status'[o] = "CANCELLED" => status[o] = "CANCELLED" \/ reason'[o] # "NONE",
           \A z \in RzpIds : rzpFor[z] \in Orders => rzpFor'[z] = rzpFor[z],
           \A z \in refunded' \ refunded : faults' = 0 => rzpFor[z] \in Orders /\ Ended(rzpFor[z])',
           \A q \in Sessions : txn'[q] = txn[q] \/ RefundSessionOK(txn'[q]),
           \A q \in Sessions : txn'[q].order \in Orders =>
               method'[txn'[q].order] = method[txn'[q].order]
    PROVE  RefundsInv'
<1>0. TypeOK /\ TypeOK'
  BY DEF RefundsInv, BooksInv, CashInv, JourneyInv
<1>1. \A q \in Sessions : RefundSessionOK(txn'[q])
  BY DEF RefundsInv
<1>2. \A q \in Sessions : RefundSessionOK(txn[q])'
  BY <1>1 DEF RefundSessionOK
<1>3. \A o \in Orders : status'[o] = "CANCELLED" => reason'[o] # "NONE"
  BY DEF RefundsInv
<1>4. ASSUME NEW z \in refunded', faults' = 0 PROVE Ended(rzpFor[z])' /\ rzpFor'[z] = rzpFor[z]
  <2>1. z \in RzpIds
    BY <1>0, <1>4 DEF TypeOK
  <2>2. CASE z \in refunded
    <3>1. rzpFor[z] \in Orders /\ Ended(rzpFor[z])
      BY <1>4, <2>2 DEF RefundsInv, BooksInv, RefundedWasPlaced
    <3>2. rzpFor'[z] = rzpFor[z]
      BY <2>1, <3>1
    <3> QED
      BY <3>1, <3>2 DEF Ended
  <2>3. CASE z \notin refunded
    BY <1>4, <2>1, <2>3 DEF Ended
  <2> QED
    BY <2>2, <2>3
<1>5. faults' = 0 => \A z \in refunded' : Ended(rzpFor[z])'
  BY <1>4
<1> QED
  BY <1>2, <1>3, <1>5 DEF RefundsInv, Ended

LEMMA BeginKeepsRefunds ==
    ASSUME RefundsInv, BooksInv', NEW s \in Sessions, NEW rec, RefundSessionOK(rec), Begin(s, rec),
           UNCHANGED <<status, reason, reached, method, rzpFor, refunded, faults>>
    PROVE  RefundsInv'
<1>1. \A q \in Sessions : txn'[q] = txn[q] \/ RefundSessionOK(txn'[q])
  BY DEF Begin, RefundsInv, BooksInv, CashInv, JourneyInv, TypeOK
<1> QED
  BY <1>1, RefundsKept

LEMMA ArrivalKeepsRefunds ==
    ASSUME RefundsInv, BooksInv', Arrival
    PROVE  RefundsInv'
<1> USE DEF orderCols, razorpay
<1>0. TypeOK
  BY DEF RefundsInv, BooksInv, CashInv, JourneyInv
<1>1. ASSUME NEW rec, rec.op \notin {"reject", "timeout"},
             rec.why # "NONE" => \E o \in Orders : rec.order = o /\ rec.why = reason[o]
      PROVE  RefundSessionOK(rec)
  BY <1>1 DEF RefundSessionOK
<1>2. ASSUME NEW op, NEW o \in Orders
      PROVE  RefundSessionOK(OrderAndPayment(op, o))
  <2>1. /\ OrderAndPayment(op, o).order = o /\ OrderAndPayment(op, o).why = reason[o]
        /\ OrderAndPayment(op, o).paid = provPayment[o] /\ OrderAndPayment(op, o).pay = payStatus[o]
    BY DEF OrderAndPayment, Touch, Idle
  <2>2. payStatus[o] = "PAID" /\ method[o] # "COD" => provPayment[o] # NoRzp
    BY StoreAssumption DEF RefundsInv, BooksInv, BooksMatchRazorpay
  <2> QED
    BY <2>1, <2>2 DEF RefundSessionOK
<1>3. ASSUME NEW op, op \notin {"reject", "timeout"}, NEW o \in Orders
      PROVE  RefundSessionOK(Touch(op, o))
  BY <1>1, <1>3 DEF Touch, Idle
<1>4. ASSUME NEW s \in Sessions, NEW o \in Orders, InitiateRead(s, o) PROVE RefundsInv'
  BY <1>3, <1>4, BeginKeepsRefunds DEF InitiateRead
<1>5. ASSUME NEW s \in Sessions, NEW z \in RzpIds, NEW o \in Orders,
             CapturedRead(s, z, o) \/ FailedRead(s, z, o)
      PROVE  RefundsInv'
  <2> DEFINE rec == [OrderAndPayment(IF rzpState[z] = "paid" THEN "captured" ELSE "short", o)
                        EXCEPT !.rzp = z]
  <2>1. rec.op \in {"captured", "short"} /\ rec.order = o /\ rec.why = reason[o]
    BY DEF OrderAndPayment, Touch, Idle
  <2>2. RefundSessionOK(rec) /\ RefundSessionOK(Touch("failed", o))
    BY <1>1, <1>3, <2>1
  <2>3. Begin(s, rec) \/ Begin(s, Touch("failed", o))
    BY <1>5 DEF CapturedRead, FailedRead
  <2> HIDE DEF rec
  <2> QED
    BY <1>5, <2>2, <2>3, BeginKeepsRefunds DEF CapturedRead, FailedRead
<1>6. ASSUME NEW s \in Sessions, NEW op \in DOMAIN Checks, NEW o \in Orders,
             RestaurantRead(s, op, o)
      PROVE  RefundsInv'
  <2>1. op # "timeout"
    BY DEF Checks
  <2> QED
    BY <1>2, <1>3, <1>6, <2>1, BeginKeepsRefunds DEF RestaurantRead
<1>7. ASSUME NEW s \in Sessions, NEW r \in Riders, GoOnlineRead(s, r) \/ GoOfflineRead(s, r)
      PROVE  RefundsInv'
  <2>1. RefundSessionOK(RiderRow("online", r)) /\ RefundSessionOK(RiderRow("offline", r))
    BY <1>1 DEF RiderRow, Idle
  <2> QED
    BY <1>7, <2>1, BeginKeepsRefunds DEF GoOnlineRead, GoOfflineRead
<1>8. ASSUME NEW s \in Sessions, NEW r \in Riders, NEW o \in Orders,
             AssignRead(s, r, o) \/ PickupRead(s, r, o) \/ DeliverRead(s, r, o)
      PROVE  RefundsInv'
  <2> DEFINE row(op) == [Touch(op, o) EXCEPT !.rider = r]
             rec == [Touch("deliver", o) EXCEPT !.rider = r, !.pay = payStatus[o],
                                       !.avail = available[r], !.done = deliveries[r]]
  <2>1. ASSUME NEW op, op \notin {"reject", "timeout"} PROVE RefundSessionOK(row(op))
    BY <1>1, <2>1 DEF Touch, Idle
  <2>2. rec.op = "deliver" /\ rec.why = "NONE"
    BY DEF Touch, Idle
  <2>3. RefundSessionOK(rec)
    BY <1>1, <2>2
  <2>4. Begin(s, row("assign")) \/ Begin(s, row("pickup")) \/ Begin(s, rec)
    BY <1>8 DEF AssignRead, PickupRead, DeliverRead
  <2>5. RefundSessionOK(row("assign")) /\ RefundSessionOK(row("pickup"))
    BY <2>1
  <2> HIDE DEF rec, row
  <2> QED
    BY <1>8, <2>3, <2>4, <2>5, BeginKeepsRefunds DEF AssignRead, PickupRead, DeliverRead
<1>9. ASSUME NEW s \in Sessions, NEW o \in Orders, TimeoutRead(s, o) PROVE RefundsInv'
  BY <1>2, <1>9, BeginKeepsRefunds DEF TimeoutRead
<1>10. ASSUME NEW o \in Orders, TimeoutTooLate(o) \/ check_rider_assignment_timeout(o)
       PROVE  RefundsInv'
  <2>1. /\ UNCHANGED <<txn, status, reason, reached, method, rzpFor>>
        /\ \A z \in refunded' \ refunded :
             status[o] = "READY_FOR_PICKUP" /\ z = provPayment[o] /\ z # NoRzp
    BY <1>10 DEF TimeoutTooLate, check_rider_assignment_timeout, RefundCallsProvider, RefundRaises,
                 OrderAndPayment, Touch, Idle
  <2>2. status[o] = "READY_FOR_PICKUP" => "READY_FOR_PICKUP" \in reached[o]
    BY DEF RefundsInv, BooksInv, CashInv, JourneyInv, NoStageSkipped, Stages
  <2>3. provPayment[o] # NoRzp => rzpFor[provPayment[o]] = o
    BY DEF RefundsInv, BooksInv, TakenFor
  <2>4. \A z \in refunded' \ refunded : rzpFor[z] \in Orders /\ Ended(rzpFor[z])'
    BY <2>1, <2>2, <2>3 DEF Ended
  <2>5. faults' = 0 => faults = 0
    BY <1>0, <1>10, FaultCounts DEF TimeoutTooLate, check_rider_assignment_timeout
  <2> QED
    BY <2>1, <2>4, <2>5, RefundsKept
<1> QED
  BY <1>4, <1>5, <1>6, <1>7, <1>8, <1>9, <1>10
  DEF Arrival, WebhookArrives, RestaurantArrives, RiderArrives, ResponseTimeout

LEMMA CommitsKeepRefunds ==
    ASSUME RefundsInv, BooksInv', NEW s \in Sessions,
           Finish(s) \/ CrashAfterRefund(s) \/ Crash(s)
    PROVE  RefundsInv'
<1> USE DEF orderCols, razorpay
<1> DEFINE t == txn[s]
<1>0. TypeOK /\ StageSessionOK(t) /\ BooksSessionOK(t) /\ RefundSessionOK(t)
  BY DEF RefundsInv, BooksInv, CashInv, JourneyInv
<1>1. RefundSessionOK(Idle)
  BY DEF RefundSessionOK, Idle
<1>2. ASSUME End(s), UNCHANGED <<method, reason>>, faults' = 0 => faults = 0,
             \A o \in Orders : reached[o] \subseteq reached'[o],
             \A o \in Orders : status'[o] = "CANCELLED" => status[o] = "CANCELLED",
             \A z \in RzpIds : rzpFor[z] \in Orders => rzpFor'[z] = rzpFor[z],
             faults' = 0 => refunded' = refunded
      PROVE  RefundsInv'
  <2>1. \A q \in Sessions : txn'[q] = txn[q] \/ RefundSessionOK(txn'[q])
    BY <1>0, <1>1, <1>2 DEF End, TypeOK
  <2> QED
    BY <1>2, <2>1, RefundsKept
<1>3. ASSUME NEW st \in Stages, EnterStage(t.order, st), End(s), t.op \in OrderOps,
             UNCHANGED <<method, reason, razorpay>>, faults' = 0 => faults = 0
      PROVE  RefundsInv'
  <2>1. t.order \in Orders
    BY <1>0, <1>3 DEF StageSessionOK
  <2>2. /\ \A o \in Orders : reached[o] \subseteq reached'[o]
        /\ \A o \in Orders : status'[o] = "CANCELLED" => status[o] = "CANCELLED"
    BY <1>0, <1>3, <2>1 DEF EnterStage, TypeOK, Stages
  <2> QED
    BY <1>2, <1>3, <2>2
<1>4. CASE (\E z \in RzpIds : InitiateCommit(s, z)) \/ ShortCommit(s) \/ FailedCommit(s)
  <2>1. \A y \in RzpIds : rzpFor[y] \in Orders => rzpFor'[y] = rzpFor[y]
    BY <1>0, <1>4, StoreAssumption DEF InitiateCommit, ShortCommit, FailedCommit, TypeOK
  <2> QED
    BY <1>2, <1>4, <2>1 DEF InitiateCommit, ShortCommit, FailedCommit
<1>5. CASE CapturedCommit(s)
  <2>1. t.order \in Orders
    BY <1>0, <1>5 DEF CapturedCommit, StageSessionOK, OrderOps, SessionOps
  <2>2. /\ \A o \in Orders : reached[o] \subseteq reached'[o]
        /\ \A o \in Orders : status'[o] = "CANCELLED" => status[o] = "CANCELLED"
    BY <1>0, <1>5, <2>1 DEF CapturedCommit, Flush, TypeOK
  <2> QED
    BY <1>2, <1>5, <2>2 DEF CapturedCommit
<1>6. CASE reject_order(s) \/ TimeoutUnpaid(s) \/ TimeoutUnanswered(s)
  <2>1. t.order \in Orders
    BY <1>0, <1>6 DEF reject_order, TimeoutUnpaid, TimeoutUnanswered, StageSessionOK, OrderOps, SessionOps
  <2>2. PICK why \in CancellationReason : Cancel(t, why)
    BY <1>6 DEF reject_order, TimeoutUnpaid, TimeoutUnanswered, CancellationReason
  <2>3. /\ UNCHANGED <<reached, method, rzpFor, faults>> /\ End(s)
        /\ \A z \in refunded' \ refunded : t.op \in {"reject", "timeout"} /\ z = t.paid /\ z # NoRzp
    BY <1>6, <2>2 DEF reject_order, TimeoutUnpaid, TimeoutUnanswered, Cancel, initiate_refund,
                      RefundRaises, RefundCallsProvider
  <2>4. t.why = why => reason[t.order] # "NONE"
    BY <1>0, <2>1 DEF RefundSessionOK, CancellationReason
  <2>5. /\ reason'[t.order] # "NONE"
        /\ \A o \in Orders \ {t.order} : status'[o] = status[o] /\ reason'[o] = reason[o]
    BY <1>0, <2>1, <2>2, <2>4 DEF Cancel, Flush, CancellationReason, TypeOK
  <2>6. \A z \in refunded' \ refunded : rzpFor[z] = t.order
    BY <1>0, <2>1, <2>3 DEF BooksSessionOK, TakenFor
  <2>7. \A z \in refunded' \ refunded : rzpFor[z] \in Orders /\ Ended(rzpFor[z])'
    BY <2>1, <2>3, <2>5, <2>6 DEF Ended
  <2>8. \A q \in Sessions : txn'[q] = txn[q] \/ RefundSessionOK(txn'[q])
    BY <1>0, <1>1, <2>3 DEF End, TypeOK
  <2> QED
    BY <2>3, <2>5, <2>7, <2>8, RefundsKept
<1>7. CASE accept_order(s)
  BY <1>3, <1>7 DEF accept_order, Writes, Stages, OrderOps, SessionOps
<1>8. CASE change_order_status_to_preparing(s)
  BY <1>3, <1>8 DEF change_order_status_to_preparing, Writes, Stages, OrderOps, SessionOps
<1>9. CASE change_order_status_to_ready_for_pickup(s)
  <2>1. faults' = 0 => faults = 0
    BY <1>0, <1>9 DEF change_order_status_to_ready_for_pickup, Fault, TypeOK
  <2> QED
    BY <1>3, <1>9, <2>1 DEF change_order_status_to_ready_for_pickup, Writes, Stages, OrderOps, SessionOps
<1>10. CASE toggle_rider_online_status(s) \/ AssignConflict(s) \/ AlreadyEarned(s)
  BY <1>2, <1>10 DEF toggle_rider_online_status, AssignConflict, AlreadyEarned
<1>11. CASE assign_rider_to_order(s)
  BY <1>3, <1>11 DEF assign_rider_to_order, EnterStage, Stages, OrderOps, SessionOps
<1>12. CASE mark_order_picked_up(s)
  BY <1>3, <1>12 DEF mark_order_picked_up, EnterStage, Stages, OrderOps, SessionOps
<1>13. CASE mark_order_delivered(s)
  BY <1>3, <1>13 DEF mark_order_delivered, EnterStage, Stages, OrderOps, SessionOps
<1>14. CASE RefundAborts(s) \/ CrashAfterRefund(s) \/ Crash(s)
  <2>1. faults' = 0 => faults = 0 /\ refunded' = refunded
    BY <1>0, <1>14 DEF RefundAborts, CrashAfterRefund, Crash, Fault, TypeOK
  <2> QED
    BY <1>2, <1>14, <2>1 DEF RefundAborts, CrashAfterRefund, Crash
<1> QED
  BY <1>4, <1>5, <1>6, <1>7, <1>8, <1>9, <1>10, <1>11, <1>12, <1>13, <1>14 DEF Finish

LEMMA NextKeepsRefunds ==
    ASSUME RefundsInv, [Next]_vars
    PROVE  RefundsInv'
<1> USE DEF orderCols, razorpay
<1>0. TypeOK /\ BooksInv'
  BY NextKeepsBooks DEF RefundsInv, BooksInv, CashInv, JourneyInv
<1>1. ASSUME UNCHANGED <<orderCols, rzpFor, refunded, txn, faults>> PROVE RefundsInv'
  BY <1>0, <1>1, RefundsKept
<1>2. CASE UNCHANGED vars
  BY <1>1, <1>2 DEF vars
<1>3. ASSUME NEW o \in Orders, NEW m \in Methods, create_order_from_cart(o, m) PROVE RefundsInv'
  <2>1. /\ UNCHANGED <<reason, rzpFor, refunded, txn>>
        /\ status[o] = "NONE"
        /\ status' = [status EXCEPT ![o] = IF m = "COD" THEN "PLACED" ELSE "AWAITING_PAYMENT"]
        /\ reached' = [reached EXCEPT ![o] = IF m = "COD" THEN {"PLACED"} ELSE {}]
        /\ method' = [method EXCEPT ![o] = m]
    BY <1>3 DEF create_order_from_cart
  <2>2. faults' = 0 => faults = 0
    BY <1>0, <1>3 DEF create_order_from_cart, Fault, TypeOK
  <2>3. reached[o] = {} /\ \A q \in Sessions : txn[q].order # o
    BY <2>1 DEF RefundsInv, BooksInv, CashInv, JourneyInv, BlankUntilCheckout, StageSessionOK
  <2>4. /\ \A p \in Orders : reached[p] \subseteq reached'[p]
        /\ \A p \in Orders : status'[p] = "CANCELLED" => status[p] = "CANCELLED"
        /\ \A p \in Orders \ {o} : method'[p] = method[p]
    BY <1>0, <2>1, <2>3 DEF TypeOK
  <2>5. \A q \in Sessions : txn'[q].order \in Orders =>
          method'[txn'[q].order] = method[txn'[q].order]
    BY <2>1, <2>3, <2>4
  <2> QED
    BY <1>0, <2>1, <2>2, <2>4, <2>5, RefundsKept
<1>4. CASE Razorpay
  BY <1>1, <1>4 DEF Razorpay, CustomerPays, PaymentAttemptFails
<1>5. CASE Arrival
  BY <1>0, <1>5, ArrivalKeepsRefunds
<1>6. ASSUME NEW s \in Sessions, Finish(s) \/ CrashAfterRefund(s) \/ Crash(s) PROVE RefundsInv'
  BY <1>0, <1>6, CommitsKeepRefunds
<1> QED
  BY <1>2, <1>3, <1>4, <1>5, <1>6 DEF Next, Checkout

LEMMA InitRefunds == Init => RefundsInv
<1> SUFFICES ASSUME Init PROVE RefundsInv
  OBVIOUS
<1>1. BooksMatchRazorpay /\ RefundedWasPlaced
  BY DEF Init, BooksMatchRazorpay, RefundedWasPlaced
<1>2. BooksInv
  BY <1>1, InitCash, IdleHasNoOrder DEF Init, BooksInv
<1> QED
  BY <1>2 DEF Init, RefundsInv, RefundSessionOK, Idle

-----------------------------------------------------------------------------
(* Waits: a step may end one, and only checkout begins one. *)

WaitKept(o) ==
    /\ reached[o] \subseteq reached'[o]
    /\ status'[o] = "AWAITING_PAYMENT" => status[o] = "AWAITING_PAYMENT" /\ reached'[o] = reached[o]
    /\ Waits(o)' => Waits(o)

(* What the handler read as placed has been placed. *)
ReadPlaced(t) == t.op \in {"captured", "reject", "timeout"} /\ t.status = "PLACED"

LEMMA WatchKept ==
    ASSUME WatchInv, RefundsInv', UNCHANGED method, faults' = 0 => faults = 0,
           \A o \in Orders : WaitKept(o),
           \A s \in Sessions : ReadPlaced(txn'[s]) =>
               txn'[s] = txn[s] \/ "PLACED" \in reached[txn'[s].order],
           \A s \in Sessions : ReadPlaced(txn'[s]) => txn'[s].order \in Orders,
           faults' = 0 => \A o \in Orders : Waits(o)' /\ Watched(o) => Watched(o)'
    PROVE  WatchInv'
<1>1. \A o \in Orders : status'[o] = "AWAITING_PAYMENT" => reached'[o] = {}
  BY DEF WatchInv, WaitKept
<1>2. \A s \in Sessions : ReadPlaced(txn'[s]) => "PLACED" \in reached'[txn'[s].order]
  BY DEF WatchInv, ReadPlaced, WaitKept
<1>3. \A o \in Orders : Waits(o)' => Waits(o)
  BY DEF WaitKept
<1>4. WaitingIsWatched'
  BY <1>3 DEF WatchInv, WaitingIsWatched
<1> QED
  BY <1>1, <1>2, <1>4 DEF WatchInv, ReadPlaced

(* A session begins; if it is the timeout, it takes over from the queue. *)
LEMMA BeginKeepsWatch ==
    ASSUME WatchInv, RefundsInv', NEW s \in Sessions, NEW rec, Begin(s, rec),
           UNCHANGED <<status, reached, reason, method, faults>>,
           ReadPlaced(rec) => rec.order \in Orders /\ status[rec.order] = "PLACED",
           \A o \in responseTimer \ responseTimer' : rec.op = "timeout" /\ rec.order = o
    PROVE  WatchInv'
<1>1. \A q \in Sessions : txn'[q] = IF q = s THEN rec ELSE txn[q]
  BY DEF Begin, WatchInv, RefundsInv, BooksInv, CashInv, JourneyInv, TypeOK
<1>2. ReadPlaced(rec) => "PLACED" \in reached[rec.order]
  BY DEF WatchInv, RefundsInv, BooksInv, CashInv, JourneyInv, NoStageSkipped, Stages
<1>3. \A q \in Sessions : ReadPlaced(txn[q]) => txn[q].order \in Orders
  BY DEF WatchInv, RefundsInv, BooksInv, CashInv, JourneyInv, StageSessionOK, OrderOps, SessionOps, ReadPlaced
<1>4. txn[s].op # "timeout"
  BY DEF Begin, Idle
<1>5. \A o \in Orders : Watched(o) => Watched(o)'
  BY <1>1, <1>4 DEF Watched
<1>6. \A o \in Orders : WaitKept(o)
  BY DEF WaitKept, Waits, Unanswered
<1> QED
  BY <1>1, <1>2, <1>3, <1>5, <1>6, WatchKept

(* A session ends; the timeout ends the wait of its order, or has failed. *)
LEMMA EndKeepsWatch ==
    ASSUME WatchInv, RefundsInv', NEW s \in Sessions, End(s), UNCHANGED <<method, responseTimer>>,
           faults' = 0 => faults = 0, \A o \in Orders : WaitKept(o),
           \A o \in Orders : txn[s].op = "timeout" /\ txn[s].order = o /\ faults' = 0 => ~Waits(o)'
    PROVE  WatchInv'
<1>1. \A q \in Sessions : txn'[q] = IF q = s THEN Idle ELSE txn[q]
  BY DEF End, WatchInv, RefundsInv, BooksInv, CashInv, JourneyInv, TypeOK
<1>2. \A q \in Sessions : ReadPlaced(txn'[q]) => txn'[q] = txn[q] /\ txn'[q].order \in Orders
  BY <1>1 DEF WatchInv, RefundsInv, BooksInv, CashInv, JourneyInv, StageSessionOK, OrderOps, SessionOps, ReadPlaced, Idle
<1>3. faults' = 0 => \A o \in Orders : Waits(o)' /\ Watched(o) => Watched(o)'
  BY <1>1 DEF Watched
<1> QED
  BY <1>2, <1>3, WatchKept

LEMMA ArrivalKeepsWatch ==
    ASSUME WatchInv, RefundsInv', Arrival
    PROVE  WatchInv'
<1> USE DEF orderCols, queue
<1>0. TypeOK
  BY DEF WatchInv, RefundsInv, BooksInv, CashInv, JourneyInv
<1>1. ASSUME NEW s \in Sessions, NEW rec, NEW o \in Orders, Begin(s, rec), rec.order = o,
             UNCHANGED <<orderCols, queue, faults>>, ReadPlaced(rec) => rec.status = status[o]
      PROVE  WatchInv'
  BY <1>1, BeginKeepsWatch DEF ReadPlaced
<1>2. ASSUME NEW s \in Sessions, NEW o \in Orders, InitiateRead(s, o) PROVE WatchInv'
  <2>1. ~ReadPlaced(Touch("initiate", o)) /\ Touch("initiate", o).order = o
    BY DEF ReadPlaced, Touch, Idle
  <2> QED
    BY <1>1, <1>2, <2>1 DEF InitiateRead
<1>3. ASSUME NEW s \in Sessions, NEW z \in RzpIds, NEW o \in Orders,
             CapturedRead(s, z, o) \/ FailedRead(s, z, o)
      PROVE  WatchInv'
  <2> DEFINE rec == [OrderAndPayment(IF rzpState[z] = "paid" THEN "captured" ELSE "short", o)
                        EXCEPT !.rzp = z]
  <2>1. rec.order = o /\ rec.status = status[o]
    BY DEF OrderAndPayment, Touch, Idle
  <2>2. ~ReadPlaced(Touch("failed", o)) /\ Touch("failed", o).order = o
    BY DEF ReadPlaced, Touch, Idle
  <2>3. /\ Begin(s, rec) \/ Begin(s, Touch("failed", o))
        /\ UNCHANGED <<orderCols, queue, faults>>
    BY <1>3 DEF CapturedRead, FailedRead
  <2> HIDE DEF rec
  <2> QED
    BY <1>1, <2>1, <2>2, <2>3
<1>4. ASSUME NEW s \in Sessions, NEW op \in DOMAIN Checks, NEW o \in Orders,
             RestaurantRead(s, op, o)
      PROVE  WatchInv'
  <2> DEFINE rec == IF op = "reject" THEN OrderAndPayment(op, o) ELSE Touch(op, o)
  <2>1. rec.order = o /\ (ReadPlaced(rec) => rec.status = status[o])
    BY DEF OrderAndPayment, Touch, Idle, ReadPlaced
  <2>2. Begin(s, rec) /\ UNCHANGED <<orderCols, queue, faults>>
    BY <1>4 DEF RestaurantRead
  <2> HIDE DEF rec
  <2> QED
    BY <1>1, <2>1, <2>2
<1>5. ASSUME NEW s \in Sessions, NEW r \in Riders, GoOnlineRead(s, r) \/ GoOfflineRead(s, r)
      PROVE  WatchInv'
  <2>1. ~ReadPlaced(RiderRow("online", r)) /\ ~ReadPlaced(RiderRow("offline", r))
    BY DEF ReadPlaced, RiderRow, Idle
  <2> QED
    BY <1>5, <2>1, BeginKeepsWatch DEF GoOnlineRead, GoOfflineRead
<1>6. ASSUME NEW s \in Sessions, NEW r \in Riders, NEW o \in Orders,
             AssignRead(s, r, o) \/ PickupRead(s, r, o) \/ DeliverRead(s, r, o)
      PROVE  WatchInv'
  <2>1. PICK rec : /\ Begin(s, rec) /\ rec.order = o /\ ~ReadPlaced(rec)
                   /\ UNCHANGED <<orderCols, queue, faults>>
    BY <1>6 DEF AssignRead, PickupRead, DeliverRead, ReadPlaced, Touch, Idle
  <2> QED
    BY <1>1, <2>1
<1>7. ASSUME NEW s \in Sessions, NEW o \in Orders, TimeoutRead(s, o) PROVE WatchInv'
  <2> DEFINE rec == OrderAndPayment("timeout", o)
  <2>1. rec.op = "timeout" /\ rec.order = o /\ rec.status = status[o]
    BY DEF OrderAndPayment, Touch, Idle
  <2>2. /\ Begin(s, rec) /\ responseTimer' = responseTimer \ {o}
        /\ UNCHANGED <<status, reached, reason, method, faults>>
    BY <1>7 DEF TimeoutRead
  <2>3. ReadPlaced(rec) => status[o] = "PLACED"
    BY <2>1 DEF ReadPlaced
  <2> HIDE DEF rec
  <2> QED
    BY <2>1, <2>2, <2>3, BeginKeepsWatch
<1>8. ASSUME NEW o \in Orders, TimeoutTooLate(o) \/ check_rider_assignment_timeout(o)
      PROVE  WatchInv'
  <2>1. /\ UNCHANGED <<status, reached, reason, method, txn>>
        /\ \A p \in responseTimer \ responseTimer' : ~Waits(p)
    BY <1>8 DEF TimeoutTooLate, check_rider_assignment_timeout, Waits
  <2>2. \A p \in Orders : Waits(p)' /\ Watched(p) => Watched(p)'
    BY <2>1 DEF Waits, Unanswered, Watched
  <2>3. \A q \in Sessions : ReadPlaced(txn[q]) => txn[q].order \in Orders
    BY DEF WatchInv, RefundsInv, BooksInv, CashInv, JourneyInv, StageSessionOK, OrderOps, SessionOps, ReadPlaced
  <2>4. \A p \in Orders : WaitKept(p)
    BY <2>1 DEF WaitKept, Waits, Unanswered
  <2>5. faults' = 0 => faults = 0
    BY <1>0, <1>8, FaultCounts DEF TimeoutTooLate, check_rider_assignment_timeout
  <2> QED
    BY <2>1, <2>2, <2>3, <2>4, <2>5, WatchKept
<1> QED
  BY <1>2, <1>3, <1>4, <1>5, <1>6, <1>7, <1>8
  DEF Arrival, WebhookArrives, RestaurantArrives, RiderArrives, ResponseTimeout

LEMMA CommitsKeepWatch ==
    ASSUME WatchInv, RefundsInv', NEW s \in Sessions, Finish(s)
    PROVE  WatchInv'
<1> USE DEF orderCols, queue
<1> DEFINE t == txn[s]
<1>0. TypeOK /\ StageSessionOK(t) /\ CashSessionOK(t) /\ BooksSessionOK(t) /\ RefundSessionOK(t)
  BY DEF WatchInv, RefundsInv, BooksInv, CashInv, JourneyInv
<1>1. ASSUME UNCHANGED <<status, reached, reason, method, responseTimer>>, End(s), faults' = 0 => faults = 0,
             t.op = "timeout" /\ faults' = 0 => ~Waits(t.order)
      PROVE  WatchInv'
  <2>1. \A p \in Orders : WaitKept(p)
    BY <1>1 DEF WaitKept, Waits, Unanswered
  <2>2. \A p \in Orders : t.op = "timeout" /\ t.order = p /\ faults' = 0 => ~Waits(p)'
    BY <1>1 DEF Waits, Unanswered
  <2> QED
    BY <1>1, <2>1, <2>2, EndKeepsWatch
<1>2. ASSUME NEW st \in Stages \ {"PLACED"}, EnterStage(t.order, st), End(s), t.op # "timeout",
             UNCHANGED <<reason, method, responseTimer>>, faults' = 0 => faults = 0
      PROVE  WatchInv'
  <2>1. \A p \in Orders : WaitKept(p)
    BY <1>0, <1>2 DEF EnterStage, WaitKept, Waits, Unanswered, Stages, TypeOK
  <2> QED
    BY <1>2, <2>1, EndKeepsWatch
<1>3. ASSUME NEW why, Cancel(t, why), End(s), t.op \in OrderOps,
             UNCHANGED <<responseTimer, faults>>
      PROVE  WatchInv'
  <2>1. t.order \in Orders
    BY <1>0, <1>3 DEF StageSessionOK
  <2>2. status'[t.order] = "CANCELLED" /\ \A p \in Orders : WaitKept(p)
    BY <1>0, <1>3, <2>1 DEF Cancel, WaitKept, Waits, Unanswered, TypeOK
  <2>3. \A p \in Orders : t.order = p => ~Waits(p)'
    BY <2>2 DEF Waits
  <2> QED
    BY <1>3, <2>2, <2>3, EndKeepsWatch DEF Cancel
<1>4. CASE (\E z \in RzpIds : InitiateCommit(s, z)) \/ ShortCommit(s) \/ FailedCommit(s)
  BY <1>1, <1>4 DEF InitiateCommit, ShortCommit, FailedCommit
<1>5. CASE CapturedCommit(s)
  <2>1. /\ t.op = "captured" /\ End(s) /\ UNCHANGED <<reason, method, responseTimer, faults>>
        /\ status' = [status EXCEPT ![t.order] = Flush(@, t.status, "PLACED")]
        /\ reached' = [reached EXCEPT ![t.order] = @ \cup {"PLACED"}]
    BY <1>5 DEF CapturedCommit
  <2>2. t.order \in Orders /\ method[t.order] # "COD"
    BY <1>0, <2>1 DEF StageSessionOK, CashSessionOK, OrderOps, SessionOps
  <2>3. t.status = "PLACED" => status[t.order] # "AWAITING_PAYMENT"
    BY <2>1, <2>2 DEF WatchInv
  <2>4. ASSUME NEW o \in Orders, o = t.order PROVE WaitKept(o)
    <3>1. /\ reached'[o] = reached[o] \cup {"PLACED"}
          /\ status'[o] \in {status[o], "PLACED"}
          /\ status'[o] = "AWAITING_PAYMENT" => status[o] # "AWAITING_PAYMENT"
          /\ reason'[o] = reason[o] /\ method'[o] = method[o] /\ method[o] # "COD"
      BY <1>0, <2>1, <2>2, <2>3, <2>4 DEF Flush, TypeOK
    <3>2. status[o] \in Stages => status[o] \in reached[o]
      BY DEF WatchInv, RefundsInv, BooksInv, CashInv, JourneyInv, NoStageSkipped
    <3>3. reason[o] = "NONE" => status[o] # "CANCELLED"
      BY DEF WatchInv, RefundsInv
    <3>4. status[o] \in Stages \cup {"AWAITING_PAYMENT", "CANCELLED"}
      BY <1>0, <2>4 DEF StageSessionOK, TypeOK, OrderStatus
    <3>5. Waits(o)' => Waits(o)
      <4> SUFFICES ASSUME Waits(o)', status[o] # "AWAITING_PAYMENT" PROVE Waits(o)
        BY DEF Waits
      <4>1. method[o] = "RAZORPAY" /\ reason[o] = "NONE" /\ reached'[o] = {"PLACED"}
        BY <3>1 DEF Waits, Unanswered
      <4>2. status[o] \in Stages /\ status[o] \in reached'[o]
        BY <3>1, <3>2, <3>3, <3>4, <4>1
      <4>3. status[o] = "PLACED" /\ reached[o] = {"PLACED"}
        BY <3>1, <3>2, <4>1, <4>2
      <4> QED
        BY <4>1, <4>3 DEF Waits, Unanswered
    <3> QED
      BY <3>1, <3>5 DEF WaitKept
  <2>5. \A p \in Orders \ {t.order} : WaitKept(p)
    BY <1>0, <2>1 DEF WaitKept, Waits, Unanswered, TypeOK
  <2> QED
    BY <2>1, <2>4, <2>5, EndKeepsWatch
<1>6. CASE accept_order(s)
  BY <1>2, <1>6 DEF accept_order, Writes, Stages
<1>7. CASE change_order_status_to_preparing(s)
  BY <1>2, <1>7 DEF change_order_status_to_preparing, Writes, Stages
<1>8. CASE change_order_status_to_ready_for_pickup(s)
  <2>1. faults' = 0 => faults = 0
    BY <1>0, <1>8 DEF change_order_status_to_ready_for_pickup, Fault, TypeOK
  <2> QED
    BY <1>2, <1>8, <2>1 DEF change_order_status_to_ready_for_pickup, Writes, Stages
<1>9. CASE reject_order(s) \/ TimeoutUnpaid(s) \/ TimeoutUnanswered(s)
  BY <1>3, <1>9 DEF reject_order, TimeoutUnpaid, TimeoutUnanswered, OrderOps, SessionOps
<1>10. CASE RefundAborts(s)
  <2>1. t.op = "timeout" => ReadPlaced(t) /\ t.order \in Orders
    BY <1>0, <1>10 DEF RefundAborts, ReadPlaced, StageSessionOK, OrderOps, SessionOps
  <2>2. faults' = 0 => faults = 0 /\ RefundRaises(t) /\ t.pay = "PAID"
    BY <1>0, <1>10 DEF RefundAborts, RefundRaises, Fault, TypeOK
  <2>3. t.op = "timeout" /\ faults' = 0 => ~Waits(t.order)
    <3> SUFFICES ASSUME t.op = "timeout", faults' = 0 PROVE ~Waits(t.order)
      OBVIOUS
    <3>1. status[t.order] # "AWAITING_PAYMENT" /\ method[t.order] # "COD"
      BY <1>0, <2>1, <2>2 DEF WatchInv, CashSessionOK, ReadPlaced
    <3>2. method[t.order] = "RAZORPAY" => t.paid \in refunded /\ rzpFor[t.paid] = t.order
      BY <1>0, <2>1, <2>2, <3>1 DEF RefundRaises, RefundSessionOK, BooksSessionOK, TakenFor
    <3>3. method[t.order] = "RAZORPAY" => ~Unanswered(t.order)
      BY <2>2, <3>2 DEF WatchInv, RefundsInv, Ended, Unanswered
    <3> QED
      BY <3>1, <3>3 DEF Waits
  <2> QED
    BY <1>1, <1>10, <2>2, <2>3 DEF RefundAborts
<1>11. CASE toggle_rider_online_status(s) \/ AssignConflict(s) \/ AlreadyEarned(s)
  BY <1>1, <1>11 DEF toggle_rider_online_status, AssignConflict, AlreadyEarned
<1>12. CASE assign_rider_to_order(s)
  BY <1>2, <1>12 DEF assign_rider_to_order, EnterStage, Stages
<1>13. CASE mark_order_picked_up(s)
  BY <1>2, <1>13 DEF mark_order_picked_up, EnterStage, Stages
<1>14. CASE mark_order_delivered(s)
  BY <1>2, <1>14 DEF mark_order_delivered, EnterStage, Stages
<1> QED
  BY <1>4, <1>5, <1>6, <1>7, <1>8, <1>9, <1>10, <1>11, <1>12, <1>13, <1>14 DEF Finish

(* The order and the message that watches over it, or a fault in between. *)
LEMMA CheckoutKeepsWatch ==
    ASSUME WatchInv, RefundsInv', NEW o \in Orders, NEW m \in Methods,
           create_order_from_cart(o, m)
    PROVE  WatchInv'
<1>0. TypeOK
  BY DEF WatchInv, RefundsInv, BooksInv, CashInv, JourneyInv
<1>1. /\ status[o] = "NONE" /\ UNCHANGED <<reason, txn>>
      /\ status' = [status EXCEPT ![o] = IF m = "COD" THEN "PLACED" ELSE "AWAITING_PAYMENT"]
      /\ reached' = [reached EXCEPT ![o] = IF m = "COD" THEN {"PLACED"} ELSE {}]
      /\ method' = [method EXCEPT ![o] = m]
  BY DEF create_order_from_cart
<1>2. faults' = 0 => faults = 0 /\ responseTimer' = responseTimer \cup {o}
  BY <1>0 DEF create_order_from_cart, Fault, TypeOK
<1>3. \A q \in Sessions : ReadPlaced(txn[q]) => txn[q].order \in Orders \ {o}
  BY <1>1 DEF WatchInv, RefundsInv, BooksInv, CashInv, JourneyInv, StageSessionOK, OrderOps, SessionOps, ReadPlaced
<1>4. \A p \in Orders \ {o} : /\ status'[p] = status[p] /\ reached'[p] = reached[p]
                              /\ method'[p] = method[p]
  BY <1>0, <1>1 DEF TypeOK
<1>5. status'[o] = "AWAITING_PAYMENT" => reached'[o] = {}
  BY <1>0, <1>1 DEF TypeOK
<1>6. \A q \in Sessions : ReadPlaced(txn'[q]) => "PLACED" \in reached'[txn'[q].order]
  BY <1>1, <1>3, <1>4 DEF WatchInv, ReadPlaced
<1>7. WaitingIsWatched'
  BY <1>1, <1>2, <1>4 DEF WatchInv, WaitingIsWatched, Waits, Unanswered, Watched
<1> QED
  BY <1>4, <1>5, <1>6, <1>7 DEF WatchInv, ReadPlaced

LEMMA NextKeepsWatch ==
    ASSUME WatchInv, [Next]_vars
    PROVE  WatchInv'
<1>0. RefundsInv' /\ TypeOK
  BY NextKeepsRefunds DEF WatchInv, RefundsInv, BooksInv, CashInv, JourneyInv
<1>1. CASE UNCHANGED <<orderCols, queue, txn, faults>>
  BY <1>0, <1>1 DEF WatchInv, WaitingIsWatched, Waits, Unanswered, Watched, orderCols, queue
<1>2. CASE UNCHANGED vars
  BY <1>1, <1>2 DEF vars
<1>3. CASE Checkout
  BY <1>0, <1>3, CheckoutKeepsWatch DEF Checkout
<1>4. CASE Razorpay
  BY <1>1, <1>4 DEF Razorpay, CustomerPays, PaymentAttemptFails
<1>5. CASE Arrival
  BY <1>0, <1>5, ArrivalKeepsWatch
<1>6. ASSUME NEW s \in Sessions, Finish(s) PROVE WatchInv'
  BY <1>0, <1>6, CommitsKeepWatch
<1>7. ASSUME NEW s \in Sessions, CrashAfterRefund(s) \/ Crash(s) PROVE WatchInv'
  <2>1. /\ End(s) /\ faults' # 0 /\ UNCHANGED <<status, reached, reason, method, responseTimer>>
    BY <1>0, <1>7 DEF CrashAfterRefund, Crash, Fault, TypeOK, orderCols, queue
  <2>2. \A p \in Orders : WaitKept(p)
    BY <2>1 DEF WaitKept, Waits, Unanswered
  <2> QED
    BY <1>0, <2>1, <2>2, EndKeepsWatch
<1> QED
  BY <1>2, <1>3, <1>4, <1>5, <1>6, <1>7 DEF Next

(* Nobody waits for ever to pay, or for the restaurant's first answer,     *)
(* unless a process died: the task that ends the wait is always still to   *)
(* come, although the capture queues none, and whatever other handlers     *)
(* have written to the order since checkout.                               *)
THEOREM WaitsAreWatched == Spec => []WaitingIsWatched
<1>1. Init => WatchInv
  <2> SUFFICES ASSUME Init PROVE WatchInv
    OBVIOUS
  <2>1. WaitingIsWatched
    BY DEF Init, WaitingIsWatched, Waits
  <2> QED
    BY <2>1, InitRefunds DEF Init, WatchInv, Idle
<1>2. WatchInv /\ [Next]_vars => WatchInv'
  BY NextKeepsWatch
<1>3. WatchInv => WaitingIsWatched
  BY DEF WatchInv
<1> QED
  BY <1>1, <1>2, <1>3, PTL DEF Spec
=============================================================================
