------------------------------ MODULE OrderDesk ------------------------------
(***************************************************************************)
(* Orders: checkout, the restaurant's accept / reject / preparing / ready  *)
(* handlers, and the two Celery tasks that watch over an order.            *)
(***************************************************************************)
EXTENDS PaymentDesk

-----------------------------------------------------------------------------
(* Mutant: every order is placed at checkout, paid or not. *)
PlaceAtCheckout(o, m) ==
    /\ status[o] = "NONE"
    /\ status' = [status EXCEPT ![o] = "PLACED"]
    /\ reached' = [reached EXCEPT ![o] = {"PLACED"}]
    /\ method' = [method EXCEPT ![o] = m]
    /\ payStatus' = [payStatus EXCEPT ![o] = "PENDING"]
    /\ responseTimer' = responseTimer \cup {o}
    /\ UNCHANGED <<reason, riderId, provOrder, provPayment, riderCols, razorpay,
                   riderTimers, txn, faults>>

(* create_order_from_cart: order and payment rows in one commit, then the  *)
(* response timeout is queued.  A process that dies in between has stored  *)
(* an order nobody watches.                                                *)
create_order_from_cart(o, m) ==
    /\ status[o] = "NONE"
    /\ status' = [status EXCEPT ![o] = IF m = "COD" THEN "PLACED" ELSE "AWAITING_PAYMENT"]
    /\ reached' = [reached EXCEPT ![o] = IF m = "COD" THEN {"PLACED"} ELSE {}]
    /\ method' = [method EXCEPT ![o] = m]
    /\ payStatus' = [payStatus EXCEPT ![o] = "PENDING"]
    /\ \/ responseTimer' = responseTimer \cup {o} /\ UNCHANGED faults
       \/ Fault /\ UNCHANGED responseTimer
    /\ UNCHANGED <<reason, riderId, provOrder, provPayment, riderCols, razorpay,
                   riderTimers, txn>>

-----------------------------------------------------------------------------
(* The restaurant's handlers. *)

(* Mutant: ready is accepted without preparing. *)
ChecksSkipPreparing == [accept |-> "PLACED", reject |-> "PLACED",
                        preparing |-> "CONFIRMED", ready |-> "CONFIRMED"]

(* The status each handler checks for, and the one it writes. *)
Checks == [accept |-> "PLACED", reject |-> "PLACED",
           preparing |-> "CONFIRMED", ready |-> "PREPARING"]
Writes == [accept |-> "CONFIRMED", preparing |-> "PREPARING",
           ready |-> "READY_FOR_PICKUP"]

RestaurantRead(s, op, o) ==
    /\ status[o] = Checks[op]
    /\ Begin(s, IF op = "reject" THEN OrderAndPayment(op, o) ELSE Touch(op, o))
    /\ UNCHANGED <<orderCols, payCols, riderCols, razorpay, queue, faults>>

(* The status and its timestamp, written to whatever the row now holds. *)
EnterStage(o, st) ==
    /\ status' = [status EXCEPT ![o] = st]
    /\ reached' = [reached EXCEPT ![o] = @ \cup {st}]

accept_order(s) ==
    /\ txn[s].op = "accept"
    /\ EnterStage(txn[s].order, Writes.accept)
    /\ End(s)
    /\ UNCHANGED <<reason, riderId, method, payCols, riderCols, razorpay, queue, faults>>

change_order_status_to_preparing(s) ==
    /\ txn[s].op = "preparing"
    /\ EnterStage(txn[s].order, Writes.preparing)
    /\ End(s)
    /\ UNCHANGED <<reason, riderId, method, payCols, riderCols, razorpay, queue, faults>>

(* After the commit the rider timeout is queued; the process may die first. *)
change_order_status_to_ready_for_pickup(s) ==
    LET o == txn[s].order IN
    /\ txn[s].op = "ready"
    /\ riderTimers[o] < MaxRiderTimers
    /\ EnterStage(o, Writes.ready)
    /\ End(s)
    /\ \/ riderTimers' = [riderTimers EXCEPT ![o] = @ + 1] /\ UNCHANGED faults
       \/ Fault /\ UNCHANGED riderTimers
    /\ UNCHANGED <<reason, riderId, method, payCols, riderCols, razorpay, responseTimer>>

Cancel(t, why) ==
    /\ status' = [status EXCEPT ![t.order] = "CANCELLED"]
    /\ reason' = [reason EXCEPT ![t.order] = Flush(@, t.why, why)]
    /\ UNCHANGED <<reached, riderId, method>>

reject_order(s) ==
    /\ txn[s].op = "reject"
    /\ Cancel(txn[s], "RESTAURANT_REJECTED")
    /\ initiate_refund(txn[s])
    /\ End(s)
    /\ UNCHANGED <<provOrder, provPayment, rzpFor, rzpState, rzpFailed, riderCols,
                   queue, faults>>

-----------------------------------------------------------------------------
(* The Celery tasks: each queued message is run once. *)

(* Mutant: the task looks at orders waiting for the restaurant only. *)
TimeoutReadPlacedOnly(s, o) ==
    /\ o \in responseTimer
    /\ status[o] = "PLACED"
    /\ responseTimer' = responseTimer \ {o}
    /\ Begin(s, OrderAndPayment("timeout", o))
    /\ UNCHANGED <<riderTimers, orderCols, payCols, riderCols, razorpay, faults>>

TimeoutRead(s, o) ==
    /\ o \in responseTimer
    /\ status[o] \in {"PLACED", "AWAITING_PAYMENT"}
    /\ responseTimer' = responseTimer \ {o}
    /\ Begin(s, OrderAndPayment("timeout", o))
    /\ UNCHANGED <<riderTimers, orderCols, payCols, riderCols, razorpay, faults>>

(* Mutant: an order not placed yet counts as one that moved on. *)
TimeoutTooEarly(o) ==
    /\ o \in responseTimer
    /\ status[o] # "PLACED"
    /\ responseTimer' = responseTimer \ {o}
    /\ UNCHANGED <<riderTimers, orderCols, payCols, riderCols, razorpay, txn, faults>>

(* The order already moved past these states. *)
TimeoutTooLate(o) ==
    /\ o \in responseTimer
    /\ status[o] \notin {"PLACED", "AWAITING_PAYMENT"}
    /\ responseTimer' = responseTimer \ {o}
    /\ UNCHANGED <<riderTimers, orderCols, payCols, riderCols, razorpay, txn, faults>>

(* Read as AWAITING_PAYMENT: cancelled without looking at the payment. *)
TimeoutUnpaid(s) ==
    /\ txn[s].op = "timeout" /\ txn[s].status = "AWAITING_PAYMENT"
    /\ Cancel(txn[s], "PAYMENT_FAILED")
    /\ End(s)
    /\ UNCHANGED <<payCols, riderCols, razorpay, queue, faults>>

(* Read as PLACED: cancelled and refunded. *)
TimeoutUnanswered(s) ==
    /\ txn[s].op = "timeout" /\ txn[s].status = "PLACED"
    /\ Cancel(txn[s], "RESTAURANT_TIMEOUT")
    /\ initiate_refund(txn[s])
    /\ End(s)
    /\ UNCHANGED <<provOrder, provPayment, rzpFor, rzpState, rzpFailed, riderCols,
                   queue, faults>>

(* Mutant: the task runs without having been queued. *)
RiderTimeoutUnqueued(o) ==
    /\ status[o] = "READY_FOR_PICKUP"
    /\ riderTimers' = [riderTimers EXCEPT ![o] = @ - 1]
    /\ UNCHANGED <<responseTimer, orderCols, payCols, riderCols, razorpay, txn, faults>>

(* check_rider_assignment_timeout: on a READY_FOR_PICKUP order it asks for *)
(* the refund and then reads order.restaurant, which no query has loaded;  *)
(* an async session cannot load it lazily, so the task raises and its      *)
(* transaction, the cancellation with it, is rolled back.  What is left is *)
(* the refund Razorpay was asked for (refused if granted before), and not  *)
(* even that when the call fails or the worker dies before it.  A worker   *)
(* that dies after it leaves what the rollback leaves.                     *)
check_rider_assignment_timeout(o) ==
    LET t == OrderAndPayment("idle", o) IN
    /\ riderTimers[o] > 0
    /\ riderTimers' = [riderTimers EXCEPT ![o] = @ - 1]
    /\ \/ /\ refunded' = IF status[o] = "READY_FOR_PICKUP" /\ RefundCallsProvider(t)
                            /\ ~ RefundRaises(t)
                         THEN refunded \cup {t.paid} ELSE refunded
          /\ UNCHANGED faults
       \/ Fault /\ UNCHANGED refunded
    /\ UNCHANGED <<rzpFor, rzpState, rzpFailed, responseTimer, orderCols, payCols,
                   riderCols, txn>>
=============================================================================
