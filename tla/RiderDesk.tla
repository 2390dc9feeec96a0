------------------------------ MODULE RiderDesk ------------------------------
(***************************************************************************)
(* Riders: the online/offline toggle and the accept / pickup / delivered   *)
(* handlers.  Accepting is the one handler that locks the row it reads:    *)
(* SELECT ... FOR UPDATE on the order, but not on the rider, whose row was *)
(* read by the request's dependency before.                                *)
(***************************************************************************)
EXTENDS OrderStore

-----------------------------------------------------------------------------
(* PATCH /rider/status *)

GoOnlineRead(s, r) ==
    /\ Begin(s, RiderRow("online", r))
    /\ UNCHANGED <<orderCols, payCols, riderCols, razorpay, queue, faults>>

(* Refused with an active order (409; with several the query itself raises). *)
GoOfflineRead(s, r) ==
    /\ ActiveOrders(r) = {}
    /\ Begin(s, RiderRow("offline", r))
    /\ UNCHANGED <<orderCols, payCols, riderCols, razorpay, queue, faults>>

toggle_rider_online_status(s) ==
    LET t == txn[s]
        go_online == t.op = "online" IN
    /\ t.op \in {"online", "offline"}
    /\ online' = [online EXCEPT ![t.rider] = Flush(@, t.on, go_online)]
    /\ available' = [available EXCEPT ![t.rider] = Flush(@, t.avail, go_online)]
    /\ End(s)
    /\ UNCHANGED <<deliveries, earned, orderCols, payCols, razorpay, queue, faults>>

-----------------------------------------------------------------------------
(* POST /rider/orders/{id}/accept *)

AssignRead(s, r, o) ==
    /\ status[o] # "NONE"
    /\ online[r] /\ available[r]
    /\ Begin(s, [Touch("assign", o) EXCEPT !.rider = r])
    /\ UNCHANGED <<orderCols, payCols, riderCols, razorpay, queue, faults>>

(* With the order row locked its status is read afresh. *)
assign_rider_to_order(s) ==
    LET o == txn[s].order
        r == txn[s].rider IN
    /\ txn[s].op = "assign"
    /\ status[o] = "READY_FOR_PICKUP"
    /\ status' = [status EXCEPT ![o] = "RIDER_ASSIGNED"]
    /\ reached' = [reached EXCEPT ![o] = @ \cup {"RIDER_ASSIGNED"}]
    /\ riderId' = [riderId EXCEPT ![o] = r]
    /\ available' = [available EXCEPT ![r] = FALSE]
    /\ End(s)
    /\ UNCHANGED <<reason, method, online, deliveries, earned, payCols, razorpay,
                   queue, faults>>

AssignConflict(s) ==
    /\ txn[s].op = "assign"
    /\ status[txn[s].order] # "READY_FOR_PICKUP"
    /\ End(s)
    /\ UNCHANGED <<orderCols, payCols, riderCols, razorpay, queue, faults>>

-----------------------------------------------------------------------------
(* POST /rider/orders/{id}/pickup *)

PickupRead(s, r, o) ==
    /\ riderId[o] = r /\ status[o] = "RIDER_ASSIGNED"
    /\ Begin(s, [Touch("pickup", o) EXCEPT !.rider = r])
    /\ UNCHANGED <<orderCols, payCols, riderCols, razorpay, queue, faults>>

mark_order_picked_up(s) ==
    LET o == txn[s].order IN
    /\ txn[s].op = "pickup"
    /\ status' = [status EXCEPT ![o] = "OUT_FOR_DELIVERY"]
    /\ reached' = [reached EXCEPT ![o] = @ \cup {"OUT_FOR_DELIVERY"}]
    /\ End(s)
    /\ UNCHANGED <<reason, riderId, method, payCols, riderCols, razorpay, queue, faults>>

-----------------------------------------------------------------------------
(* POST /rider/orders/{id}/delivered *)

DeliverRead(s, r, o) ==
    /\ riderId[o] = r /\ status[o] = "OUT_FOR_DELIVERY"
    /\ Begin(s, [Touch("deliver", o) EXCEPT !.rider = r, !.pay = payStatus[o],
                                            !.avail = available[r], !.done = deliveries[r]])
    /\ UNCHANGED <<orderCols, payCols, riderCols, razorpay, queue, faults>>

(* Mutant: the delivery is not counted. *)
DeliverUncounted(s) ==
    LET t == txn[s]
        o == t.order IN
    /\ t.op = "deliver"
    /\ earned[o] = NoRider
    /\ status' = [status EXCEPT ![o] = "DELIVERED"]
    /\ reached' = [reached EXCEPT ![o] = @ \cup {"DELIVERED"}]
    /\ payStatus' = [payStatus EXCEPT ![o] =
                        IF method[o] = "COD" THEN Flush(@, t.pay, "PAID") ELSE @]
    /\ available' = [available EXCEPT ![t.rider] = Flush(@, t.avail, TRUE)]
    /\ earned' = [earned EXCEPT ![o] = t.rider]
    /\ End(s)
    /\ UNCHANGED <<reason, riderId, method, provOrder, provPayment, online, deliveries,
                   razorpay, queue, faults>>

(* Mutant: rider_earnings.order_id is not UNIQUE. *)
DeliverAgain(s) ==
    LET t == txn[s]
        o == t.order IN
    /\ t.op = "deliver"
    /\ status' = [status EXCEPT ![o] = "DELIVERED"]
    /\ reached' = [reached EXCEPT ![o] = @ \cup {"DELIVERED"}]
    /\ payStatus' = [payStatus EXCEPT ![o] =
                        IF method[o] = "COD" THEN Flush(@, t.pay, "PAID") ELSE @]
    /\ available' = [available EXCEPT ![t.rider] = Flush(@, t.avail, TRUE)]
    /\ deliveries' = [deliveries EXCEPT ![t.rider] = t.done + 1]
    /\ earned' = [earned EXCEPT ![o] = t.rider]
    /\ End(s)
    /\ UNCHANGED <<reason, riderId, method, provOrder, provPayment, online, razorpay,
                   queue, faults>>

(* One commit: the order, the cash, the rider's row and the earning, whose *)
(* order_id is UNIQUE.  (Its CHECK amount > 0 is met: the amount is the    *)
(* delivery fee, never below settings.base_delivery_price, 20 by default.) *)
mark_order_delivered(s) ==
    LET t == txn[s]
        o == t.order IN
    /\ t.op = "deliver"
    /\ earned[o] = NoRider
    /\ status' = [status EXCEPT ![o] = "DELIVERED"]
    /\ reached' = [reached EXCEPT ![o] = @ \cup {"DELIVERED"}]
    /\ payStatus' = [payStatus EXCEPT ![o] =
                        IF method[o] = "COD" THEN Flush(@, t.pay, "PAID") ELSE @]
    /\ available' = [available EXCEPT ![t.rider] = Flush(@, t.avail, TRUE)]
    /\ deliveries' = [deliveries EXCEPT ![t.rider] = t.done + 1]
    /\ earned' = [earned EXCEPT ![o] = t.rider]
    /\ End(s)
    /\ UNCHANGED <<reason, riderId, method, provOrder, provPayment, online, razorpay,
                   queue, faults>>

(* The earning exists: the INSERT fails and everything is rolled back. *)
AlreadyEarned(s) ==
    /\ txn[s].op = "deliver"
    /\ earned[txn[s].order] # NoRider
    /\ End(s)
    /\ UNCHANGED <<orderCols, payCols, riderCols, razorpay, queue, faults>>
=============================================================================
