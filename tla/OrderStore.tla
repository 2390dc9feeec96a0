----------------------------- MODULE OrderStore -----------------------------
(***************************************************************************)
(* The shared state of Feasto's ordering core: the rows of the orders,     *)
(* payments, riders and rider_earnings tables, the Celery queue, what      *)
(* Razorpay holds on its side, and the database sessions in flight.        *)
(*                                                                         *)
(* Every handler opens one SQLAlchemy session on PostgreSQL at READ        *)
(* COMMITTED, reads its rows, decides, and writes the columns it changed   *)
(* with "UPDATE ... WHERE id" when it commits.  Nothing carries a version  *)
(* column and (rider assignment apart) nothing locks what it reads, so a   *)
(* handler is two steps: a read that fills a session record and a commit   *)
(* that writes from it.  Other sessions run in between.                    *)
(***************************************************************************)
EXTENDS Naturals, FiniteSets

CONSTANTS
    Orders,          \* orders the customers may check out
    Riders,          \* rider profiles
    RzpIds,          \* Razorpay order ids (each is paid at most once)
    Sessions,        \* database sessions that can be open at once
    Methods,         \* payment methods used at checkout
    MaxFaults,       \* bound: crashes and provider errors in one behaviour
    MaxRiderTimers,  \* bound: rider-timeout tasks queued for one order
    NoOrder, NoRider, NoRzp

PaymentProvider == {"STRIPE", "RAZORPAY", "COD"}

ASSUME StoreAssumption ==
    /\ Methods \subseteq PaymentProvider
    /\ MaxFaults \in Nat /\ MaxRiderTimers \in Nat
    /\ NoOrder \notin Orders /\ NoRider \notin Riders /\ NoRzp \notin RzpIds

(* A table holds finitely many rows. *)
ASSUME OrdersAreFinite == IsFiniteSet(Orders)

VARIABLES
    status,         \* orders.status ("NONE": no row yet)
    reason,         \* orders.cancellation_reason
    reached,        \* the *_at columns of orders that are not NULL
    riderId,        \* orders.rider_id
    method,         \* orders.payment_method / payments.provider
    payStatus,      \* payments.status
    provOrder,      \* payments.provider_order_id
    provPayment,    \* payments.provider_payment_id
    online,         \* riders.is_online
    available,      \* riders.is_available
    deliveries,     \* riders.total_deliveries
    earned,         \* rider_earnings: the rider of the order's one row
    rzpFor,         \* Razorpay: the order a Razorpay order was created for
    rzpState,       \* Razorpay: has it been paid, and the right amount?
    rzpFailed,      \* Razorpay: ids with a failed payment attempt
    refunded,       \* Razorpay: ids whose payment it refunded
    responseTimer,  \* orders with a queued check_order_timeout
    riderTimers,    \* queued check_rider_assignment_timeout, per order
    txn,            \* the sessions in flight
    faults          \* faults so far

orderCols == <<status, reason, reached, riderId, method>>
payCols   == <<payStatus, provOrder, provPayment>>
riderCols == <<online, available, deliveries, earned>>
razorpay  == <<rzpFor, rzpState, rzpFailed, refunded>>
queue     == <<responseTimer, riderTimers>>
vars      == <<orderCols, payCols, riderCols, razorpay, queue, txn, faults>>

-----------------------------------------------------------------------------
(* The stages an order passes, each with a timestamp column of its own. *)
Stages == {"PLACED", "CONFIRMED", "PREPARING", "READY_FOR_PICKUP",
           "RIDER_ASSIGNED", "OUT_FOR_DELIVERY", "DELIVERED"}

OrderStatus == Stages \cup {"AWAITING_PAYMENT", "CANCELLED"}

(* The stage an order must be in for the next one to be entered. *)
Before == [st \in Stages \ {"PLACED"} |->
    CASE st = "CONFIRMED"        -> "PLACED"
      [] st = "PREPARING"        -> "CONFIRMED"
      [] st = "READY_FOR_PICKUP" -> "PREPARING"
      [] st = "RIDER_ASSIGNED"   -> "READY_FOR_PICKUP"
      [] st = "OUT_FOR_DELIVERY" -> "RIDER_ASSIGNED"
      [] st = "DELIVERED"        -> "OUT_FOR_DELIVERY"]

CancellationReason ==
    {"PAYMENT_FAILED", "RESTAURANT_REJECTED", "RESTAURANT_TIMEOUT"}

PaymentStatus == {"PENDING", "PAID", "FAILED", "REFUND_PENDING", "REFUNDED"}

ActiveDelivery == {"RIDER_ASSIGNED", "OUT_FOR_DELIVERY"}

(* The orders get_active_order and the offline check find for a rider. *)
ActiveOrders(r) == {o \in Orders : riderId[o] = r /\ status[o] \in ActiveDelivery}

-----------------------------------------------------------------------------
(* A session holds what its handler read and will write from. *)
SessionOps == {"idle", "initiate", "captured", "short", "failed",
               "accept", "reject", "preparing", "ready", "timeout",
               "assign", "online", "offline", "pickup", "deliver"}

Session == [op     : SessionOps,
            order  : Orders \cup {NoOrder},
            rider  : Riders \cup {NoRider},
            rzp    : RzpIds \cup {NoRzp},       \* the webhook's Razorpay order
            status : OrderStatus \cup {"NONE"}, \* order.status as read
            why    : CancellationReason \cup {"NONE"}, \* its reason as read
            pay    : PaymentStatus \cup {"NONE"},
            paid   : RzpIds \cup {NoRzp},       \* provider_payment_id as read
            on     : BOOLEAN,                   \* rider.is_online as read
            avail  : BOOLEAN,                   \* rider.is_available as read
            done   : Nat]                       \* rider.total_deliveries as read

Idle == [op |-> "idle", order |-> NoOrder, rider |-> NoRider, rzp |-> NoRzp,
         status |-> "NONE", why |-> "NONE", pay |-> "NONE", paid |-> NoRzp,
         on |-> FALSE, avail |-> FALSE, done |-> 0]

(* Begin: the reads are done and the guards passed.  End: commit or rollback. *)
Begin(s, rec) == /\ txn[s] = Idle
                 /\ txn' = [txn EXCEPT ![s] = rec]
End(s) == txn' = [txn EXCEPT ![s] = Idle]

(* An order row read by a handler that later needs only its id. *)
Touch(op, o) == [Idle EXCEPT !.op = op, !.order = o]

(* An order row and its payment row, with the columns the handler uses. *)
OrderAndPayment(op, o) ==
    [Touch(op, o) EXCEPT !.status = status[o], !.why = reason[o],
                         !.pay = payStatus[o], !.paid = provPayment[o]]

RiderRow(op, r) ==
    [Idle EXCEPT !.op = op, !.rider = r, !.on = online[r], !.avail = available[r]]

(* SQLAlchemy emits a column only if its value changed since it was read. *)
Flush(current, seen, new) == IF seen = new THEN current ELSE new

Fault == /\ faults < MaxFaults
         /\ faults' = faults + 1

(* The process of session s dies, or its connection drops, before COMMIT. *)
Crash(s) == /\ txn[s] # Idle
            /\ Fault
            /\ End(s)
            /\ UNCHANGED <<orderCols, payCols, riderCols, razorpay, queue>>

-----------------------------------------------------------------------------
TypeOK ==
    /\ status \in [Orders -> OrderStatus \cup {"NONE"}]
    /\ reason \in [Orders -> CancellationReason \cup {"NONE"}]
    /\ reached \in [Orders -> SUBSET Stages]
    /\ riderId \in [Orders -> Riders \cup {NoRider}]
    /\ method \in [Orders -> Methods \cup {"NONE"}]
    /\ payStatus \in [Orders -> PaymentStatus \cup {"NONE"}]
    /\ provOrder \in [Orders -> RzpIds \cup {NoRzp}]
    /\ provPayment \in [Orders -> RzpIds \cup {NoRzp}]
    /\ online \in [Riders -> BOOLEAN]
    /\ available \in [Riders -> BOOLEAN]
    /\ deliveries \in [Riders -> Nat]
    /\ earned \in [Orders -> Riders \cup {NoRider}]
    /\ rzpFor \in [RzpIds -> Orders \cup {NoOrder}]
    /\ rzpState \in [RzpIds -> {"unpaid", "paid", "short"}]
    /\ rzpFailed \subseteq RzpIds
    /\ refunded \subseteq RzpIds
    /\ responseTimer \subseteq Orders
    /\ riderTimers \in [Orders -> Nat]
    /\ txn \in [Sessions -> Session]
    /\ faults \in Nat

Init ==
    /\ status = [o \in Orders |-> "NONE"]
    /\ reason = [o \in Orders |-> "NONE"]
    /\ reached = [o \in Orders |-> {}]
    /\ riderId = [o \in Orders |-> NoRider]
    /\ method = [o \in Orders |-> "NONE"]
    /\ payStatus = [o \in Orders |-> "NONE"]
    /\ provOrder = [o \in Orders |-> NoRzp]
    /\ provPayment = [o \in Orders |-> NoRzp]
    /\ online = [r \in Riders |-> FALSE]
    /\ available = [r \in Riders |-> FALSE]
    /\ deliveries = [r \in Riders |-> 0]
    /\ earned = [o \in Orders |-> NoRider]
    /\ rzpFor = [z \in RzpIds |-> NoOrder]
    /\ rzpState = [z \in RzpIds |-> "unpaid"]
    /\ rzpFailed = {}
    /\ refunded = {}
    /\ responseTimer = {}
    /\ riderTimers = [o \in Orders |-> 0]
    /\ txn = [s \in Sessions |-> Idle]
    /\ faults = 0
=============================================================================
