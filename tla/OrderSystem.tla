----------------------------- MODULE OrderSystem -----------------------------
(***************************************************************************)
(* The ordering core composed: checkout, payments, restaurant, Celery      *)
(* tasks and riders over the tables of OrderStore.                         *)
(***************************************************************************)
EXTENDS OrderDesk, RiderDesk

-----------------------------------------------------------------------------
(* Next-state relation. *)

Checkout == \E o \in Orders, m \in Methods : create_order_from_cart(o, m)

Razorpay ==
    \E z \in RzpIds :
        \/ \E amount \in {"paid", "short"} : CustomerPays(z, amount)
        \/ PaymentAttemptFails(z)

(* Requests and webhook deliveries arriving, tasks being picked up. *)
WebhookArrives(z) ==
    \E s \in Sessions, o \in Orders : CapturedRead(s, z, o) \/ FailedRead(s, z, o)

RestaurantArrives ==
    \E s \in Sessions, o \in Orders, op \in DOMAIN Checks : RestaurantRead(s, op, o)

RiderArrives ==
    \E s \in Sessions, r \in Riders :
        \/ GoOnlineRead(s, r) \/ GoOfflineRead(s, r)
        \/ \E o \in Orders : AssignRead(s, r, o) \/ PickupRead(s, r, o)
                                \/ DeliverRead(s, r, o)

ResponseTimeout(o) == TimeoutTooLate(o) \/ \E s \in Sessions : TimeoutRead(s, o)

Arrival ==
    \/ \E s \in Sessions, o \in Orders : InitiateRead(s, o)
    \/ \E z \in RzpIds : WebhookArrives(z)
    \/ RestaurantArrives
    \/ RiderArrives
    \/ \E o \in Orders : ResponseTimeout(o) \/ check_rider_assignment_timeout(o)

(* A session in flight commits, or rolls back on an error of its own. *)
Finish(s) ==
    \/ \E z \in RzpIds : InitiateCommit(s, z)
    \/ CapturedCommit(s) \/ ShortCommit(s) \/ FailedCommit(s)
    \/ accept_order(s) \/ reject_order(s)
    \/ change_order_status_to_preparing(s)
    \/ change_order_status_to_ready_for_pickup(s)
    \/ TimeoutUnpaid(s) \/ TimeoutUnanswered(s)
    \/ RefundAborts(s)
    \/ toggle_rider_online_status(s)
    \/ assign_rider_to_order(s) \/ AssignConflict(s)
    \/ mark_order_picked_up(s)
    \/ mark_order_delivered(s) \/ AlreadyEarned(s)

Next ==
    \/ Checkout \/ Razorpay \/ Arrival
    \/ \E s \in Sessions : Finish(s) \/ CrashAfterRefund(s) \/ Crash(s)

Spec == Init /\ [][Next]_vars

(* Workers and the server keep running: a session in flight ends, a queued *)
(* task is run, and a webhook is delivered until the handler has taken it  *)
(* (strong: all three wait for a free session).  Customers, restaurants    *)
(* and riders owe nothing.                                                 *)
FairSpec ==
    /\ Spec
    /\ \A s \in Sessions : WF_vars(Finish(s))
    /\ \A o \in Orders : SF_vars(ResponseTimeout(o))
    /\ \A o \in Orders : WF_vars(check_rider_assignment_timeout(o))
    /\ \A z \in RzpIds : SF_vars(\E s \in Sessions, o \in Orders : CapturedRead(s, z, o))

-----------------------------------------------------------------------------
(* Invariants. *)

PaidInFull(o) == \E z \in RzpIds : rzpFor[z] = o /\ rzpState[z] = "paid"

(* No stage is skipped: whatever handlers overlap and however stale their  *)
(* reads, an order that reached a stage had reached every earlier one, and *)
(* its status is a stage it has reached.                                   *)
NoStageSkipped ==
    \A o \in Orders :
        /\ \A st \in reached[o] \ {"PLACED"} : Before[st] \in reached[o]
        /\ status[o] \in Stages => status[o] \in reached[o]

(* An order paid online was never shown to a restaurant before Razorpay    *)
(* had the full amount for it.                                             *)
PlacedWasPaid ==
    \A o \in Orders :
        method[o] # "COD" /\ reached[o] # {} => PaidInFull(o)

(* The cash of an order to be paid at the door is booked when the order is *)
(* delivered and not before, and nothing later (a stale rejection, the     *)
(* timeout task) takes it back: the COD branch of the refund is dead code. *)
CashCollected ==
    \A o \in Orders :
        method[o] = "COD" =>
            payStatus[o] = (IF "DELIVERED" \in reached[o] THEN "PAID" ELSE "PENDING")

(* Our books never claim what Razorpay did not do: PAID names a payment    *)
(* Razorpay took in full for this order, which it has placed (such a       *)
(* payment is deaf to further captures), REFUND_PENDING one it refunded.   *)
BooksMatchRazorpay ==
    \A o \in Orders :
        method[o] # "COD" =>
            /\ payStatus[o] = "PAID" =>
                 /\ provPayment[o] \in RzpIds
                 /\ rzpFor[provPayment[o]] = o
                 /\ rzpState[provPayment[o]] = "paid"
                 /\ "PLACED" \in reached[o]
            /\ payStatus[o] = "REFUND_PENDING" =>
                 \E z \in refunded : rzpFor[z] = o

(* Only a payment taken in full for an order that was placed is refunded.  *)
RefundedWasPlaced ==
    \A z \in refunded :
        /\ rzpState[z] = "paid"
        /\ rzpFor[z] \in Orders
        /\ "PLACED" \in reached[rzpFor[z]]

(* The restaurant has been given the order; nobody answered or cancelled. *)
Unanswered(o) == reached[o] = {"PLACED"} /\ reason[o] = "NONE"

(* Left alone, only the response timeout ends this order's wait.  (It does *)
(* not end that of a Stripe order: the refund is not implemented, and the  *)
(* task fails.)                                                            *)
Waits(o) ==
    \/ status[o] = "AWAITING_PAYMENT"
    \/ status[o] = "PLACED" /\ method[o] = "COD"
    \/ status[o] = "PLACED" /\ method[o] = "RAZORPAY" /\ Unanswered(o)

(* The task that ends an order's wait is queued, or running. *)
Watched(o) ==
    o \in responseTimer \/ \E s \in Sessions : txn[s].op = "timeout" /\ txn[s].order = o

(* As long as nothing has failed, an order that waits for its payment or   *)
(* for the restaurant's first answer still has its response timeout before *)
(* it, although the capture queues none, and however many handlers have    *)
(* written to it since: the task is never used up without ending the wait. *)
WaitingIsWatched ==
    faults = 0 => \A o \in Orders : Waits(o) => Watched(o)

EarningsOf(r) == {o \in Orders : earned[o] = r}

(* total_deliveries may lose an increment but never runs ahead of the      *)
(* ledger.                                                                 *)
DeliveriesWithinLedger ==
    \A r \in Riders : deliveries[r] <= Cardinality(EarningsOf(r))

-----------------------------------------------------------------------------
(* Refinement. *)

(* The order's stages, the money and the earning follow OrderJourney.      *)
Journey == INSTANCE OrderJourney WITH
    journey <- reached,
    funded  <- {o \in Orders : PaidInFull(o)},
    cash    <- {o \in Orders : method[o] = "COD"},
    earner  <- earned

ImplementsJourney == Journey!JourneySpec

-----------------------------------------------------------------------------
(* Liveness. *)

(* Every order leaves AWAITING_PAYMENT, because it is paid or because the  *)
(* task cancels it, unless a process died: before it queued the task, or   *)
(* while it ran it (the broker does not redeliver).                        *)
AwaitingPaymentEnds ==
    \A o \in Orders :
        status[o] = "AWAITING_PAYMENT" ~> status[o] # "AWAITING_PAYMENT" \/ faults > 0

(* A payment taken in full reaches the restaurant as a PLACED order, as    *)
(* long as a second "pay" does not replace the Razorpay order it is for.   *)
CaptureReachesOrder ==
    \A o \in Orders, z \in RzpIds :
        rzpState[z] = "paid" /\ provOrder[o] = z
            ~> "PLACED" \in reached[o] \/ provOrder[o] # z
=============================================================================
