----------------------------- MODULE OrderClaims -----------------------------
(***************************************************************************)
(* What the repository's documentation says of the ordering core and the   *)
(* code does not keep once requests overlap, or not at all.  Each property *)
(* quotes the claim it states.  claim_*.cfg show the behaviours that break *)
(* one; serial.cfg shows which of them hold with one session at a time.    *)
(***************************************************************************)
EXTENDS OrderSystem

(* README:25 "a retried delivery can't double-process a payment": a        *)
(* capture already recorded is not recorded as PAID a second time.  (The   *)
(* guard is on PAID; REFUND_PENDING and FAILED pass it.)                   *)
CaptureProcessedOnce ==
    [][\A o \in Orders :
         payStatus[o] # "PAID" /\ payStatus'[o] = "PAID" /\ method[o] # "COD"
             => provPayment'[o] # provPayment[o]]_vars

(* README:25 "status-guard idempotency": the event of an earlier failed    *)
(* attempt does not overwrite a payment that has been captured since.      *)
PaidIsNotFailed ==
    [][\A o \in Orders : payStatus[o] = "PAID" => payStatus'[o] # "FAILED"]_vars

(* orders/tasks.py:52 "no refund - nothing was ever captured": an order    *)
(* cancelled for want of payment holds no captured payment.                *)
UnpaidHoldsNoMoney ==
    \A o \in Orders :
        status[o] = "CANCELLED" /\ reason[o] = "PAYMENT_FAILED" => payStatus[o] # "PAID"

(* README:78 "a Celery task ... auto-cancels the unassigned order after a  *)
(* timeout window": no order waits for a rider forever.                    *)
UnassignedIsCancelled ==
    \A o \in Orders : status[o] = "READY_FOR_PICKUP" ~> status[o] # "READY_FOR_PICKUP"

(* riders/router.py:203 "A rider can have at most one active order".       *)
RiderHasOneOrder ==
    \A r \in Riders : \A o, p \in ActiveOrders(r) : o = p

(* README:23 "locking the order row so the second request correctly       *)
(* fails" (riders/services.py:215 "already been assigned to another        *)
(* rider"): an order a rider has taken is not taken by another one.  The   *)
(* lock keeps two acceptances apart, but nothing keeps apart an acceptance *)
(* and the handlers that write the status from what they read before it.   *)
OrderKeepsItsRider ==
    [][\A o \in Orders : riderId[o] # NoRider => riderId'[o] = riderId[o]]_vars

(* riders/services.py:436 "Rider's total_deliveries increments": with each *)
(* delivery, so it counts the rows of the ledger.                          *)
DeliveriesAreCounted ==
    \A r \in Riders : deliveries[r] = Cardinality(EarningsOf(r))
=============================================================================
