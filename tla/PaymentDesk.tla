----------------------------- MODULE PaymentDesk -----------------------------
(***************************************************************************)
(* Payments: the customer's "pay" button (initiate_payment), the Razorpay  *)
(* webhook, and initiate_refund, which the cancelling handlers call inside *)
(* their own transaction.  Razorpay itself is external: a Razorpay order   *)
(* is created unpaid, is paid once (with the right amount or another), may *)
(* see failed attempts before, and grants one full refund per payment.     *)
(* Its webhook may be delivered any number of times, in any order.         *)
(***************************************************************************)
EXTENDS OrderStore

-----------------------------------------------------------------------------
(* Razorpay (external). *)

(* The customer pays a Razorpay order whose id the app has returned. *)
CustomerPays(z, amount) ==
    /\ rzpFor[z] # NoOrder /\ rzpState[z] = "unpaid"
    /\ rzpState' = [rzpState EXCEPT ![z] = amount]
    /\ UNCHANGED <<rzpFor, rzpFailed, refunded, orderCols, payCols, riderCols,
                   queue, txn, faults>>

(* An attempt to pay fails; the Razorpay order stays payable. *)
PaymentAttemptFails(z) ==
    /\ rzpFor[z] # NoOrder /\ rzpState[z] = "unpaid" /\ z \notin rzpFailed
    /\ rzpFailed' = rzpFailed \cup {z}
    /\ UNCHANGED <<rzpFor, rzpState, refunded, orderCols, payCols, riderCols,
                   queue, txn, faults>>

-----------------------------------------------------------------------------
(* POST /payments/orders/{id}/initiate *)

(* A row that already has a provider_order_id is answered without a write. *)
InitiateRead(s, o) ==
    /\ status[o] = "AWAITING_PAYMENT"
    /\ provOrder[o] = NoRzp
    /\ Begin(s, Touch("initiate", o))
    /\ UNCHANGED <<orderCols, payCols, riderCols, razorpay, queue, faults>>

(* Razorpay creates an order and the row is overwritten with its id. *)
InitiateCommit(s, z) ==
    LET o == txn[s].order IN
    /\ txn[s].op = "initiate"
    /\ rzpFor[z] = NoOrder
    /\ rzpFor' = [rzpFor EXCEPT ![z] = o]
    /\ provOrder' = [provOrder EXCEPT ![o] = z]
    /\ End(s)
    /\ UNCHANGED <<payStatus, provPayment, rzpState, rzpFailed, refunded,
                   orderCols, riderCols, queue, faults>>

-----------------------------------------------------------------------------
(* POST /payments/webhook *)

(* Mutant: the amount is not compared, every capture is a good one. *)
CapturedReadAnyAmount(s, z, o) ==
    /\ rzpState[z] # "unpaid"
    /\ provOrder[o] = z
    /\ payStatus[o] # "PAID"
    /\ Begin(s, [OrderAndPayment("captured", o) EXCEPT !.rzp = z])
    /\ UNCHANGED <<orderCols, payCols, riderCols, razorpay, queue, faults>>

(* Mutant: only a PENDING payment is captured, a FAILED one is left alone. *)
CapturedReadPending(s, z, o) ==
    /\ rzpState[z] # "unpaid"
    /\ provOrder[o] = z
    /\ payStatus[o] = "PENDING"
    /\ Begin(s, [OrderAndPayment(IF rzpState[z] = "paid" THEN "captured" ELSE "short", o)
                    EXCEPT !.rzp = z])
    /\ UNCHANGED <<orderCols, payCols, riderCols, razorpay, queue, faults>>

(* Mutant: a PAID payment is captured again. *)
CapturedReadAgain(s, z, o) ==
    /\ rzpState[z] # "unpaid"
    /\ provOrder[o] = z
    /\ Begin(s, [OrderAndPayment(IF rzpState[z] = "paid" THEN "captured" ELSE "short", o)
                    EXCEPT !.rzp = z])
    /\ UNCHANGED <<orderCols, payCols, riderCols, razorpay, queue, faults>>

(* handle_payment_captured: find the row by provider_order_id; a PAID one  *)
(* is left alone, an amount other than the row's takes the branch "short". *)
CapturedRead(s, z, o) ==
    /\ rzpState[z] # "unpaid"
    /\ provOrder[o] = z
    /\ payStatus[o] # "PAID"
    /\ Begin(s, [OrderAndPayment(IF rzpState[z] = "paid" THEN "captured" ELSE "short", o)
                    EXCEPT !.rzp = z])
    /\ UNCHANGED <<orderCols, payCols, riderCols, razorpay, queue, faults>>

(* Mutant: the payment is recorded, the order is left as it was. *)
CapturedCommitPaymentOnly(s) ==
    LET t == txn[s] IN
    /\ t.op = "captured"
    /\ payStatus' = [payStatus EXCEPT ![t.order] = "PAID"]
    /\ provPayment' = [provPayment EXCEPT ![t.order] = Flush(@, t.paid, t.rzp)]
    /\ End(s)
    /\ UNCHANGED <<provOrder, orderCols, riderCols, razorpay, queue, faults>>

(* PAID and PLACED in one transaction, whatever the order's status was.    *)
(* The handler then fails on the lazily loaded order.items of the push, so *)
(* the apply_async after it never runs: no timer is queued here.           *)
CapturedCommit(s) ==
    LET t == txn[s] IN
    /\ t.op = "captured"
    /\ payStatus' = [payStatus EXCEPT ![t.order] = "PAID"]
    /\ provPayment' = [provPayment EXCEPT ![t.order] = Flush(@, t.paid, t.rzp)]
    /\ status' = [status EXCEPT ![t.order] = Flush(@, t.status, "PLACED")]
    /\ reached' = [reached EXCEPT ![t.order] = @ \cup {"PLACED"}]
    /\ End(s)
    /\ UNCHANGED <<provOrder, reason, riderId, method, riderCols, razorpay,
                   queue, faults>>

(* Amount mismatch: the payment is FAILED, the order is not touched. *)
ShortCommit(s) ==
    LET t == txn[s] IN
    /\ t.op = "short"
    /\ payStatus' = [payStatus EXCEPT ![t.order] = Flush(@, t.pay, "FAILED")]
    /\ End(s)
    /\ UNCHANGED <<provOrder, provPayment, orderCols, riderCols, razorpay,
                   queue, faults>>

(* Mutant: the event fails the payment whatever its status. *)
FailedReadAny(s, z, o) ==
    /\ z \in rzpFailed
    /\ provOrder[o] = z
    /\ Begin(s, Touch("failed", o))
    /\ UNCHANGED <<orderCols, payCols, riderCols, razorpay, queue, faults>>

(* handle_payment_failed: only a payment read as PENDING is written. *)
FailedRead(s, z, o) ==
    /\ z \in rzpFailed
    /\ provOrder[o] = z
    /\ payStatus[o] = "PENDING"
    /\ Begin(s, Touch("failed", o))
    /\ UNCHANGED <<orderCols, payCols, riderCols, razorpay, queue, faults>>

FailedCommit(s) ==
    LET t == txn[s] IN
    /\ t.op = "failed"
    /\ payStatus' = [payStatus EXCEPT ![t.order] = "FAILED"]
    /\ End(s)
    /\ UNCHANGED <<provOrder, provPayment, orderCols, riderCols, razorpay,
                   queue, faults>>

-----------------------------------------------------------------------------
(* initiate_refund, on the payment as session t read it: the row is in the *)
(* session's identity map, so the SELECT inside it does not refresh it.    *)

RefundCallsProvider(t) == t.pay = "PAID" /\ method[t.order] = "RAZORPAY"

(* No provider reference, a payment refunded before, or another provider.  *)
RefundRaises(t) ==
    /\ t.pay = "PAID"
    /\ \/ method[t.order] = "RAZORPAY" /\ t.paid \in refunded \cup {NoRzp}
       \/ method[t.order] = "STRIPE"

(* Mutant: the status is written without asking Razorpay. *)
RefundBookedOnly(t) ==
    /\ ~ RefundRaises(t)
    /\ UNCHANGED refunded
    /\ payStatus' = IF t.pay # "PAID" THEN payStatus
                    ELSE [payStatus EXCEPT ![t.order] = "REFUND_PENDING"]

(* Mutant: the SELECT refreshes the payment (populate_existing), so that a *)
(* stale rejection finds the cash of an order delivered meanwhile.         *)
RefundRefreshed(t) ==
    LET paid == payStatus[t.order] = "PAID" IN
    /\ ~ RefundRaises(t)
    /\ refunded' = IF paid /\ method[t.order] = "RAZORPAY" THEN refunded \cup {t.paid}
                   ELSE refunded
    /\ payStatus' = IF ~ paid THEN payStatus
                    ELSE [payStatus EXCEPT ![t.order] =
                            IF method[t.order] = "COD" THEN "REFUNDED" ELSE "REFUND_PENDING"]

(* The Razorpay call and the status it writes; a payment that is not PAID  *)
(* is skipped.  The write lands with the commit of the caller.             *)
initiate_refund(t) ==
    /\ ~ RefundRaises(t)
    /\ refunded' = IF RefundCallsProvider(t) THEN refunded \cup {t.paid} ELSE refunded
    /\ payStatus' = IF t.pay # "PAID" THEN payStatus
                    ELSE [payStatus EXCEPT ![t.order] =
                            IF method[t.order] = "COD" THEN "REFUNDED" ELSE "REFUND_PENDING"]

(* The refund raises: the caller's whole transaction is rolled back. *)
RefundAborts(s) ==
    LET t == txn[s] IN
    /\ t.op = "reject" \/ (t.op = "timeout" /\ t.status = "PLACED")
    /\ \/ RefundRaises(t) /\ UNCHANGED faults
       \/ RefundCallsProvider(t) /\ ~ RefundRaises(t) /\ Fault
    /\ End(s)
    /\ UNCHANGED <<orderCols, payCols, riderCols, razorpay, queue>>

(* Razorpay has granted the refund and the process dies before COMMIT. *)
CrashAfterRefund(s) ==
    LET t == txn[s] IN
    /\ t.op = "reject" \/ (t.op = "timeout" /\ t.status = "PLACED")
    /\ RefundCallsProvider(t) /\ ~ RefundRaises(t)
    /\ Fault
    /\ refunded' = refunded \cup {t.paid}
    /\ End(s)
    /\ UNCHANGED <<rzpFor, rzpState, rzpFailed, orderCols, payCols, riderCols, queue>>
=============================================================================
