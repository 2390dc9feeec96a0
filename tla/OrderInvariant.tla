--------------------------- MODULE OrderInvariant ---------------------------
(***************************************************************************)
(* Why OrderSystem is safe: what a session in flight may still rely on.    *)
(* What it read may be stale when it commits, but stages are only added,   *)
(* Razorpay's answers are never taken back and an earning stays, so some   *)
(* of what the handler checked is still true.  Each invariant here is      *)
(* inductive together with the ones before it.                             *)
(***************************************************************************)
EXTENDS OrderClaims

-----------------------------------------------------------------------------
(* Stages and money. *)

OrderOps == SessionOps \ {"idle", "online", "offline"}

(* The stage the order had reached when the handler read it. *)
Needs == [accept |-> "PLACED", reject |-> "PLACED", preparing |-> "CONFIRMED",
          ready |-> "PREPARING", pickup |-> "RIDER_ASSIGNED",
          deliver |-> "OUT_FOR_DELIVERY"]

StageSessionOK(t) ==
    /\ t.op \in OrderOps => t.order \in Orders
    /\ t.order \in Orders => status[t.order] # "NONE"
    /\ t.op \in DOMAIN Needs => Needs[t.op] \in reached[t.order]
    /\ t.op = "deliver" => t.rider \in Riders
    /\ t.op = "captured" =>
         t.rzp \in RzpIds /\ rzpFor[t.rzp] = t.order /\ rzpState[t.rzp] = "paid"

(* An order that is not checked out has left no trace. *)
BlankUntilCheckout ==
    \A o \in Orders : status[o] = "NONE" =>
        /\ reached[o] = {} /\ method[o] = "NONE" /\ provOrder[o] = NoRzp
        /\ \A z \in RzpIds : rzpFor[z] # o

RazorpayIdsAreOurs ==
    /\ \A o \in Orders : provOrder[o] \in RzpIds => rzpFor[provOrder[o]] = o
    /\ \A z \in RzpIds : rzpFor[z] = NoOrder => rzpState[z] = "unpaid"

JourneyInv ==
    /\ TypeOK
    /\ \A s \in Sessions : StageSessionOK(txn[s])
    /\ BlankUntilCheckout
    /\ RazorpayIdsAreOurs
    /\ NoStageSkipped
    /\ PlacedWasPaid

-----------------------------------------------------------------------------
(* Cash. *)

(* No payment handler ever works on a cash order, and a handler that could *)
(* refund it saw the payment PENDING.                                      *)
CashSessionOK(t) ==
    t.order \in Orders /\ method[t.order] = "COD" =>
        /\ t.op \notin {"initiate", "captured", "short", "failed"}
        /\ t.op \in {"reject", "timeout"} => t.pay = "PENDING"
        /\ t.op = "deliver" /\ t.pay = "PAID" => "DELIVERED" \in reached[t.order]

CashStaysOffline ==
    \A o \in Orders : method[o] = "COD" =>
        /\ provOrder[o] = NoRzp
        /\ status[o] # "AWAITING_PAYMENT"
        /\ status[o] = "PLACED" => "DELIVERED" \notin reached[o]

CashInv ==
    /\ JourneyInv
    /\ \A s \in Sessions : CashSessionOK(txn[s])
    /\ CashStaysOffline
    /\ CashCollected

-----------------------------------------------------------------------------
(* Books. *)

(* z holds the full price of o, which was placed for it. *)
TakenFor(z, o) ==
    z \in RzpIds /\ rzpFor[z] = o /\ rzpState[z] = "paid" /\ "PLACED" \in reached[o]

(* A provider_payment_id names money taken, as stored and as read before. *)
BooksSessionOK(t) ==
    t.order \in Orders /\ t.op \in {"captured", "reject", "timeout"} =>
        /\ t.paid # NoRzp => TakenFor(t.paid, t.order) /\ provPayment[t.order] # NoRzp
        /\ t.op = "captured" => method[t.order] # "COD"

BooksInv ==
    /\ CashInv
    /\ \A o \in Orders : status[o] # "NONE" => method[o] \in PaymentProvider
    /\ \A s \in Sessions : BooksSessionOK(txn[s])
    /\ \A o \in Orders : provPayment[o] # NoRzp => TakenFor(provPayment[o], o)
    /\ BooksMatchRazorpay
    /\ RefundedWasPlaced

-----------------------------------------------------------------------------
(* Waiting. *)

(* The restaurant is done with o: it was cancelled, or is ready to go. *)
Ended(o) == reason[o] # "NONE" \/ "READY_FOR_PICKUP" \in reached[o]

(* A reason that was read is still there; a PAID row was read with its id. *)
RefundSessionOK(t) ==
    t.order \in Orders =>
        /\ t.why # "NONE" => reason[t.order] # "NONE"
        /\ t.op \in {"reject", "timeout"} /\ t.pay = "PAID" /\ method[t.order] # "COD"
              => t.paid # NoRzp

(* Nothing is refunded while the restaurant has yet to answer. *)
RefundsInv ==
    /\ BooksInv
    /\ \A s \in Sessions : RefundSessionOK(txn[s])
    /\ \A o \in Orders : status[o] = "CANCELLED" => reason[o] # "NONE"
    /\ faults = 0 => \A z \in refunded : Ended(rzpFor[z])

(* Who read the order as placed commits to an order that has been placed,  *)
(* and an order waiting for its payment has not.                           *)
WatchInv ==
    /\ RefundsInv
    /\ \A o \in Orders : status[o] = "AWAITING_PAYMENT" => reached[o] = {}
    /\ \A s \in Sessions : txn[s].op \in {"captured", "reject", "timeout"} /\ txn[s].status = "PLACED"
                              => "PLACED" \in reached[txn[s].order]
    /\ WaitingIsWatched

-----------------------------------------------------------------------------
(* Deliveries. *)

(* The count a delivering session read is still within the ledger. *)
LedgerInv ==
    /\ JourneyInv
    /\ DeliveriesWithinLedger
    /\ \A s \in Sessions : txn[s].op = "deliver" =>
         txn[s].done <= Cardinality(EarningsOf(txn[s].rider))

-----------------------------------------------------------------------------
(* One session at a time. *)

OneSession == \A s, t \in Sessions : s = t

(* Nobody else commits meanwhile, so what was read still is so. *)
Stands(t) ==
    /\ t.op = "failed" => payStatus[t.order] = "PENDING"
    /\ t.op \in {"captured", "short"} => t.pay = payStatus[t.order] /\ t.pay # "PAID"
    /\ t.op \in {"captured", "reject", "timeout"} => t.status = status[t.order] /\ t.why = reason[t.order]
    /\ t.op \in DOMAIN Checks => status[t.order] = Checks[t.op]
    /\ t.op = "deliver" => t.done = deliveries[t.rider]
    /\ t.op \in {"pickup", "deliver"} => status[t.order] \in ActiveDelivery

AwaitingIsUnpaid ==
    \A o \in Orders : status[o] = "AWAITING_PAYMENT" => payStatus[o] # "PAID"

SerialInv ==
    /\ JourneyInv
    /\ \A s \in Sessions : Stands(txn[s])
    /\ AwaitingIsUnpaid
    /\ UnpaidHoldsNoMoney
    /\ DeliveriesAreCounted

(* What the restaurant sees is paid for, or to be paid at the door. *)
PlacedIsPaid ==
    \A o \in Orders : status[o] \in Stages /\ method[o] # "COD" => payStatus[o] = "PAID"

(* Nothing takes an order back to where another rider could accept it. *)
HeldIsUnderWay ==
    \A o \in Orders : riderId[o] # NoRider => status[o] \in ActiveDelivery \cup {"DELIVERED"}

HeldInv ==
    /\ CashInv
    /\ SerialInv
    /\ PlacedIsPaid
    /\ HeldIsUnderWay
=============================================================================
