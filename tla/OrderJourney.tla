---------------------------- MODULE OrderJourney ----------------------------
(***************************************************************************)
(* What the ordering core promises about one order, whatever requests,     *)
(* retries, timeouts and crashes overlap: it reaches its stages one after  *)
(* the other, it is placed only when it is paid for or is to be paid in    *)
(* cash, and it is delivered once, for one rider's earning.                *)
(*                                                                         *)
(* Nothing is said of the status column: overlapping handlers do move it   *)
(* backwards.  A stage reached again is a stuttering step here.            *)
(***************************************************************************)
CONSTANTS Orders, Riders, NoRider

VARIABLES
    journey,   \* the stages each order has reached
    funded,    \* orders Razorpay has been paid for, in full
    cash,      \* orders to be paid at the door
    earner     \* the rider who earned the delivery

journeyVars == <<journey, funded, cash, earner>>

(* The stage before each stage but the first. *)
Predecessor ==
    [CONFIRMED |-> "PLACED", PREPARING |-> "CONFIRMED",
     READY_FOR_PICKUP |-> "PREPARING", RIDER_ASSIGNED |-> "READY_FOR_PICKUP",
     OUT_FOR_DELIVERY |-> "RIDER_ASSIGNED", DELIVERED |-> "OUT_FOR_DELIVERY"]

JourneyInit ==
    /\ journey = [o \in Orders |-> {}]
    /\ funded = {}
    /\ cash = {}
    /\ earner = [o \in Orders |-> NoRider]

Fund(o) ==
    /\ funded' = funded \cup {o}
    /\ UNCHANGED <<journey, cash, earner>>

PlaceCash(o) ==
    /\ journey[o] = {} /\ o \notin funded
    /\ cash' = cash \cup {o}
    /\ journey' = [journey EXCEPT ![o] = {"PLACED"}]
    /\ UNCHANGED <<funded, earner>>

PlaceFunded(o) ==
    /\ o \in funded
    /\ journey' = [journey EXCEPT ![o] = @ \cup {"PLACED"}]
    /\ UNCHANGED <<funded, cash, earner>>

Advance(o, st) ==
    /\ Predecessor[st] \in journey[o]
    /\ journey' = [journey EXCEPT ![o] = @ \cup {st}]
    /\ UNCHANGED <<funded, cash, earner>>

Deliver(o, r) ==
    /\ Predecessor["DELIVERED"] \in journey[o]
    /\ earner[o] = NoRider
    /\ journey' = [journey EXCEPT ![o] = @ \cup {"DELIVERED"}]
    /\ earner' = [earner EXCEPT ![o] = r]
    /\ UNCHANGED <<funded, cash>>

JourneyNext ==
    \E o \in Orders :
        \/ Fund(o) \/ PlaceCash(o) \/ PlaceFunded(o)
        \/ \E st \in DOMAIN Predecessor \ {"DELIVERED"} : Advance(o, st)
        \/ \E r \in Riders : Deliver(o, r)

JourneySpec == JourneyInit /\ [][JourneyNext]_journeyVars
=============================================================================
