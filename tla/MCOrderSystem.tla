---------------------------- MODULE MCOrderSystem ----------------------------
(***************************************************************************)
(* OrderSystem on small sets.  Sessions, Razorpay ids, riders and orders   *)
(* are interchangeable, so their permutations are a symmetry.              *)
(***************************************************************************)
EXTENDS OrderInvariant, TLC

Symmetry == Permutations(Sessions) \cup Permutations(RzpIds)
                \cup Permutations(Riders) \cup Permutations(Orders)

(* A later start for the claims about riders, so that their behaviours are *)
(* short: every order is a cash order the restaurant is preparing, its     *)
(* response timeout has run, and the riders are not online yet.  Spec      *)
(* reaches this state.                                                     *)
PreparingInit ==
    /\ status = [o \in Orders |-> "PREPARING"]
    /\ reason = [o \in Orders |-> "NONE"]
    /\ reached = [o \in Orders |->
                    {"PLACED", "CONFIRMED", "PREPARING"}]
    /\ riderId = [o \in Orders |-> NoRider]
    /\ method = [o \in Orders |-> "COD"]
    /\ payStatus = [o \in Orders |-> "PENDING"]
    /\ provOrder = [o \in Orders |-> NoRzp]
    /\ provPayment = [o \in Orders |-> NoRzp]
    /\ online = [r \in Riders |-> FALSE]
    /\ available = [r \in Riders |-> FALSE]
    /\ deliveries = [r \in Riders |-> 0]
    /\ earned = [o \in Orders |-> NoRider]
    /\ rzpFor = [z \in RzpIds |-> NoOrder]
    /\ rzpState = [z \in RzpIds |-> "unpaid"]
    /\ rzpFailed = {}
    /\ refunded = {}
    /\ responseTimer = {}
    /\ riderTimers = [o \in Orders |-> 0]
    /\ txn = [s \in Sessions |-> Idle]
    /\ faults = 0

PreparingSpec == PreparingInit /\ [][Next]_vars
=============================================================================
