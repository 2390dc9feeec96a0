------------------------------ MODULE Pricing ------------------------------
(***************************************************************************)
(* The delivery fee as a function of the distance.  Distances in metres,   *)
(* rates in paise per kilometre, fees in paise.                            *)
(***************************************************************************)
EXTENDS Integers

CONSTANTS FreeRadius, FarThreshold, NearRate, FarRate, MaxFee,
          Horizon       \* bound on the distances

ASSUME PricingAssumption ==
    /\ FreeRadius \in Nat /\ FarThreshold \in Nat /\ FreeRadius <= FarThreshold
    /\ NearRate \in Nat /\ FarRate \in Nat /\ MaxFee \in Nat /\ Horizon \in Nat

VARIABLE distance   \* of a delivery

(* quantize(Decimal("0.01")) rounds a thousandth to even. *)
Quantized(x) ==
    LET q == x \div 1000
        r == x % 1000 IN
    IF r > 500 \/ (r = 500 /\ q % 2 = 1) THEN q + 1 ELSE q

(* Mutant: beyond the threshold the whole way costs the far rate. *)
UncappedFlat(d) ==
    IF d <= FreeRadius THEN 0
    ELSE IF d <= FarThreshold THEN (d - FreeRadius) * NearRate
    ELSE (d - FarThreshold) * FarRate

Uncapped(d) ==
    IF d <= FreeRadius THEN 0
    ELSE IF d <= FarThreshold THEN (d - FreeRadius) * NearRate
    ELSE (FarThreshold - FreeRadius) * NearRate + (d - FarThreshold) * FarRate

calculate_delivery_fee(d) ==
    LET fee == Quantized(Uncapped(d)) IN
    IF fee <= MaxFee THEN fee ELSE MaxFee

PricingInit == distance \in 0..Horizon

Farther ==
    /\ distance < Horizon
    /\ distance' = distance + 1

PricingSpec == PricingInit /\ [][Farther]_distance

(* A longer way never costs less: not across the two thresholds, not       *)
(* through the rounding to paise, not at the cap; and it is never more     *)
(* than the cap.                                                           *)
FeeGrowsWithDistance ==
    /\ 0 <= calculate_delivery_fee(distance) /\ calculate_delivery_fee(distance) <= MaxFee
    /\ calculate_delivery_fee(distance) <= calculate_delivery_fee(distance + 1)
=============================================================================
