----------------------------- MODULE MCPayouts -----------------------------
(***************************************************************************)
(* Payouts for two owners: w1 has the first two earnings (enough for two   *)
(* runs to hold one each and wait for the other), w2 the third.            *)
(***************************************************************************)
EXTENDS Payouts

CONSTANTS e1, e2, e3, w1, w2

MCOwnerOf == [e \in {e1, e2, e3} |-> IF e = e3 THEN w2 ELSE w1]

MCAmount == [e \in {e1, e2, e3} |-> CASE e = e1 -> 1 [] e = e2 -> 2 [] e = e3 -> 4]
=============================================================================
