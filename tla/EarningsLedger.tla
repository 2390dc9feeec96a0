--------------------------- MODULE EarningsLedger ---------------------------
(***************************************************************************)
(* What Feasto promises of a ledger of earnings: an entry is added once    *)
(* and paid once, together with other pending entries of its owner, by a   *)
(* payout of exactly their sum.  Nothing is edited afterwards.             *)
(***************************************************************************)
EXTENDS Naturals, FiniteSetsExt

CONSTANTS
    Earnings,   \* the rows that may be written, one per delivered order
    Owners,     \* riders (or restaurants) that are paid out
    Payouts,    \* ids of payout rows
    OwnerOf,    \* the owner of an earning
    Amount,     \* its amount
    NoPayout

ASSUME LedgerAssumption ==
    /\ OwnerOf \in [Earnings -> Owners]
    /\ Amount \in [Earnings -> Nat \ {0}]
    /\ NoPayout \notin Payouts

VARIABLES
    ledger,     \* earnings.status ("NONE": no row yet)
    payoutOf,   \* earnings.payout_id
    payout      \* payouts: owner and total_amount ({}: no row)

ledgerVars == <<ledger, payoutOf, payout>>

Total(S) == MapThenSumSet(LAMBDA e : Amount[e], S)

PendingOf(w) == {e \in Earnings : OwnerOf[e] = w /\ ledger[e] = "PENDING"}

Entries(p) == {e \in Earnings : payoutOf[e] = p}

LedgerInit ==
    /\ ledger = [e \in Earnings |-> "NONE"]
    /\ payoutOf = [e \in Earnings |-> NoPayout]
    /\ payout = [p \in Payouts |-> {}]

Earn(e) ==
    /\ ledger[e] = "NONE"
    /\ ledger' = [ledger EXCEPT ![e] = "PENDING"]
    /\ UNCHANGED <<payoutOf, payout>>

(* One payout for some of the pending entries of one owner. *)
Pay(w, S, p) ==
    /\ S # {}
    /\ payout[p] = {}
    /\ payout' = [payout EXCEPT ![p] = {[owner |-> w, total |-> Total(S)]}]
    /\ ledger' = [e \in Earnings |-> IF e \in S THEN "PAID_OUT" ELSE ledger[e]]
    /\ payoutOf' = [e \in Earnings |-> IF e \in S THEN p ELSE payoutOf[e]]

LedgerNext ==
    \/ \E e \in Earnings : Earn(e)
    \/ \E w \in Owners, p \in Payouts : \E S \in SUBSET PendingOf(w) : Pay(w, S, p)

LedgerSpec == LedgerInit /\ [][LedgerNext]_ledgerVars
=============================================================================
