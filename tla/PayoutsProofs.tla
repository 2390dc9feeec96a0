--------------------------- MODULE PayoutsProofs ---------------------------
(***************************************************************************)
(* PayoutsInv is inductive, and with it every step of the job is a step of *)
(* EarningsLedger or none.  Total is never expanded: that a payout's sum   *)
(* is that of its entries follows from which rows it takes.                *)
(***************************************************************************)
EXTENDS Payouts, TLAPS

USE LedgerAssumption, PayoutsAssumption

-----------------------------------------------------------------------------
(* Steps that move no money: only the record of one run changes. *)
LEMMA RunStepKeeps ==
    ASSUME PayoutsInv, NEW j \in Runs, NEW r \in Run,
           run' = [run EXCEPT ![j] = r], UNCHANGED ledgerVars,
           logged' \subseteq Owners, faults' \in Nat,
           r.wanted \cup r.locked # {} => r.owner # NoOwner,
           \A e \in r.wanted \cup r.locked : OwnerOf[e] = r.owner,
           \A e \in r.locked : ledger[e] = "PENDING",
           \A k \in Runs \ {j} : r.locked \cap run[k].locked = {}
    PROVE  PayoutsInv'
<1> USE DEF PayoutsInv, ledgerVars
<1>1. TypeOK'
  BY DEF TypeOK
<1>2. \A k \in Runs : run'[k] = IF k = j THEN r ELSE run[k]
  BY DEF TypeOK
<1>3. RowsUnderLock'
  BY <1>2 DEF RowsUnderLock
<1>4. PendingIsUnpaid'
  BY DEF PendingIsUnpaid
<1>5. PayoutIsItsEarnings'
  <2>1. \A p \in Payouts : Entries(p)' = Entries(p)
    BY DEF Entries
  <2> QED
    BY <2>1 DEF PayoutIsItsEarnings
<1> QED
  BY <1>1, <1>3, <1>4, <1>5

(* A run between two batches. *)
LEMMA NoBatchKeeps ==
    ASSUME PayoutsInv, NEW j \in Runs, NEW todo \in SUBSET Owners,
           run' = [run EXCEPT ![j] = NoBatch(todo)], UNCHANGED ledgerVars,
           logged' \subseteq Owners, faults' \in Nat
    PROVE  PayoutsInv'
<1>1. NoBatch(todo) \in Run
  BY DEF NoBatch, Run
<1>2. NoBatch(todo).wanted = {} /\ NoBatch(todo).locked = {}
  BY DEF NoBatch
<1> QED
  BY <1>1, <1>2, RunStepKeeps

LEMMA LockKeeps ==
    ASSUME PayoutsInv, NEW j \in Runs, NEW e \in Earnings, LockRow(j, e)
    PROVE  PayoutsInv'
<1> DEFINE r == [run[j] EXCEPT !.wanted = @ \ {e},
                               !.locked = IF ledger[e] = "PENDING" THEN @ \cup {e} ELSE @]
<1>0. TypeOK /\ RowsUnderLock
  BY DEF PayoutsInv
<1>1. run[j] \in Run
  BY <1>0 DEF TypeOK
<1>2. r \in Run
  BY <1>1 DEF Run
<1>3. run' = [run EXCEPT ![j] = r]
  BY DEF LockRow
<1>4. /\ r.owner = run[j].owner
      /\ r.wanted = run[j].wanted \ {e}
      /\ r.locked = IF ledger[e] = "PENDING" THEN run[j].locked \cup {e} ELSE run[j].locked
  BY <1>1 DEF Run
<1>5. e \in run[j].wanted /\ \A k \in Runs : e \notin run[k].locked
  BY DEF LockRow, Held
<1>6. /\ r.wanted \cup r.locked # {} => r.owner # NoOwner
      /\ \A x \in r.wanted \cup r.locked : OwnerOf[x] = r.owner
      /\ \A x \in r.locked : ledger[x] = "PENDING"
  BY <1>0, <1>4, <1>5 DEF RowsUnderLock
<1>7. \A k \in Runs \ {j} : r.locked \cap run[k].locked = {}
  BY <1>0, <1>4, <1>5 DEF RowsUnderLock
<1>8. logged' \subseteq Owners /\ faults' \in Nat /\ UNCHANGED ledgerVars
  BY <1>0 DEF LockRow, TypeOK
<1> HIDE DEF r
<1> QED
  BY <1>2, <1>3, <1>6, <1>7, <1>8, RunStepKeeps

LEMMA SelectKeeps ==
    ASSUME PayoutsInv, NEW j \in Runs, NEW w \in Owners, SelectPending(j, w)
    PROVE  PayoutsInv'
<1> DEFINE r == [todo |-> run[j].todo \ {w}, owner |-> w,
                 wanted |-> PendingOf(w), locked |-> {}]
<1>0. TypeOK /\ run[j] \in Run
  BY DEF PayoutsInv, TypeOK
<1>1. r \in Run
  BY <1>0 DEF Run, PendingOf
<1>2. run' = [run EXCEPT ![j] = r]
  BY DEF SelectPending
<1>3. logged' \subseteq Owners /\ faults' \in Nat /\ UNCHANGED ledgerVars
  BY <1>0 DEF SelectPending, TypeOK
<1>4. /\ r.owner # NoOwner /\ r.locked = {}
      /\ \A e \in r.wanted : OwnerOf[e] = r.owner
  BY DEF PendingOf
<1> HIDE DEF r
<1> QED
  BY <1>1, <1>2, <1>3, <1>4, RunStepKeeps

-----------------------------------------------------------------------------
(* Steps that move money. *)

LEMMA EarningKeeps ==
    ASSUME PayoutsInv, NEW e \in Earnings, create_earning(e)
    PROVE  PayoutsInv'
<1> USE DEF PayoutsInv, create_earning
<1>1. TypeOK'
  BY DEF TypeOK
<1>2. \A x \in Earnings : ledger'[x] = IF x = e THEN "PENDING" ELSE ledger[x]
  BY DEF TypeOK
<1>3. RowsUnderLock'
  <2>1. \A j \in Runs : run[j].locked \subseteq Earnings
    BY DEF TypeOK, Run
  <2> QED
    BY <1>2, <2>1 DEF RowsUnderLock
<1>4. PendingIsUnpaid'
  BY <1>2 DEF PendingIsUnpaid
<1>5. PayoutIsItsEarnings'
  <2>1. \A p \in Payouts : Entries(p)' = Entries(p)
    BY DEF Entries
  <2>2. \A p \in Payouts : e \notin Entries(p)
    BY DEF Entries, PendingIsUnpaid
  <2>3. \A p \in Payouts : Entries(p) \subseteq Earnings
    BY DEF Entries
  <2> QED
    BY <1>2, <2>1, <2>2, <2>3 DEF PayoutIsItsEarnings
<1> QED
  BY <1>1, <1>3, <1>4, <1>5

(* A batch pays the rows it has locked: nobody else holds them, and they   *)
(* are in no payout yet.                                                   *)
LEMMA BatchKeeps ==
    ASSUME PayoutsInv, NEW j \in Runs, NEW p \in Payouts, run_payout_batch(j, p)
    PROVE  PayoutsInv'
<1> DEFINE S == run[j].locked
           row == [owner |-> run[j].owner, total |-> Total(S)]
<1>0. TypeOK /\ RowsUnderLock /\ PendingIsUnpaid /\ PayoutIsItsEarnings
  BY DEF PayoutsInv
<1>1. run[j] \in Run /\ S \subseteq Earnings /\ S # {} /\ run[j].wanted = {}
  BY <1>0 DEF TypeOK, Run, run_payout_batch
<1>2. run[j].owner \in Owners
  BY <1>0, <1>1 DEF RowsUnderLock, Run
<1>3. /\ ledger' = [e \in Earnings |-> IF e \in S THEN "PAID_OUT" ELSE ledger[e]]
      /\ payoutOf' = [e \in Earnings |-> IF e \in S THEN p ELSE payoutOf[e]]
      /\ payout' = [payout EXCEPT ![p] = {row}]
      /\ payout[p] = {}
      /\ run' = [run EXCEPT ![j] = NoBatch(run[j].todo)]
      /\ UNCHANGED <<logged, faults>>
  BY DEF run_payout_batch
<1>4. row \in [owner : Owners, total : {Total(T) : T \in SUBSET Earnings}]
  BY <1>1, <1>2
<1>5. TypeOK'
  <2>1. NoBatch(run[j].todo) \in Run
    BY <1>1 DEF NoBatch, Run
  <2>2. /\ ledger' \in [Earnings -> {"NONE", "PENDING", "PAID_OUT"}]
        /\ payoutOf' \in [Earnings -> Payouts \cup {NoPayout}]
    BY <1>0, <1>3 DEF TypeOK
  <2> HIDE DEF row
  <2> QED
    BY <1>0, <1>3, <1>4, <2>1, <2>2 DEF TypeOK
<1>6. \A k \in Runs : run'[k] = IF k = j THEN NoBatch(run[j].todo) ELSE run[k]
  BY <1>0, <1>3 DEF TypeOK
<1>7. RowsUnderLock'
  <2>1. \A k \in Runs \ {j} : \A e \in run[k].locked : e \in Earnings /\ e \notin S
    BY <1>0 DEF RowsUnderLock, TypeOK, Run
  <2> QED
    BY <1>0, <1>3, <1>6, <2>1 DEF RowsUnderLock, NoBatch
<1>8. PendingIsUnpaid'
  BY <1>0, <1>3 DEF PendingIsUnpaid
<1>9. PayoutIsItsEarnings'
  <2>1. \A e \in S : ledger[e] = "PENDING" /\ OwnerOf[e] = run[j].owner
    BY <1>0 DEF RowsUnderLock
  <2>2. \A e \in Earnings : payoutOf[e] # p
    BY <1>0, <1>3 DEF PayoutIsItsEarnings, PendingIsUnpaid
  <2>3. Entries(p)' = S
    BY <1>1, <1>3, <2>2 DEF Entries
  <2>4. \A q \in Payouts \ {p} : Entries(q)' = Entries(q)
    BY <1>0, <1>3, <2>1 DEF Entries, PendingIsUnpaid
  <2>5. \A q \in Payouts : payout'[q] = IF q = p THEN {row} ELSE payout[q]
    BY <1>0, <1>3 DEF TypeOK
  <2>6. ASSUME NEW q \in Payouts, NEW x \in payout'[q]
        PROVE  /\ x.total = Total(Entries(q)')
               /\ \A e \in Entries(q)' : ledger'[e] = "PAID_OUT" /\ OwnerOf[e] = x.owner
    <3>1. CASE q = p
      BY <1>1, <1>3, <2>1, <2>3, <2>5, <3>1
    <3>2. CASE q # p
      <4>1. /\ x.total = Total(Entries(q))
            /\ \A e \in Entries(q) : ledger[e] = "PAID_OUT" /\ OwnerOf[e] = x.owner
        BY <1>0, <2>5, <2>6, <3>2 DEF PayoutIsItsEarnings
      <4> QED
        BY <1>3, <2>4, <3>2, <4>1 DEF Entries
    <3> QED
      BY <3>1, <3>2
  <2>7. ASSUME NEW e \in Earnings, ledger'[e] = "PAID_OUT"
        PROVE  payoutOf'[e] \in Payouts /\ payout'[payoutOf'[e]] # {}
    <3>1. CASE e \in S
      <4>1. payoutOf'[e] = p
        BY <1>3, <3>1
      <4> QED
        BY <2>5, <4>1
    <3>2. CASE e \notin S
      <4>1. payoutOf'[e] = payoutOf[e] /\ ledger[e] = "PAID_OUT"
        BY <1>3, <2>7, <3>2
      <4>2. payoutOf[e] \in Payouts /\ payout[payoutOf[e]] # {}
        BY <1>0, <4>1 DEF PayoutIsItsEarnings
      <4> QED
        BY <1>3, <2>5, <4>1, <4>2
    <3> QED
      BY <3>1, <3>2
  <2> QED
    BY <2>6, <2>7 DEF PayoutIsItsEarnings
<1> QED
  BY <1>5, <1>7, <1>8, <1>9 DEF PayoutsInv

-----------------------------------------------------------------------------
LEMMA InitHolds == Init => PayoutsInv
<1> SUFFICES ASSUME Init PROVE PayoutsInv
  OBVIOUS
<1>1. NoBatch({}) \in Run /\ NoBatch({}).wanted = {} /\ NoBatch({}).locked = {}
  BY DEF NoBatch, Run
<1>2. TypeOK
  BY <1>1 DEF Init, LedgerInit, TypeOK
<1>3. RowsUnderLock
  BY <1>1 DEF Init, RowsUnderLock
<1>4. PendingIsUnpaid /\ PayoutIsItsEarnings
  BY DEF Init, LedgerInit, PendingIsUnpaid, PayoutIsItsEarnings
<1> QED
  BY <1>2, <1>3, <1>4 DEF PayoutsInv

LEMMA NextKeeps ==
    ASSUME PayoutsInv, [Next]_vars
    PROVE  PayoutsInv'
<1>0. TypeOK /\ RowsUnderLock
  BY DEF PayoutsInv
<1>1. CASE UNCHANGED vars
  <2> USE <1>1 DEF vars, ledgerVars, PayoutsInv
  <2>1. TypeOK' /\ RowsUnderLock' /\ PendingIsUnpaid'
    BY DEF TypeOK, RowsUnderLock, PendingIsUnpaid
  <2>2. \A p \in Payouts : Entries(p)' = Entries(p)
    BY DEF Entries
  <2>3. PayoutIsItsEarnings'
    BY <2>2 DEF PayoutIsItsEarnings
  <2> QED
    BY <2>1, <2>3
<1>2. ASSUME NEW e \in Earnings, create_earning(e) PROVE PayoutsInv'
  BY <1>2, EarningKeeps
<1>3. ASSUME NEW j \in Runs, run_weekly_payouts(j) PROVE PayoutsInv'
  BY <1>0, <1>3, NoBatchKeeps DEF run_weekly_payouts, TypeOK
<1>4. ASSUME NEW j \in Runs, Proceed(j) PROVE PayoutsInv'
  <2>1. run[j] \in Run /\ run[j].todo \in SUBSET Owners
    BY <1>0 DEF TypeOK, Run
  <2>2. CASE \E w \in Owners : SelectPending(j, w)
    BY <2>2, SelectKeeps
  <2>3. CASE \E e \in Earnings : LockRow(j, e)
    BY <2>3, LockKeeps
  <2>4. CASE NothingPending(j)
    BY <1>0, <2>1, <2>4, NoBatchKeeps DEF NothingPending, TypeOK
  <2>5. CASE \E p \in Payouts : run_payout_batch(j, p)
    BY <2>5, BatchKeeps
  <2>6. CASE DeadlockVictim(j)
    <3>1. run[j].owner \in Owners
      <4>1. Blocked(j)
        BY <2>6 DEF DeadlockVictim
      <4>2. run[j].wanted # {}
        BY <4>1 DEF Blocked
      <4> QED
        BY <1>0, <2>1, <4>2 DEF RowsUnderLock, Run
    <3> QED
      BY <1>0, <2>1, <2>6, <3>1, NoBatchKeeps DEF DeadlockVictim, RollBack, TypeOK
  <2> QED
    BY <1>4, <2>2, <2>3, <2>4, <2>5, <2>6 DEF Proceed
<1>5. ASSUME NEW j \in Runs, BatchError(j) PROVE PayoutsInv'
  <2>1. run[j] \in Run /\ run[j].todo \in SUBSET Owners /\ run[j].owner \in Owners
    BY <1>0, <1>5 DEF BatchError, TypeOK, Run
  <2>2. faults' \in Nat
    BY <1>0, <1>5 DEF BatchError, Fault, TypeOK
  <2>3. /\ run' = [run EXCEPT ![j] = NoBatch(run[j].todo)]
        /\ logged' \subseteq Owners /\ UNCHANGED ledgerVars
    BY <1>0, <1>5, <2>1 DEF BatchError, RollBack, TypeOK
  <2> QED
    BY <2>1, <2>2, <2>3, NoBatchKeeps
<1>6. ASSUME NEW j \in Runs, Crash(j) PROVE PayoutsInv'
  <2>1. faults' \in Nat
    BY <1>0, <1>6 DEF Crash, Fault, TypeOK
  <2>2. /\ run' = [run EXCEPT ![j] = NoBatch({})]
        /\ logged' \subseteq Owners /\ UNCHANGED ledgerVars
    BY <1>0, <1>6 DEF Crash, TypeOK
  <2>3. {} \in SUBSET Owners
    OBVIOUS
  <2> QED
    BY <2>1, <2>2, <2>3, NoBatchKeeps
<1> QED
  BY <1>1, <1>2, <1>3, <1>4, <1>5, <1>6 DEF Next

(* What holds between any two steps of any number of overlapping runs: the *)
(* rows a batch has locked are pending, of its owner and nobody else's.    *)
THEOREM BatchesInvariant == Spec => []PayoutsInv
  BY InitHolds, NextKeeps, PTL DEF Spec

(* Every payout is the sum of exactly the earnings that name it.           *)
THEOREM PayoutsAddUp == Spec => []PayoutIsItsEarnings
<1>1. PayoutsInv => PayoutIsItsEarnings
  BY DEF PayoutsInv
<1> QED
  BY <1>1, BatchesInvariant, PTL

-----------------------------------------------------------------------------
(* Rows a run has before it. *)

(* The open batch is rolled back: its rows are of the owner that is logged. *)
LEMMA RollBackLogs ==
    ASSUME PayoutsInv, NEW j \in Runs, RollBack(j), NEW k \in Runs, NEW e \in Earnings,
           Claims(k, e), ~Claims(k, e)'
    PROVE  OwnerOf[e] \in logged'
<1>0. TypeOK /\ RowsUnderLock
  BY DEF PayoutsInv
<1>1. /\ run' = [run EXCEPT ![j] = NoBatch(run[j].todo)] /\ UNCHANGED ledger
      /\ logged' = logged \cup {run[j].owner}
  BY DEF RollBack, ledgerVars
<1>2. \A q \in Runs : run'[q] = IF q = j THEN NoBatch(run[j].todo) ELSE run[q]
  BY <1>0, <1>1 DEF TypeOK
<1>3. k = j /\ OwnerOf[e] \notin run[j].todo
  BY <1>1, <1>2 DEF Claims, NoBatch
<1>4. OwnerOf[e] = run[j].owner
  BY <1>0, <1>3 DEF Claims, RowsUnderLock
<1> QED
  BY <1>1, <1>4

(* Only the run that moves can let go of a row. *)
LEMMA OthersClaim ==
    ASSUME PayoutsInv, NEW j \in Runs, NEW r, run' = [run EXCEPT ![j] = r],
           NEW k \in Runs \ {j}, NEW e \in Earnings, Claims(k, e), ledger'[e] = ledger[e]
    PROVE  Claims(k, e)'
BY DEF Claims, PayoutsInv, TypeOK

(* However runs overlap, wait for each other and fail, a run that has a    *)
(* pending row before it pays it, sees it paid, or leaves word.            *)
THEOREM NothingIsDropped == Spec => NoRowDropped
<1>1. ASSUME PayoutsInv, [Next]_vars, NEW k \in Runs, NEW e \in Earnings,
             Claims(k, e), ~Claims(k, e)'
      PROVE  ledger'[e] = "PAID_OUT" \/ OwnerOf[e] \in logged' \/ faults' > 0
  <2> USE DEF ledgerVars
  <2> DEFINE Goal == ledger'[e] = "PAID_OUT" \/ OwnerOf[e] \in logged' \/ faults' > 0
  <2>0. TypeOK /\ RowsUnderLock /\ ledger[e] = "PENDING"
    BY <1>1 DEF PayoutsInv, Claims
  <2>1. CASE UNCHANGED vars
    BY <1>1, <2>1 DEF vars, Claims
  <2>2. ASSUME NEW x \in Earnings, create_earning(x) PROVE Goal
    BY <1>1, <2>0, <2>2 DEF create_earning, Claims, TypeOK
  <2>3. ASSUME NEW j \in Runs, run_weekly_payouts(j) PROVE Goal
    <3>1. run[j] = NoBatch({}) /\ UNCHANGED ledger
      BY <2>3 DEF run_weekly_payouts
    <3>2. k # j
      BY <1>1, <3>1 DEF Claims, NoBatch
    <3> QED
      BY <1>1, <2>3, <3>1, <3>2, OthersClaim DEF run_weekly_payouts
  <2>4. ASSUME NEW j \in Runs, NEW w \in Owners, SelectPending(j, w) PROVE Goal
    <3>1. /\ run[j].wanted \cup run[j].locked = {} /\ UNCHANGED ledger
          /\ run' = [run EXCEPT ![j] = [todo |-> run[j].todo \ {w}, owner |-> w,
                                        wanted |-> PendingOf(w), locked |-> {}]]
      BY <2>0, <2>4 DEF SelectPending, RowsUnderLock
    <3>2. CASE k = j
      <4>1. /\ run'[j].todo = run[j].todo \ {w} /\ run'[j].wanted = PendingOf(w)
        BY <2>0, <3>1 DEF TypeOK
      <4> QED
        BY <1>1, <2>0, <3>1, <3>2, <4>1 DEF Claims, PendingOf
    <3> QED
      BY <1>1, <3>1, <3>2, OthersClaim
  <2>5. ASSUME NEW j \in Runs, NEW x \in Earnings, LockRow(j, x) PROVE Goal
    <3>1. /\ UNCHANGED ledger
          /\ run' = [run EXCEPT ![j] = [run[j] EXCEPT
                  !.wanted = @ \ {x},
                  !.locked = IF ledger[x] = "PENDING" THEN @ \cup {x} ELSE @]]
      BY <2>0, <2>5 DEF LockRow, TypeOK, Run
    <3>2. CASE k = j
      <4>1. /\ run'[j].todo = run[j].todo /\ run'[j].wanted = run[j].wanted \ {x}
            /\ run'[j].locked = IF ledger[x] = "PENDING" THEN run[j].locked \cup {x}
                                                         ELSE run[j].locked
        BY <2>0, <3>1 DEF TypeOK, Run
      <4> QED
        BY <1>1, <2>0, <3>1, <3>2, <4>1 DEF Claims
    <3> QED
      BY <1>1, <3>1, <3>2, OthersClaim
  <2>6. ASSUME NEW j \in Runs, NothingPending(j) PROVE Goal
    <3>1. /\ run' = [run EXCEPT ![j] = NoBatch(run[j].todo)] /\ UNCHANGED ledger
          /\ run[j].wanted \cup run[j].locked = {}
      BY <2>6 DEF NothingPending
    <3>2. CASE k = j
      <4>1. run'[j].todo = run[j].todo
        BY <2>0, <3>1 DEF TypeOK, NoBatch
      <4> QED
        BY <1>1, <3>1, <3>2, <4>1 DEF Claims
    <3> QED
      BY <1>1, <3>1, <3>2, OthersClaim
  <2>7. ASSUME NEW j \in Runs, NEW p \in Payouts, run_payout_batch(j, p) PROVE Goal
    <3>1. /\ ledger' = [x \in Earnings |-> IF x \in run[j].locked THEN "PAID_OUT" ELSE ledger[x]]
          /\ run' = [run EXCEPT ![j] = NoBatch(run[j].todo)] /\ run[j].wanted = {}
      BY <2>7 DEF run_payout_batch
    <3>2. CASE e \in run[j].locked
      BY <3>1, <3>2
    <3>3. CASE k = j /\ e \notin run[j].locked
      <4>1. run'[j].todo = run[j].todo
        BY <2>0, <3>1 DEF TypeOK, NoBatch
      <4> QED
        BY <1>1, <3>1, <3>3, <4>1 DEF Claims
    <3>4. CASE k # j /\ e \notin run[j].locked
      BY <1>1, <3>1, <3>4, OthersClaim
    <3> QED
      BY <3>2, <3>3, <3>4
  <2>8. ASSUME NEW j \in Runs, DeadlockVictim(j) PROVE Goal
    BY <1>1, <2>8, RollBackLogs DEF DeadlockVictim
  <2>9. ASSUME NEW j \in Runs, BatchError(j) \/ Crash(j) PROVE Goal
    BY <2>0, <2>9 DEF BatchError, Crash, Fault, TypeOK
  <2> QED
    BY <1>1, <2>1, <2>2, <2>3, <2>4, <2>5, <2>6, <2>7, <2>8, <2>9 DEF Next, Proceed
<1>2. PayoutsInv /\ [Next]_vars =>
        [\A j \in Runs, e \in Earnings :
           Claims(j, e) /\ ~Claims(j, e)'
               => ledger'[e] = "PAID_OUT" \/ OwnerOf[e] \in logged' \/ faults' > 0]_vars
  BY <1>1
<1> QED
  BY <1>2, BatchesInvariant, PTL DEF Spec, NoRowDropped

-----------------------------------------------------------------------------
(* Refinement. *)

LEMMA BatchPaysLedger ==
    ASSUME PayoutsInv, NEW j \in Runs, NEW p \in Payouts, run_payout_batch(j, p)
    PROVE  LedgerNext
<1> DEFINE S == run[j].locked
           w == run[j].owner
<1>1. S # {} /\ S \subseteq Earnings
  BY DEF run_payout_batch, PayoutsInv, TypeOK, Run
<1>2. w \in Owners
  BY <1>1 DEF PayoutsInv, TypeOK, Run, RowsUnderLock
<1>3. S \in SUBSET PendingOf(w)
  BY <1>1 DEF PayoutsInv, RowsUnderLock, PendingOf
<1>4. Pay(w, S, p)
  BY <1>1 DEF run_payout_batch, Pay
<1> QED
  BY <1>2, <1>3, <1>4 DEF LedgerNext

(* Overlapping, failing and repeated runs behave as the ledger: entries    *)
(* are paid once, atomically with their payout, and never edited.          *)
THEOREM LedgerImplemented == Spec => ImplementsLedger
<1>1. Init => LedgerInit
  BY DEF Init
<1>2. ASSUME PayoutsInv, [Next]_vars PROVE [LedgerNext]_ledgerVars
  <2>1. CASE UNCHANGED vars
    BY <2>1 DEF vars
  <2>2. ASSUME NEW e \in Earnings, create_earning(e) PROVE [LedgerNext]_ledgerVars
    BY <2>2 DEF create_earning, LedgerNext, Earn
  <2>3. ASSUME NEW j \in Runs, NEW p \in Payouts, run_payout_batch(j, p)
        PROVE  [LedgerNext]_ledgerVars
    BY <1>2, <2>3, BatchPaysLedger
  <2>4. ASSUME NEW j \in Runs,
               \/ run_weekly_payouts(j) \/ NothingPending(j) \/ DeadlockVictim(j)
               \/ BatchError(j) \/ Crash(j)
               \/ \E w \in Owners : SelectPending(j, w)
               \/ \E e \in Earnings : LockRow(j, e)
        PROVE  [LedgerNext]_ledgerVars
    BY <2>4
    DEF run_weekly_payouts, NothingPending, DeadlockVictim, BatchError, Crash,
        SelectPending, LockRow, RollBack
  <2> QED
    BY <1>2, <2>1, <2>2, <2>3, <2>4 DEF Next, Proceed
<1> QED
  BY <1>1, <1>2, BatchesInvariant, PTL DEF Spec, ImplementsLedger, LedgerSpec
=============================================================================
