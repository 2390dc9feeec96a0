------------------------------ MODULE Payouts ------------------------------
(***************************************************************************)
(* The weekly payout job.  Riders and restaurants have the same code over  *)
(* two pairs of tables; an owner is one of either.  A run lists the owners *)
(* with pending earnings and then, owner by owner in a session of its own, *)
(* selects the pending rows FOR UPDATE, writes one payout of their sum and *)
(* marks them PAID_OUT.  Runs may overlap: nothing but the row locks keeps *)
(* a second trigger, or a retry by hand, apart from the first.             *)
(*                                                                         *)
(* READ COMMITTED: the rows a locking SELECT tries are those pending when  *)
(* it started; a row another session holds is waited for and looked at     *)
(* again once that session has ended.  The rows come in no given order.    *)
(***************************************************************************)
EXTENDS EarningsLedger

CONSTANTS
    Runs,        \* runs of the job that can be under way at once
    MaxFaults,   \* bound: errors and crashes in one behaviour
    NoOwner

ASSUME PayoutsAssumption == MaxFaults \in Nat /\ NoOwner \notin Owners

VARIABLES
    run,      \* the runs under way
    logged,   \* owners whose batch was rolled back and logged as failed
    faults    \* errors and crashes so far

vars == <<ledgerVars, run, logged, faults>>

Run == [todo    : SUBSET Owners,            \* owners still to come
        owner   : Owners \cup {NoOwner},    \* the owner of the open batch
        wanted  : SUBSET Earnings,          \* rows its SELECT has yet to lock
        locked  : SUBSET Earnings]          \* rows it has locked

NoBatch(todo) == [todo |-> todo, owner |-> NoOwner, wanted |-> {}, locked |-> {}]

Held(e) == \E j \in Runs : e \in run[j].locked

Fault == /\ faults < MaxFaults
         /\ faults' = faults + 1

-----------------------------------------------------------------------------
(* A delivery commits with its earning. *)
create_earning(e) ==
    /\ ledger[e] = "NONE"
    /\ ledger' = [ledger EXCEPT ![e] = "PENDING"]
    /\ UNCHANGED <<payoutOf, payout, run, logged, faults>>

(* The owners with pending earnings, read in a session of its own. *)
run_weekly_payouts(j) ==
    LET owners == {w \in Owners : PendingOf(w) # {}} IN
    /\ run[j] = NoBatch({})
    /\ owners # {}
    /\ run' = [run EXCEPT ![j] = NoBatch(owners)]
    /\ UNCHANGED <<ledgerVars, logged, faults>>

(* The SELECT ... FOR UPDATE of one owner starts. *)
SelectPending(j, w) ==
    /\ run[j].owner = NoOwner
    /\ w \in run[j].todo
    /\ run' = [run EXCEPT ![j] = [todo |-> @.todo \ {w}, owner |-> w,
                                  wanted |-> PendingOf(w), locked |-> {}]]
    /\ UNCHANGED <<ledgerVars, logged, faults>>

(* Mutant: SELECT without FOR UPDATE. *)
ReadRow(j, e) ==
    /\ e \in run[j].wanted
    /\ run' = [run EXCEPT ![j].wanted = @ \ {e}, ![j].locked = @ \cup {e}]
    /\ UNCHANGED <<ledgerVars, logged, faults>>

(* Mutant: the row is taken as it was when the SELECT started. *)
LockStaleRow(j, e) ==
    /\ e \in run[j].wanted /\ ~ Held(e)
    /\ run' = [run EXCEPT ![j].wanted = @ \ {e}, ![j].locked = @ \cup {e}]
    /\ UNCHANGED <<ledgerVars, logged, faults>>

(* A free row is locked if it is still pending, and left out if not. *)
LockRow(j, e) ==
    /\ e \in run[j].wanted /\ ~ Held(e)
    /\ run' = [run EXCEPT ![j].wanted = @ \ {e},
                          ![j].locked = IF ledger[e] = "PENDING" THEN @ \cup {e} ELSE @]
    /\ UNCHANGED <<ledgerVars, logged, faults>>

(* No row is left: the session commits nothing and the next owner follows. *)
NothingPending(j) ==
    /\ run[j].owner # NoOwner /\ run[j].wanted = {} /\ run[j].locked = {}
    /\ run' = [run EXCEPT ![j] = NoBatch(@.todo)]
    /\ UNCHANGED <<ledgerVars, logged, faults>>

(* Payout, rows and the (stubbed) transfer in one transaction. *)
run_payout_batch(j, p) ==
    LET S == run[j].locked IN
    /\ run[j].wanted = {} /\ S # {}
    /\ payout[p] = {}
    /\ payout' = [payout EXCEPT ![p] = {[owner |-> run[j].owner, total |-> Total(S)]}]
    /\ ledger' = [e \in Earnings |-> IF e \in S THEN "PAID_OUT" ELSE ledger[e]]
    /\ payoutOf' = [e \in Earnings |-> IF e \in S THEN p ELSE payoutOf[e]]
    /\ run' = [run EXCEPT ![j] = NoBatch(@.todo)]
    /\ UNCHANGED <<logged, faults>>

-----------------------------------------------------------------------------
(* Failures. *)

(* Mutant: the try is around the loop, an error ends the run. *)
RollBackRun(j) ==
    /\ run' = [run EXCEPT ![j] = NoBatch({})]
    /\ logged' = logged \cup {run[j].owner}
    /\ UNCHANGED ledgerVars

(* The exception handler in the loop: roll back, log, next owner. *)
RollBack(j) ==
    /\ run' = [run EXCEPT ![j] = NoBatch(@.todo)]
    /\ logged' = logged \cup {run[j].owner}
    /\ UNCHANGED ledgerVars

BatchError(j) ==
    /\ run[j].owner # NoOwner
    /\ Fault
    /\ RollBack(j)

(* Every row j still wants is held. *)
Blocked(j) == run[j].wanted # {} /\ \A e \in run[j].wanted : Held(e)

(* The database ends one of a set of sessions that wait for each other. *)
DeadlockVictim(j) ==
    /\ \E D \in SUBSET Runs :
         /\ j \in D
         /\ \A k \in D : Blocked(k) /\ \A e \in run[k].wanted :
                            \E d \in D : e \in run[d].locked
    /\ RollBack(j)
    /\ UNCHANGED faults

(* The worker dies: the open batch is rolled back, the run is forgotten. *)
Crash(j) ==
    /\ run[j] # NoBatch({})
    /\ Fault
    /\ run' = [run EXCEPT ![j] = NoBatch({})]
    /\ UNCHANGED <<ledgerVars, logged>>

-----------------------------------------------------------------------------
TypeOK ==
    /\ ledger \in [Earnings -> {"NONE", "PENDING", "PAID_OUT"}]
    /\ payoutOf \in [Earnings -> Payouts \cup {NoPayout}]
    /\ payout \in [Payouts -> SUBSET [owner : Owners,
                                     total : {Total(S) : S \in SUBSET Earnings}]]
    /\ run \in [Runs -> Run]
    /\ logged \subseteq Owners
    /\ faults \in Nat

Init ==
    /\ LedgerInit
    /\ run = [j \in Runs |-> NoBatch({})]
    /\ logged = {}
    /\ faults = 0

(* What a run does by itself, once it is started. *)
Proceed(j) ==
    \/ \E w \in Owners : SelectPending(j, w)
    \/ \E e \in Earnings : LockRow(j, e)
    \/ NothingPending(j)
    \/ \E p \in Payouts : run_payout_batch(j, p)
    \/ DeadlockVictim(j)

Next ==
    \/ \E e \in Earnings : create_earning(e)
    \/ \E j \in Runs : run_weekly_payouts(j) \/ Proceed(j) \/ BatchError(j) \/ Crash(j)

Spec == Init /\ [][Next]_vars

(* A worker that runs the job goes on with it.  Nothing is assumed of when *)
(* the job is started.                                                     *)
FairSpec == Spec /\ \A j \in Runs : WF_vars(Proceed(j))

-----------------------------------------------------------------------------
(* A payout is what its earnings add up to, all of its owner and marked    *)
(* paid; and no earning is marked paid without its payout.                 *)
PayoutIsItsEarnings ==
    /\ \A p \in Payouts : \A row \in payout[p] :
         /\ row.total = Total(Entries(p))
         /\ \A e \in Entries(p) : ledger[e] = "PAID_OUT" /\ OwnerOf[e] = row.owner
    /\ \A e \in Earnings : ledger[e] = "PAID_OUT" =>
         payoutOf[e] \in Payouts /\ payout[payoutOf[e]] # {}

(* Why: a row under a lock is pending, belongs to the owner of the batch   *)
(* and to one run only, so a batch commits what it read.                   *)
RowsUnderLock ==
    /\ \A j \in Runs :
         /\ run[j].wanted \cup run[j].locked # {} => run[j].owner # NoOwner
         /\ \A e \in run[j].wanted \cup run[j].locked : OwnerOf[e] = run[j].owner
         /\ \A e \in run[j].locked : ledger[e] = "PENDING"
    /\ \A j, k \in Runs : j # k => run[j].locked \cap run[k].locked = {}

PendingIsUnpaid ==
    \A e \in Earnings : ledger[e] # "PAID_OUT" => payoutOf[e] = NoPayout

PayoutsInv == TypeOK /\ RowsUnderLock /\ PendingIsUnpaid /\ PayoutIsItsEarnings

(* README "Append-only earnings ledger" and "two batch runs can't          *)
(* double-pay": overlapping, failing and repeated runs are the ledger's    *)
(* atomic payments, and touch nothing else.                                *)
ImplementsLedger == LedgerSpec

(* A pending row the run still has before it: its owner's turn is to come, *)
(* or the open batch wants or has locked it.                               *)
Claims(j, e) ==
    /\ ledger[e] = "PENDING"
    /\ OwnerOf[e] \in run[j].todo \/ e \in run[j].wanted \cup run[j].locked

(* A run lets go of a pending row only by paying it, with its owner in the *)
(* log, or when a worker has failed: no order of locks, waits, deadlocks   *)
(* and rollbacks drops a row, or the rest of the owners, in silence.       *)
NoRowDropped ==
    [][\A j \in Runs, e \in Earnings :
         Claims(j, e) /\ ~Claims(j, e)'
             => ledger'[e] = "PAID_OUT" \/ OwnerOf[e] \in logged' \/ faults' > 0]_vars

(* What is pending when a run has its owner on the list is paid, unless    *)
(* something failed: an owner whose batch was rolled back is in the log.   *)
BatchPays ==
    \A j \in Runs, e \in Earnings :
        OwnerOf[e] \in run[j].todo /\ ledger[e] = "PENDING"
            ~> ledger[e] = "PAID_OUT" \/ OwnerOf[e] \in logged \/ faults > 0
=============================================================================
