------------------------------ MODULE Addresses ------------------------------
(***************************************************************************)
(* The saved addresses of one customer and which of them is the default.   *)
(* A request that sets a default first clears the flag of every row its    *)
(* UPDATE sees, then writes its own row in the same transaction.           *)
(***************************************************************************)
EXTENDS Handlers

CONSTANT Places     \* ids of addresses

VARIABLES
    saved,      \* address rows
    default     \* those with is_default

addressVars == <<saved, default>>

NoAddresses == saved = {} /\ default = {}

AddressesTypeOK == saved \subseteq Places /\ default \subseteq saved

(* A new default clears the rows its UPDATE sees; without is_default there *)
(* is nothing to read.                                                     *)
AddAddressRead(s, isDefault) ==
    /\ Begin(s, [op |-> "add address", cleared |-> IF isDefault THEN saved ELSE {}, default |-> isDefault])
    /\ UNCHANGED addressVars

add_address(s, a) ==
    /\ job[s].op = "add address"
    /\ a \notin saved
    /\ saved' = saved \union {a}
    /\ default' = (default \ job[s].cleared) \union IF job[s].default THEN {a} ELSE {}
    /\ End(s)

(* An address that was the default when it was read is left as it is, and  *)
(* is_default = False is never written.                                    *)
UpdateAddressRead(s, a, isDefault) ==
    /\ a \in saved
    /\ LET sets == isDefault /\ a \notin default IN
        Begin(s, [op |-> "change address", address |-> a, cleared |-> IF sets THEN saved ELSE {}, default |-> sets])
    /\ UNCHANGED addressVars

(* Mutant: the flag of the address itself is cleared with the others. *)
UpdateClearsAll(s) ==
    /\ job[s].op = "change address"
    /\ job[s].address \in saved
    /\ default' = default \ job[s].cleared
    /\ End(s)
    /\ UNCHANGED saved

update_address(s) ==
    /\ job[s].op = "change address"
    /\ job[s].address \in saved
    /\ default' = (default \ job[s].cleared) \union IF job[s].default THEN {job[s].address} ELSE {}
    /\ End(s)
    /\ UNCHANGED saved

DeleteAddressRead(s, a) ==
    /\ a \in saved
    /\ Begin(s, [op |-> "drop address", address |-> a])
    /\ UNCHANGED addressVars

delete_address(s) ==
    /\ job[s].op = "drop address"
    /\ saved' = saved \ {job[s].address}
    /\ default' = default \ {job[s].address}
    /\ End(s)

(* The row has been deleted meanwhile: StaleDataError. *)
AddressGone(s) ==
    /\ job[s].op = "change address"
    /\ job[s].address \notin saved
    /\ End(s)
    /\ UNCHANGED addressVars

AddressStep(s) ==
    \/ \E d \in BOOLEAN :
        \/ AddAddressRead(s, d)
        \/ \E a \in Places : UpdateAddressRead(s, a, d)
    \/ \E a \in Places : add_address(s, a) \/ DeleteAddressRead(s, a)
    \/ update_address(s) \/ delete_address(s) \/ AddressGone(s)

AddressesInit == NoAddresses /\ job = [s \in Sessions |-> Idle]

AddressesNext == \E s \in Sessions : AddressStep(s)

AddressesSpec == AddressesInit /\ [][AddressesNext]_<<job, addressVars>>

(* A customer who has a default address keeps one, except by deleting it:  *)
(* changing the default never passes through, or ends in, none, also when  *)
(* two changes overlap (they may end in two).                              *)
DefaultRemains == [][default # {} /\ default' = {} => default \ saved' # {}]_<<job, addressVars>>
=============================================================================
