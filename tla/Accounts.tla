------------------------------ MODULE Accounts ------------------------------
(***************************************************************************)
(* Registration, and the codes that verify one account's address or reset  *)
(* its password.  Codes are numbered in the order they are made; a code    *)
(* may expire at any moment and a mail may be lost.                        *)
(***************************************************************************)
EXTENDS Handlers

CONSTANTS
    Emails, Phones, Names,
    LastCode        \* bound on the codes ever sent

ASSUME AccountsAssumption == LastCode \in Nat

VARIABLES
    users,          \* User rows [name, email, phone]
    code,           \* code[n]: purpose and state of OTPVerification row n
    codes,          \* rows 1..codes exist
    mailed,         \* the codes that reached the mailbox
    verifiedBy,     \* the code that set is_account_verified, 0 before
    passwordBy      \* the code that set the present password, 0 for the first one

otpVars == <<code, codes, mailed, verifiedBy, passwordBy>>
accountVars == <<users, otpVars>>

Purposes == {"EMAIL_VERIFICATION", "PASSWORD_RESET"}

NoAccounts ==
    /\ users = {}
    /\ code = [n \in 1..LastCode |-> [purpose |-> "PASSWORD_RESET", state |-> "none"]]
    /\ codes = 0 /\ mailed = {}
    /\ verifiedBy = 0 /\ passwordBy = 0

AccountsTypeOK ==
    /\ users \subseteq [name : Names, email : Emails, phone : Phones]
    /\ code \in [1..LastCode -> [purpose : Purposes, state : {"none", "unused", "used", "expired"}]]
    /\ codes \in 0..LastCode /\ mailed \subseteq 1..codes
    /\ {verifiedBy, passwordBy} \subseteq 0..codes

-----------------------------------------------------------------------------
(* POST /users and POST /admins: three lookups, then the INSERT, which     *)
(* only the unique email and phone number can refuse.                      *)
RegisterRead(s, u) ==
    /\ \A x \in users : x.name # u.name /\ x.email # u.email /\ x.phone # u.phone
    /\ Begin(s, [op |-> "register", user |-> u])
    /\ UNCHANGED accountVars

UniqueContacts(u) == \A x \in users : x.email # u.email /\ x.phone # u.phone

create_user(s) ==
    /\ job[s].op = "register"
    /\ UniqueContacts(job[s].user)
    /\ users' = users \union {job[s].user}
    /\ End(s)
    /\ UNCHANGED otpVars

UserExists(s) ==
    /\ job[s].op = "register"
    /\ ~UniqueContacts(job[s].user)
    /\ End(s)
    /\ UNCHANGED accountVars

-----------------------------------------------------------------------------
Unused(purpose) == {n \in 1..codes : code[n] = [purpose |-> purpose, state |-> "unused"]}

(* The unused codes of the purpose; whether an expired one is marked used  *)
(* as well makes no difference any more.                                   *)
_invalidate_existing_otps(s, purpose) ==
    Begin(s, [op |-> "send", purpose |-> purpose, unused |-> Unused(purpose)])

VerificationRead(s) ==
    /\ verifiedBy = 0
    /\ _invalidate_existing_otps(s, "EMAIL_VERIFICATION")
    /\ UNCHANGED accountVars

ResetRead(s) ==
    /\ _invalidate_existing_otps(s, "PASSWORD_RESET")
    /\ UNCHANGED accountVars

(* The old codes are marked used and the new one inserted in one commit,   *)
(* then it is mailed; a failing mail is swallowed.                         *)
IssueCode(s, purpose) ==
    /\ job[s].op = "send" /\ job[s].purpose = purpose
    /\ codes < LastCode
    /\ codes' = codes + 1
    /\ code' = [n \in 1..LastCode |->
                  IF n = codes + 1 THEN [purpose |-> purpose, state |-> "unused"]
                  ELSE IF n \in job[s].unused THEN [code[n] EXCEPT !.state = "used"] ELSE code[n]]
    /\ mailed' \in {mailed, mailed \union {codes + 1}}
    /\ End(s)
    /\ UNCHANGED <<users, verifiedBy, passwordBy>>

send_verification_otp(s) == IssueCode(s, "EMAIL_VERIFICATION")

request_password_reset(s) == IssueCode(s, "PASSWORD_RESET")

(* Mutant: the newest live code, whatever it was issued for. *)
AnyValidRecord(purpose) ==
    LET live == UNION {Unused(p) : p \in Purposes} IN {n \in live : \A k \in live : k <= n}

(* The newest unused, unexpired code of the purpose. *)
_get_valid_otp_record(purpose) == {n \in Unused(purpose) : \A k \in Unused(purpose) : k <= n}

ConfirmRead(s, n, op) ==
    /\ n \in mailed
    /\ Begin(s, [op |-> op, code |-> n])
    /\ UNCHANGED accountVars

ConfirmVerificationRead(s, n) ==
    /\ verifiedBy = 0
    /\ n \in _get_valid_otp_record("EMAIL_VERIFICATION")
    /\ ConfirmRead(s, n, "verify")

ConfirmResetRead(s, n) ==
    /\ n \in _get_valid_otp_record("PASSWORD_RESET")
    /\ ConfirmRead(s, n, "reset")

confirm_verification_otp(s) ==
    /\ job[s].op = "verify"
    /\ code' = [code EXCEPT ![job[s].code].state = "used"]
    /\ verifiedBy' = job[s].code
    /\ End(s)
    /\ UNCHANGED <<users, codes, mailed, passwordBy>>

confirm_password_reset(s) ==
    /\ job[s].op = "reset"
    /\ code' = [code EXCEPT ![job[s].code].state = "used"]
    /\ passwordBy' = job[s].code
    /\ End(s)
    /\ UNCHANGED <<users, codes, mailed, verifiedBy>>

(* otp_expire_minutes pass. *)
CodeExpires(n) ==
    /\ code[n].state = "unused"
    /\ code' = [code EXCEPT ![n].state = "expired"]
    /\ UNCHANGED <<job, users, codes, mailed, verifiedBy, passwordBy>>

CodeStep(s) ==
    \/ VerificationRead(s) \/ ResetRead(s) \/ send_verification_otp(s) \/ request_password_reset(s)
    \/ \E n \in 1..codes : ConfirmVerificationRead(s, n) \/ ConfirmResetRead(s, n)
    \/ confirm_verification_otp(s) \/ confirm_password_reset(s)

AccountsInit == NoAccounts /\ job = [s \in Sessions |-> Idle]

AccountsNext ==
    \/ \E s \in Sessions :
        \/ \E u \in [name : Names, email : Emails, phone : Phones] : RegisterRead(s, u)
        \/ create_user(s) \/ UserExists(s) \/ CodeStep(s)
    \/ \E n \in 1..codes : CodeExpires(n)

AccountsSpec == AccountsInit /\ [][AccountsNext]_<<job, accountVars>>

(* The present password and the verified flag each rest on a code that was *)
(* mailed for that very purpose and is spent: a confirmation that starts   *)
(* after the one that used a code does not find it again, whatever sends   *)
(* and expiries overlapped.  (Two that overlap may both have read it       *)
(* unused; then both succeed.)                                             *)
CodesAreSpent ==
    /\ verifiedBy # 0 => verifiedBy \in mailed /\ code[verifiedBy] = [purpose |-> "EMAIL_VERIFICATION", state |-> "used"]
    /\ passwordBy # 0 => passwordBy \in mailed /\ code[passwordBy] = [purpose |-> "PASSWORD_RESET", state |-> "used"]
=============================================================================
