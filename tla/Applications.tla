---------------------------- MODULE Applications ----------------------------
(***************************************************************************)
(* How a customer becomes a restaurant owner or a rider: the one-form      *)
(* partner application and the rider application filled in step by step,   *)
(* both decided by administrators.  One applicant and one city.            *)
(***************************************************************************)
EXTENDS Handlers

CONSTANTS
    Partners,       \* ids of partner applications
    Rides           \* ids of rider applications

VARIABLES
    partner,        \* status of a partner application, "NONE" before it exists
    role,           \* role of the applicant
    ride,           \* status of a rider application
    filled,         \* the steps whose columns are set
    publicPhoto,    \* the photo copied to the public storage
    city            \* status of the city, "NONE" before it exists

partnerVars == <<partner, role>>
rideVars == <<ride, filled, publicPhoto>>
applicationVars == <<partnerVars, rideVars, city>>

PartnerStatus == {"NONE", "PENDING", "APPROVED", "REJECTED"}
Stages == {"CITY_ADDED", "IDENTITY_PROOF_ADDED", "PROFILE_IMAGE_ADDED", "VEHICLE_DETAILS_ADDED"}
Steps == {"identity", "photo", "vehicle"}
CityStatus == {"ACTIVE", "INACTIVE"}

NoApplications ==
    /\ partner = [a \in Partners |-> "NONE"]
    /\ role = "CUSTOMER"
    /\ ride = [a \in Rides |-> "NONE"]
    /\ filled = [a \in Rides |-> {}]
    /\ publicPhoto = {}
    /\ city = "NONE"

ApplicationsTypeOK ==
    /\ partner \in [Partners -> PartnerStatus]
    /\ role \in {"CUSTOMER", "RESTAURANT_OWNER"}
    /\ ride \in [Rides -> Stages \union {"NONE", "PENDING_REVIEW", "REJECTED"}]
    /\ filled \in [Rides -> SUBSET Steps]
    /\ publicPhoto \subseteq Rides
    /\ city \in {"NONE"} \union CityStatus

-----------------------------------------------------------------------------
(* POST /partner-applications/: no other pending one when it looks.  No    *)
(* constraint repeats the check.                                           *)
PartnerRead(s) ==
    /\ role = "CUSTOMER"
    /\ \A a \in Partners : partner[a] # "PENDING"
    /\ Begin(s, [op |-> "apply"])
    /\ UNCHANGED applicationVars

create_partner_application(s, a) ==
    /\ job[s].op = "apply"
    /\ partner[a] = "NONE"
    /\ partner' = [partner EXCEPT ![a] = "PENDING"]
    /\ End(s)
    /\ UNCHANGED <<role, rideVars, city>>

(* PATCH /owner-applications/{id}/review: the application and its applicant*)
(* are read together.                                                      *)
DecisionRead(s, a) ==
    /\ partner[a] = "PENDING"
    /\ \E approve \in BOOLEAN : Begin(s, [op |-> "review", id |-> a, approve |-> approve, role |-> role])
    /\ UNCHANGED applicationVars

(* Mutant: the rejection writes back the role it has read. *)
ReviewResetsRole(s) ==
    /\ job[s].op = "review"
    /\ partner' = [partner EXCEPT ![job[s].id] = IF job[s].approve THEN "APPROVED" ELSE "REJECTED"]
    /\ role' = IF job[s].approve THEN "RESTAURANT_OWNER" ELSE job[s].role
    /\ End(s)
    /\ UNCHANGED <<rideVars, city>>

review_owner_application(s) ==
    /\ job[s].op = "review"
    /\ partner' = [partner EXCEPT ![job[s].id] = IF job[s].approve THEN "APPROVED" ELSE "REJECTED"]
    /\ role' = IF job[s].approve THEN Flushed(role, job[s].role, "RESTAURANT_OWNER") ELSE role
    /\ End(s)
    /\ UNCHANGED <<rideVars, city>>

-----------------------------------------------------------------------------
(* POST /locations/activate and /inactivate, of an administrator. *)
CityRead(s, status) ==
    /\ city # status
    /\ status = "INACTIVE" => city # "NONE"
    /\ Begin(s, [op |-> "city", read |-> city, status |-> status])
    /\ UNCHANGED applicationVars

(* A city that was missing is inserted, another one updated. *)
CityCommit(s, status) ==
    /\ job[s].op = "city" /\ job[s].status = status
    /\ job[s].read = "NONE" => city = "NONE"
    /\ city' = Flushed(city, job[s].read, status)
    /\ End(s)
    /\ UNCHANGED <<partnerVars, rideVars>>

activate_city(s) == CityCommit(s, "ACTIVE")

inactivate_city(s) == CityCommit(s, "INACTIVE")

(* uq_city_name_state refuses the second INSERT: an unhandled error. *)
CityExists(s) ==
    /\ job[s].op = "city" /\ job[s].read = "NONE" /\ city # "NONE"
    /\ End(s)
    /\ UNCHANGED applicationVars

-----------------------------------------------------------------------------
Active(a) == ride[a] \in Stages \union {"PENDING_REVIEW"}

(* Mutant: without the partial unique index. *)
MayBeUnindexed(a, status) == TRUE

(* uq_rider_applications_active_per_user *)
MayBe(a, status) == status # "REJECTED" => \A b \in Rides \ {a} : ~Active(b)

RideRead(s) ==
    /\ role = "CUSTOMER"
    /\ \A a \in Rides : ~Active(a)
    /\ city = "ACTIVE"
    /\ Begin(s, [op |-> "ride"])
    /\ UNCHANGED applicationVars

start_application(s, a) ==
    /\ job[s].op = "ride"
    /\ ride[a] = "NONE" /\ MayBe(a, "CITY_ADDED")
    /\ ride' = [ride EXCEPT ![a] = "CITY_ADDED"]
    /\ End(s)
    /\ UNCHANGED <<partnerVars, filled, publicPhoto, city>>

(* A second one started at the same time. *)
StartFails(s) ==
    /\ job[s].op = "ride"
    /\ \E a \in Rides : Active(a)
    /\ End(s)
    /\ UNCHANGED applicationVars

(* The application read by a handler of the applicant or an administrator. *)
RideLoad(s, a, op, stages) ==
    /\ ride[a] \in stages
    /\ Begin(s, [op |-> op, id |-> a, read |-> ride[a]])
    /\ UNCHANGED applicationVars

(* A form of the applicant, who must still be a customer. *)
FormLoad(s, a, op, stages) == role = "CUSTOMER" /\ RideLoad(s, a, op, stages)

(* The commit writes the columns of the step, and the status when it is    *)
(* not the one that was read.                                              *)
NewStatus(j, status) == Flushed(ride[j.id], j.read, status)

RideCommit(s, op, status, steps) ==
    /\ job[s].op = op
    /\ LET a == job[s].id IN
        \/ /\ MayBe(a, NewStatus(job[s], status))
           /\ ride' = [ride EXCEPT ![a] = NewStatus(job[s], status)]
           /\ filled' = [filled EXCEPT ![a] = @ \union steps]
        \/ /\ ~MayBe(a, NewStatus(job[s], status))
           /\ UNCHANGED <<ride, filled>>
    /\ End(s)
    /\ UNCHANGED <<partnerVars, publicPhoto, city>>

IdentityRead(s, a) == FormLoad(s, a, "identity", {"CITY_ADDED", "IDENTITY_PROOF_ADDED"})

add_identity_proof(s) == RideCommit(s, "identity", "IDENTITY_PROOF_ADDED", {"identity"})

PhotoRead(s, a) == FormLoad(s, a, "photo", {"IDENTITY_PROOF_ADDED", "PROFILE_IMAGE_ADDED"})

add_profile_image(s) == RideCommit(s, "photo", "PROFILE_IMAGE_ADDED", {"photo"})

(* Mutant: the vehicle form is accepted as soon as the identity is known. *)
VehicleReadEarly(s, a) == FormLoad(s, a, "vehicle", Stages \ {"CITY_ADDED"})

VehicleRead(s, a) == FormLoad(s, a, "vehicle", {"PROFILE_IMAGE_ADDED", "VEHICLE_DETAILS_ADDED"})

add_vehicle_details(s) == RideCommit(s, "vehicle", "VEHICLE_DETAILS_ADDED", {"vehicle"})

SubmitRead(s, a) == FormLoad(s, a, "submit", {"VEHICLE_DETAILS_ADDED"})

submit_for_review(s) == RideCommit(s, "submit", "PENDING_REVIEW", {})

RejectRideRead(s, a) == RideLoad(s, a, "turn down", {"PENDING_REVIEW"})

reject_rider_application(s) == RideCommit(s, "turn down", "REJECTED", {})

ApproveRideRead(s, a) == RideLoad(s, a, "take on", {"PENDING_REVIEW"})

(* Mutant: the applicant is loaded, and the approval is committed. *)
ApproveRideCommits(s) == RideCommit(s, "take on", "APPROVED", {})

(* The photo is copied; then application.applicant is a lazy load on an    *)
(* async session, which raises, and nothing is committed.                  *)
approve_rider_application(s) ==
    /\ job[s].op = "take on"
    /\ publicPhoto' = publicPhoto \union {job[s].id}
    /\ End(s)
    /\ UNCHANGED <<partnerVars, ride, filled, city>>

-----------------------------------------------------------------------------
PartnerStep(s) ==
    \/ PartnerRead(s) \/ review_owner_application(s)
    \/ \E a \in Partners : create_partner_application(s, a) \/ DecisionRead(s, a)

RideStep(s) ==
    \/ \E status \in CityStatus : CityRead(s, status)
    \/ activate_city(s) \/ inactivate_city(s) \/ CityExists(s)
    \/ RideRead(s) \/ StartFails(s)
    \/ \E a \in Rides :
        \/ start_application(s, a)
        \/ IdentityRead(s, a) \/ PhotoRead(s, a) \/ VehicleRead(s, a) \/ SubmitRead(s, a)
        \/ RejectRideRead(s, a) \/ ApproveRideRead(s, a)
    \/ add_identity_proof(s) \/ add_profile_image(s) \/ add_vehicle_details(s)
    \/ submit_for_review(s) \/ reject_rider_application(s) \/ approve_rider_application(s)

(* One applicant on their own, and the administrators. *)
ApplicationsInit == NoApplications /\ job = [s \in Sessions |-> Idle]

ApplicationsNext == \E s \in Sessions : PartnerStep(s) \/ RideStep(s)

ApplicationsSpec == ApplicationsInit /\ [][ApplicationsNext]_<<job, applicationVars>>

(* An application says APPROVED only while its applicant has the owner's   *)
(* role, also when two administrators decide it, or two applications of    *)
(* one applicant, at the same time.                                        *)
ApprovedOwnsRole == (\E a \in Partners : partner[a] = "APPROVED") => role = "RESTAURANT_OWNER"

(* The status of a rider application never runs ahead of its columns:      *)
(* whatever overlapping forms, submissions and rejections leave in status, *)
(* every step that status builds on has been stored, so what is reviewed   *)
(* is complete.                                                            *)
SubmittedIsComplete ==
    \A a \in Rides :
        /\ ride[a] \notin {"NONE", "CITY_ADDED"} => "identity" \in filled[a]
        /\ ride[a] \notin {"NONE", "CITY_ADDED", "IDENTITY_PROOF_ADDED"} => "photo" \in filled[a]
        /\ ride[a] \in {"VEHICLE_DETAILS_ADDED", "PENDING_REVIEW", "REJECTED"} => filled[a] = Steps

(* The applicant has one application at a time that is not decided yet,    *)
(* however late a stale form is committed.                                 *)
OneActiveApplication == \A a, b \in Rides : Active(a) /\ Active(b) => a = b
=============================================================================
