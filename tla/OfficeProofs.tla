---------------------------- MODULE OfficeProofs ----------------------------
(***************************************************************************)
(* The applications of a customer, the cuisines of the restaurants and the *)
(* codes of an account, for any sets of sessions, rows and names.  What a  *)
(* handler writes late rests on rows read early: Remembered and Holds say  *)
(* what of those rows cannot have been taken back meanwhile.               *)
(* At the end the composition MCBackoffice: its types, and that each part  *)
(* keeps in it what it promises alone.                                     *)
(***************************************************************************)
EXTENDS FeedProofs, MCBackoffice

RideForms == {"identity", "photo", "vehicle", "submit", "turn down", "take on"}

(* What a handler knows, with r the role and f the steps of the present. *)
Remembered(j, r, f) ==
    /\ j.op = "review" => /\ j.id \in Partners /\ j.approve \in BOOLEAN
                          /\ j.role \in {"CUSTOMER", "RESTAURANT_OWNER"}
                          /\ j.role = "RESTAURANT_OWNER" => r = "RESTAURANT_OWNER"
    /\ j.op = "city" => j.status \in CityStatus
    /\ j.op \in RideForms => j.id \in Rides
    /\ j.op = "photo" => "identity" \in f[j.id]
    /\ j.op = "vehicle" => {"identity", "photo"} \subseteq f[j.id]
    /\ j.op \in {"submit", "turn down"} => f[j.id] = Steps

JobsKnow == \A s \in Sessions : Remembered(job[s], role, filled)

ApplicationsInv ==
    /\ ApplicationsTypeOK /\ JobsAreFunction /\ JobsKnow
    /\ ApprovedOwnsRole /\ SubmittedIsComplete /\ OneActiveApplication

-----------------------------------------------------------------------------
(* A handler still knows what it read when the role was at most given and  *)
(* the steps were at most filled in.                                       *)
LEMMA Remembering ==
    ASSUME ApplicationsTypeOK, JobsKnow,
           role = "RESTAURANT_OWNER" => role' = "RESTAURANT_OWNER",
           filled' \in [Rides -> SUBSET Steps],
           \A a \in Rides : filled[a] \subseteq filled'[a],
           \A t \in Sessions : job'[t] = job[t] \/ Remembered(job'[t], role', filled')
    PROVE  JobsKnow'
<1> SUFFICES ASSUME NEW t \in Sessions, job'[t] = job[t]
             PROVE  Remembered(job[t], role', filled')
  BY DEF JobsKnow
<1>1. Remembered(job[t], role, filled)
  BY DEF JobsKnow
<1>2. \A a \in Rides : filled'[a] \subseteq Steps
  OBVIOUS
<1>3. job[t].op \in {"submit", "turn down"} => filled'[job[t].id] = Steps
  BY <1>1, <1>2 DEF Remembered, RideForms
<1>4. job[t].op = "photo" => "identity" \in filled'[job[t].id]
  BY <1>1 DEF Remembered, RideForms
<1>5. job[t].op = "vehicle" => {"identity", "photo"} \subseteq filled'[job[t].id]
  BY <1>1 DEF Remembered, RideForms
<1> QED
  BY <1>1, <1>3, <1>4, <1>5 DEF Remembered

(* The end of a handler leaves nothing to know. *)
LEMMA Ends ==
    ASSUME JobsAreFunction, JobsKnow, ApplicationsTypeOK, NEW s \in Sessions, End(s),
           role = "RESTAURANT_OWNER" => role' = "RESTAURANT_OWNER",
           filled' \in [Rides -> SUBSET Steps],
           \A a \in Rides : filled[a] \subseteq filled'[a]
    PROVE  JobsAreFunction' /\ JobsKnow'
<1>1. JobsAreFunction' /\ job'[s] = Idle /\ \A t \in Sessions \ {s} : job'[t] = job[t]
  BY Turns DEF End
<1>2. Remembered(Idle, role', filled')
  BY DEF Remembered, Idle, RideForms
<1> QED
  BY <1>1, <1>2, Remembering

(* A read step changes no row. *)
LEMMA Reads ==
    ASSUME ApplicationsInv, NEW s \in Sessions, NEW j, Remembered(j, role, filled), Begin(s, j),
           UNCHANGED applicationVars
    PROVE  ApplicationsInv'
<1> USE DEF ApplicationsInv
<1>1. /\ partner' = partner /\ role' = role /\ ride' = ride /\ filled' = filled
      /\ publicPhoto' = publicPhoto /\ city' = city
  BY DEF applicationVars, partnerVars, rideVars
<1>2. JobsAreFunction' /\ job'[s] = j /\ \A t \in Sessions \ {s} : job'[t] = job[t]
  BY Turns DEF Begin
<1>3. JobsKnow'
  BY <1>1, <1>2 DEF JobsKnow
<1> QED
  BY <1>1, <1>2, <1>3 DEF ApplicationsTypeOK, ApprovedOwnsRole, SubmittedIsComplete,
     OneActiveApplication, Active

(* A refusal changes no row either. *)
LEMMA Refuses ==
    ASSUME ApplicationsInv, NEW s \in Sessions, End(s), UNCHANGED applicationVars
    PROVE  ApplicationsInv'
<1> USE DEF ApplicationsInv
<1>1. /\ partner' = partner /\ role' = role /\ ride' = ride /\ filled' = filled
      /\ publicPhoto' = publicPhoto /\ city' = city
  BY DEF applicationVars, partnerVars, rideVars
<1>2. filled' \in [Rides -> SUBSET Steps] /\ \A a \in Rides : filled[a] \subseteq filled'[a]
  BY <1>1 DEF ApplicationsTypeOK
<1>3. JobsAreFunction' /\ JobsKnow'
  BY <1>1, <1>2, Ends
<1> QED
  BY <1>1, <1>3 DEF ApplicationsTypeOK, ApprovedOwnsRole, SubmittedIsComplete,
     OneActiveApplication, Active

-----------------------------------------------------------------------------
(* The partner application: the role is given no later than APPROVED. *)
LEMMA PartnerKeeps ==
    ASSUME ApplicationsInv, NEW s \in Sessions, PartnerStep(s)
    PROVE  ApplicationsInv'
<1>1. CASE PartnerRead(s)
  <2>1. Remembered([op |-> "apply"], role, filled)
    BY DEF Remembered, RideForms
  <2> QED
    BY <1>1, <2>1, Reads DEF PartnerRead
<1>2. ASSUME NEW a \in Partners, DecisionRead(s, a) PROVE ApplicationsInv'
  <2>1. PICK approve \in BOOLEAN :
            Begin(s, [op |-> "review", id |-> a, approve |-> approve, role |-> role])
    BY <1>2 DEF DecisionRead
  <2>2. Remembered([op |-> "review", id |-> a, approve |-> approve, role |-> role], role, filled)
    BY DEF Remembered, RideForms, ApplicationsInv, ApplicationsTypeOK
  <2>3. UNCHANGED applicationVars
    BY <1>2 DEF DecisionRead
  <2> QED
    BY <2>1, <2>2, <2>3, Reads
<1>3. ASSUME NEW a \in Partners, create_partner_application(s, a) PROVE ApplicationsInv'
  <2> USE <1>3 DEF ApplicationsInv
  <2>1. /\ partner' = [partner EXCEPT ![a] = "PENDING"]
        /\ role' = role /\ ride' = ride /\ filled' = filled
        /\ publicPhoto' = publicPhoto /\ city' = city /\ End(s)
    BY DEF create_partner_application, rideVars
  <2>2. filled' \in [Rides -> SUBSET Steps] /\ \A b \in Rides : filled[b] \subseteq filled'[b]
    BY <2>1 DEF ApplicationsTypeOK
  <2>3. JobsAreFunction' /\ JobsKnow'
    BY <2>1, <2>2, Ends
  <2>4. ApplicationsTypeOK'
    BY <2>1 DEF ApplicationsTypeOK, PartnerStatus
  <2>5. ApprovedOwnsRole'
    BY <2>1 DEF ApprovedOwnsRole, ApplicationsTypeOK
  <2> QED
    BY <2>1, <2>3, <2>4, <2>5 DEF SubmittedIsComplete, OneActiveApplication, Active
<1>4. CASE review_owner_application(s)
  <2> USE <1>4 DEF ApplicationsInv
  <2> DEFINE j == job[s]
  <2>1. /\ j.id \in Partners /\ j.role \in {"CUSTOMER", "RESTAURANT_OWNER"}
        /\ j.role = "RESTAURANT_OWNER" => role = "RESTAURANT_OWNER"
    BY DEF review_owner_application, JobsKnow, Remembered
  <2>2. /\ partner' = [partner EXCEPT ![j.id] = IF j.approve THEN "APPROVED" ELSE "REJECTED"]
        /\ role' = IF j.approve THEN Flushed(role, j.role, "RESTAURANT_OWNER") ELSE role
        /\ ride' = ride /\ filled' = filled
        /\ publicPhoto' = publicPhoto /\ city' = city /\ End(s)
    BY DEF review_owner_application, rideVars
  <2>3. /\ j.approve => role' = "RESTAURANT_OWNER"
        /\ ~j.approve => role' = role
    BY <2>1, <2>2 DEF Flushed
  <2>4. role' \in {"CUSTOMER", "RESTAURANT_OWNER"} /\ (role = "RESTAURANT_OWNER" => role' = "RESTAURANT_OWNER")
    BY <2>3 DEF ApplicationsTypeOK
  <2>5. filled' \in [Rides -> SUBSET Steps] /\ \A b \in Rides : filled[b] \subseteq filled'[b]
    BY <2>2 DEF ApplicationsTypeOK
  <2>6. JobsAreFunction' /\ JobsKnow'
    BY <2>2, <2>4, <2>5, Ends
  <2>7. ApplicationsTypeOK'
    BY <2>1, <2>2, <2>4 DEF ApplicationsTypeOK, PartnerStatus
  <2>8. ApprovedOwnsRole'
    <3>1. CASE j.approve
      BY <2>3, <3>1 DEF ApprovedOwnsRole
    <3>2. CASE ~j.approve
      BY <2>1, <2>2, <2>3, <3>2 DEF ApprovedOwnsRole, ApplicationsTypeOK
    <3> QED
      BY <3>1, <3>2
  <2> QED
    BY <2>2, <2>6, <2>7, <2>8 DEF SubmittedIsComplete, OneActiveApplication, Active
<1> QED
  BY <1>1, <1>2, <1>3, <1>4 DEF PartnerStep

-----------------------------------------------------------------------------
(* The commit of a form, or of the rejection: the columns it adds and what *)
(* the handler knows make the status true.                                 *)
LEMMA CommitKeeps ==
    ASSUME ApplicationsInv, NEW s \in Sessions, NEW op \in RideForms,
           NEW status \in Stages \union {"PENDING_REVIEW", "REJECTED"}, NEW steps \in SUBSET Steps,
           RideCommit(s, op, status, steps),
           status \in {"IDENTITY_PROOF_ADDED"} => "identity" \in steps,
           status \in {"PROFILE_IMAGE_ADDED"} => op = "photo" /\ "photo" \in steps,
           status = "VEHICLE_DETAILS_ADDED" => op = "vehicle" /\ "vehicle" \in steps,
           status \in {"PENDING_REVIEW", "REJECTED"} => op \in {"submit", "turn down"}
    PROVE  ApplicationsInv'
<1> USE DEF ApplicationsInv
<1> DEFINE a == job[s].id
           new == NewStatus(job[s], status)
<1>1. Remembered(job[s], role, filled) /\ job[s].op = op
  BY DEF JobsKnow, RideCommit
<1>2. a \in Rides
  BY <1>1 DEF Remembered
<1>3. /\ partner' = partner /\ role' = role /\ publicPhoto' = publicPhoto /\ city' = city
      /\ End(s)
  BY DEF RideCommit, partnerVars
<1>4. new = ride[a] \/ new = status
  BY DEF NewStatus, Flushed
<1>5. /\ ride[a] \in Stages \union {"NONE", "PENDING_REVIEW", "REJECTED"}
      /\ new \in Stages \union {"NONE", "PENDING_REVIEW", "REJECTED"}
  BY <1>2, <1>4 DEF ApplicationsTypeOK
<1>6. CASE ride' = ride /\ filled' = filled
  <2>1. UNCHANGED applicationVars
    BY <1>3, <1>6 DEF applicationVars, partnerVars, rideVars
  <2> QED
    BY <1>3, <2>1, Refuses
<1>7. CASE /\ MayBe(a, new)
           /\ ride' = [ride EXCEPT ![a] = new]
           /\ filled' = [filled EXCEPT ![a] = @ \union steps]
  <2>1. filled' \in [Rides -> SUBSET Steps] /\ \A b \in Rides : filled[b] \subseteq filled'[b]
    BY <1>2, <1>7 DEF ApplicationsTypeOK
  <2>2. JobsAreFunction' /\ JobsKnow'
    BY <1>3, <2>1, Ends
  <2>3. ride' \in [Rides -> Stages \union {"NONE", "PENDING_REVIEW", "REJECTED"}]
    BY <1>2, <1>5, <1>7 DEF ApplicationsTypeOK
  <2>4. ApplicationsTypeOK'
    BY <1>3, <2>1, <2>3 DEF ApplicationsTypeOK
  <2>5. /\ ride'[a] = new /\ filled'[a] = filled[a] \union steps
        /\ \A b \in Rides \ {a} : ride'[b] = ride[b] /\ filled'[b] = filled[b]
    BY <1>2, <1>7 DEF ApplicationsTypeOK
  <2>6. /\ new \notin {"NONE", "CITY_ADDED"} => "identity" \in filled'[a]
        /\ new \notin {"NONE", "CITY_ADDED", "IDENTITY_PROOF_ADDED"} => "photo" \in filled'[a]
        /\ new \in {"VEHICLE_DETAILS_ADDED", "PENDING_REVIEW", "REJECTED"} => filled'[a] = Steps
    <3>1. filled'[a] \subseteq Steps
      BY <1>2, <2>1
    <3>2. CASE new = ride[a]
      BY <1>2, <2>5, <3>1, <3>2 DEF SubmittedIsComplete
    <3>3. CASE new = status /\ status \in {"CITY_ADDED", "IDENTITY_PROOF_ADDED"}
      BY <2>5, <3>3
    <3>4. CASE new = status /\ status = "PROFILE_IMAGE_ADDED"
      BY <1>1, <2>5, <3>4 DEF Remembered
    <3>5. CASE new = status /\ status = "VEHICLE_DETAILS_ADDED"
      BY <1>1, <2>5, <3>1, <3>5 DEF Remembered, Steps
    <3>6. CASE new = status /\ status \in {"PENDING_REVIEW", "REJECTED"}
      BY <1>1, <2>5, <3>1, <3>6 DEF Remembered, Steps
    <3> QED
      BY <1>4, <3>2, <3>3, <3>4, <3>5, <3>6 DEF Stages
  <2>7. SubmittedIsComplete'
    BY <2>5, <2>6 DEF SubmittedIsComplete
  <2>8. OneActiveApplication'
    <3>1. CASE new = "REJECTED"
      BY <2>5, <3>1 DEF OneActiveApplication, Active, Stages
    <3>2. CASE new # "REJECTED"
      BY <1>7, <2>5, <3>2 DEF OneActiveApplication, Active, MayBe
    <3> QED
      BY <3>1, <3>2
  <2> QED
    BY <1>3, <2>2, <2>4, <2>7, <2>8 DEF ApprovedOwnsRole
<1> QED
  BY <1>6, <1>7 DEF RideCommit

(* The city, the start, the forms and the decision of a rider application. *)
LEMMA RideKeeps ==
    ASSUME ApplicationsInv, NEW s \in Sessions, RideStep(s)
    PROVE  ApplicationsInv'
<1>1. ASSUME NEW status \in CityStatus, CityRead(s, status) PROVE ApplicationsInv'
  <2>1. Remembered([op |-> "city", read |-> city, status |-> status], role, filled)
    BY DEF Remembered, RideForms
  <2> QED
    BY <1>1, <2>1, Reads DEF CityRead
<1>2. CASE activate_city(s) \/ inactivate_city(s)
  <2> USE DEF ApplicationsInv
  <2>1. PICK status \in CityStatus : CityCommit(s, status)
    BY <1>2 DEF activate_city, inactivate_city, CityStatus
  <2>2. /\ partner' = partner /\ role' = role /\ ride' = ride /\ filled' = filled
        /\ publicPhoto' = publicPhoto /\ End(s)
        /\ city' = city \/ city' = status
    BY <2>1 DEF CityCommit, partnerVars, rideVars, Flushed
  <2>3. filled' \in [Rides -> SUBSET Steps] /\ \A a \in Rides : filled[a] \subseteq filled'[a]
    BY <2>2 DEF ApplicationsTypeOK
  <2>4. JobsAreFunction' /\ JobsKnow'
    BY <2>2, <2>3, Ends
  <2> QED
    BY <2>2, <2>4 DEF ApplicationsTypeOK, ApprovedOwnsRole, SubmittedIsComplete,
       OneActiveApplication, Active
<1>3. CASE CityExists(s) \/ StartFails(s)
  BY <1>3, Refuses DEF CityExists, StartFails
<1>4. CASE RideRead(s)
  <2>1. Remembered([op |-> "ride"], role, filled)
    BY DEF Remembered, RideForms
  <2> QED
    BY <1>4, <2>1, Reads DEF RideRead
<1>5. ASSUME NEW a \in Rides, start_application(s, a) PROVE ApplicationsInv'
  <2> USE <1>5 DEF ApplicationsInv
  <2>1. /\ ride' = [ride EXCEPT ![a] = "CITY_ADDED"] /\ MayBe(a, "CITY_ADDED")
        /\ partner' = partner /\ role' = role /\ filled' = filled
        /\ publicPhoto' = publicPhoto /\ city' = city /\ End(s)
    BY DEF start_application, partnerVars
  <2>2. filled' \in [Rides -> SUBSET Steps] /\ \A b \in Rides : filled[b] \subseteq filled'[b]
    BY <2>1 DEF ApplicationsTypeOK
  <2>3. JobsAreFunction' /\ JobsKnow'
    BY <2>1, <2>2, Ends
  <2>4. ride'[a] = "CITY_ADDED" /\ \A b \in Rides \ {a} : ride'[b] = ride[b]
    BY <2>1 DEF ApplicationsTypeOK
  <2>5. ApplicationsTypeOK'
    BY <2>1 DEF ApplicationsTypeOK, Stages
  <2>6. OneActiveApplication'
    BY <2>1, <2>4 DEF OneActiveApplication, Active, MayBe
  <2>7. SubmittedIsComplete'
    BY <2>1, <2>4 DEF SubmittedIsComplete
  <2> QED
    BY <2>1, <2>3, <2>5, <2>6, <2>7 DEF ApprovedOwnsRole
<1>6. ASSUME NEW a \in Rides,
             \/ IdentityRead(s, a) \/ PhotoRead(s, a) \/ VehicleRead(s, a) \/ SubmitRead(s, a)
             \/ RejectRideRead(s, a) \/ ApproveRideRead(s, a)
      PROVE  ApplicationsInv'
  <2>1. PICK op \in RideForms, stages \in SUBSET (Stages \union {"PENDING_REVIEW"}) :
            /\ RideLoad(s, a, op, stages)
            /\ op = "photo" => "CITY_ADDED" \notin stages
            /\ op = "vehicle" => stages \intersect {"CITY_ADDED", "IDENTITY_PROOF_ADDED"} = {}
            /\ op \in {"submit", "turn down"} => stages \subseteq {"VEHICLE_DETAILS_ADDED", "PENDING_REVIEW"}
    <3>1. CASE IdentityRead(s, a)
      BY <3>1 DEF IdentityRead, FormLoad, RideForms, Stages
    <3>2. CASE PhotoRead(s, a)
      BY <3>2 DEF PhotoRead, FormLoad, RideForms, Stages
    <3>3. CASE VehicleRead(s, a)
      BY <3>3 DEF VehicleRead, FormLoad, RideForms, Stages
    <3>4. CASE SubmitRead(s, a)
      BY <3>4 DEF SubmitRead, FormLoad, RideForms, Stages
    <3>5. CASE RejectRideRead(s, a)
      BY <3>5 DEF RejectRideRead, RideForms
    <3>6. CASE ApproveRideRead(s, a)
      BY <3>6 DEF ApproveRideRead, RideForms
    <3> QED
      BY <1>6, <3>1, <3>2, <3>3, <3>4, <3>5, <3>6
  <2> DEFINE j == [op |-> op, id |-> a, read |-> ride[a]]
  <2>2. ride[a] \in stages /\ Begin(s, j) /\ UNCHANGED applicationVars
    BY <2>1 DEF RideLoad
  <2>3. /\ op = "photo" => "identity" \in filled[a]
        /\ op = "vehicle" => {"identity", "photo"} \subseteq filled[a]
        /\ op \in {"submit", "turn down"} => filled[a] = Steps
    BY <2>1, <2>2 DEF ApplicationsInv, SubmittedIsComplete, Stages
  <2>4. Remembered(j, role, filled)
    BY <2>3 DEF Remembered, RideForms
  <2> QED
    BY <2>2, <2>4, Reads
<1>7. CASE add_identity_proof(s)
  BY <1>7, CommitKeeps DEF add_identity_proof, RideForms, Stages, Steps
<1>8. CASE add_profile_image(s)
  BY <1>8, CommitKeeps DEF add_profile_image, RideForms, Stages, Steps
<1>9. CASE add_vehicle_details(s)
  BY <1>9, CommitKeeps DEF add_vehicle_details, RideForms, Stages, Steps
<1>10. CASE submit_for_review(s)
  BY <1>10, CommitKeeps DEF submit_for_review, RideForms, Stages, Steps
<1>11. CASE reject_rider_application(s)
  BY <1>11, CommitKeeps DEF reject_rider_application, RideForms, Stages, Steps
<1>12. CASE approve_rider_application(s)
  <2> USE <1>12 DEF ApplicationsInv
  <2>1. /\ partner' = partner /\ role' = role /\ ride' = ride /\ filled' = filled
        /\ city' = city /\ End(s) /\ publicPhoto' = publicPhoto \union {job[s].id}
    BY DEF approve_rider_application, partnerVars
  <2>2. job[s].id \in Rides
    BY DEF approve_rider_application, JobsKnow, Remembered, RideForms
  <2>3. filled' \in [Rides -> SUBSET Steps] /\ \A a \in Rides : filled[a] \subseteq filled'[a]
    BY <2>1 DEF ApplicationsTypeOK
  <2>4. JobsAreFunction' /\ JobsKnow'
    BY <2>1, <2>3, Ends
  <2> QED
    BY <2>1, <2>2, <2>4 DEF ApplicationsTypeOK, ApprovedOwnsRole, SubmittedIsComplete,
       OneActiveApplication, Active
<1> QED
  BY <1>1, <1>2, <1>3, <1>4, <1>5, <1>6, <1>7, <1>8, <1>9, <1>10, <1>11, <1>12 DEF RideStep

-----------------------------------------------------------------------------
LEMMA InitApplications == ApplicationsInit => ApplicationsInv
<1> SUFFICES ASSUME ApplicationsInit PROVE ApplicationsInv
  OBVIOUS
<1>1. ApplicationsTypeOK
  BY DEF ApplicationsInit, NoApplications, ApplicationsTypeOK, PartnerStatus
<1>2. JobsAreFunction /\ JobsKnow
  BY DEF ApplicationsInit, JobsAreFunction, JobsKnow, Remembered, RideForms, Idle
<1>3. \A a \in Rides : ride[a] = "NONE"
  BY DEF ApplicationsInit, NoApplications
<1>4. ApprovedOwnsRole
  BY DEF ApplicationsInit, NoApplications, ApprovedOwnsRole
<1>5. SubmittedIsComplete /\ OneActiveApplication
  BY <1>3 DEF SubmittedIsComplete, OneActiveApplication, Active, Stages
<1> QED
  BY <1>1, <1>2, <1>4, <1>5 DEF ApplicationsInv

LEMMA NextKeepsApplications ==
    ApplicationsInv /\ [ApplicationsNext]_<<job, applicationVars>> => ApplicationsInv'
<1> SUFFICES ASSUME ApplicationsInv, [ApplicationsNext]_<<job, applicationVars>>
             PROVE  ApplicationsInv'
  OBVIOUS
<1>1. CASE ApplicationsNext
  BY <1>1, PartnerKeeps, RideKeeps DEF ApplicationsNext
<1>2. CASE UNCHANGED <<job, applicationVars>>
  BY <1>2 DEF applicationVars, partnerVars, rideVars, ApplicationsInv, ApplicationsTypeOK,
     JobsAreFunction, JobsKnow, ApprovedOwnsRole, SubmittedIsComplete, OneActiveApplication,
     Active
<1> QED
  BY <1>1, <1>2

LEMMA ApplicationsKeep == ApplicationsSpec => []ApplicationsInv
BY InitApplications, NextKeepsApplications, PTL DEF ApplicationsSpec

(* For any number of administrators and applications: an application is    *)
(* APPROVED only while its applicant has the owner's role                  *)
(* (review_owner_application in admins/router.py).                         *)
THEOREM ApprovedHasRole == ApplicationsSpec => []ApprovedOwnsRole
<1>1. ApplicationsInv => ApprovedOwnsRole
  BY DEF ApplicationsInv
<1> QED
  BY <1>1, ApplicationsKeep, PTL

(* However the forms of a rider application, its submission and its        *)
(* rejection overlap, the status never runs ahead of the stored columns    *)
(* (rider_applications/services.py).                                       *)
THEOREM ReviewedIsComplete == ApplicationsSpec => []SubmittedIsComplete
<1>1. ApplicationsInv => SubmittedIsComplete
  BY DEF ApplicationsInv
<1> QED
  BY <1>1, ApplicationsKeep, PTL

(* The partial unique index and what a stale form may write leave one      *)
(* undecided rider application per applicant                               *)
(* (uq_rider_applications_active_per_user).                                *)
THEOREM OneAtATime == ApplicationsSpec => []OneActiveApplication
<1>1. ApplicationsInv => OneActiveApplication
  BY DEF ApplicationsInv
<1> QED
  BY <1>1, ApplicationsKeep, PTL

-----------------------------------------------------------------------------
(* The rows of the three tables, for c the cuisine types, q the requests,  *)
(* m the mappings and r the rows handed out.  The unique constraints make  *)
(* it inductive: only because a restaurant maps a request once does an     *)
(* approval not leave it with one cuisine twice.                           *)
RowsOK(c, q, r) ==
    /\ r \in Nat
    /\ c \subseteq [id : 1..r, slug : Slugs]
    /\ q \subseteq [id : 1..r, slug : Slugs]

MappingRows(r) ==
    [id : 1..r, kitchen : Kitchens, cuisine : 0..r, request : 0..r, primary : BOOLEAN]

Resolves(m, c, q) ==
    \/ m.request = NULL /\ \E x \in c : x.id = m.cuisine
    \/ m.cuisine = NULL /\ \E x \in q : x.id = m.request

Distinct(ms) ==
    \A m, n \in ms : m.kitchen = n.kitchen =>
        /\ m.cuisine = n.cuisine /\ m.cuisine # NULL => m = n
        /\ m.request = n.request /\ m.request # NULL => m = n
        /\ m.primary /\ n.primary => m = n

MappingsOK(ms, c, q, r) ==
    /\ ms \subseteq MappingRows(r)
    /\ \A m \in ms : Resolves(m, c, q) /\ (m.primary => m.cuisine # NULL)
    /\ Distinct(ms)

(* What a handler holds. *)
Holds(j, r) ==
    /\ j.op \in {"ask", "create"} => j \in [op : {"ask", "create"}, kitchen : Kitchens, slug : Slugs]
    /\ j.op = "map" => j.kitchen \in Kitchens /\ j.request \in 1..r
    /\ j.op \in {"add", "primary"} => j.kitchen \in Kitchens /\ j.cuisine \in 1..r
    /\ j.op \in {"approve", "reject"} => j.request \in [id : 1..r, slug : Slugs]
    /\ j.op = "list" => j.shown \subseteq [id : 1..r, slug : Slugs]

CuisinesInv ==
    /\ RowsOK(cuisineTypes, requests, rows)
    /\ MappingsOK(mappings, cuisineTypes, requests, rows)
    /\ JobsAreFunction /\ \A s \in Sessions : Holds(job[s], rows)

-----------------------------------------------------------------------------
(* What the writes do to a set of mappings. *)
LEMMA MoreRows ==
    ASSUME NEW c, NEW q, NEW r, RowsOK(c, q, r), NEW ms, MappingsOK(ms, c, q, r)
    PROVE  RowsOK(c, q, r + 1) /\ MappingsOK(ms, c, q, r + 1)
<1>1. r \in Nat /\ 1..r \subseteq 1..(r + 1) /\ 0..r \subseteq 0..(r + 1)
  BY DEF RowsOK
<1>2. c \subseteq [id : 1..(r + 1), slug : Slugs] /\ q \subseteq [id : 1..(r + 1), slug : Slugs]
  BY <1>1 DEF RowsOK
<1>3. MappingRows(r) \subseteq MappingRows(r + 1)
  BY <1>1 DEF MappingRows
<1> QED
  BY <1>1, <1>2, <1>3 DEF RowsOK, MappingsOK

LEMMA Removal ==
    ASSUME NEW c, NEW q, NEW r, NEW ms, MappingsOK(ms, c, q, r), NEW fewer \in SUBSET ms
    PROVE  MappingsOK(fewer, c, q, r)
BY DEF MappingsOK, Distinct

(* A mapping to an approved cuisine or a pending request that the          *)
(* restaurant does not map yet.                                            *)
LEMMA Insertion ==
    ASSUME NEW c, NEW q, NEW r, RowsOK(c, q, r), NEW ms, MappingsOK(ms, c, q, r),
           NEW m \in MappingRows(r), Resolves(m, c, q),
           m.primary => m.cuisine # NULL /\ \A n \in ms : n.kitchen = m.kitchen => ~n.primary,
           \A n \in ms : n.kitchen = m.kitchen =>
               /\ m.cuisine # NULL => n.cuisine # m.cuisine
               /\ m.request # NULL => n.request # m.request
    PROVE  MappingsOK(ms \union {m}, c, q, r)
<1>1. ms \union {m} \subseteq MappingRows(r)
  BY DEF MappingsOK
<1>2. Distinct(ms \union {m})
  BY DEF MappingsOK, Distinct
<1> QED
  BY <1>1, <1>2 DEF MappingsOK

(* Rows that lose or gain the primary flag keep the rest. *)
LEMMA Flagging ==
    ASSUME NEW c, NEW q, NEW r, NEW ms, MappingsOK(ms, c, q, r), NEW row,
           \A m \in ms : /\ row[m] \in MappingRows(r)
                         /\ row[m].kitchen = m.kitchen /\ row[m].cuisine = m.cuisine
                         /\ row[m].request = m.request
                         /\ row[m].primary => m.cuisine # NULL,
           \A m, n \in ms : m.kitchen = n.kitchen /\ row[m].primary /\ row[n].primary => m = n
    PROVE  MappingsOK({row[m] : m \in ms}, c, q, r)
<1>1. \A m \in ms : Resolves(row[m], c, q)
  BY DEF MappingsOK, Resolves
<1>2. Distinct({row[m] : m \in ms})
  BY DEF MappingsOK, Distinct
<1> QED
  BY <1>1, <1>2 DEF MappingsOK

(* Approval: the mappings of a request move over to a new cuisine. *)
LEMMA Approval ==
    ASSUME NEW c, NEW q, NEW r, RowsOK(c, q, r), NEW ms, MappingsOK(ms, c, q, r),
           NEW x \in [id : 1..r, slug : Slugs]
    PROVE  MappingsOK({IF m.request = x.id THEN [m EXCEPT !.cuisine = r + 1, !.request = NULL]
                                           ELSE m : m \in ms},
                      c \union {[id |-> r + 1, slug |-> x.slug]}, q \ {x}, r + 1)
<1> DEFINE moved(m) == IF m.request = x.id THEN [m EXCEPT !.cuisine = r + 1, !.request = NULL] ELSE m
           new == {moved(m) : m \in ms}
           C == c \union {[id |-> r + 1, slug |-> x.slug]}
           Q == q \ {x}
<1>1. r \in Nat /\ x.id \in 1..r
  BY DEF RowsOK
<1>2. \A m \in ms : /\ m \in MappingRows(r) /\ m.cuisine \in 0..r /\ m.request \in 0..r
                    /\ m.cuisine # r + 1
  BY <1>1 DEF MappingsOK, MappingRows
<1>3. \A m \in ms : /\ moved(m) \in MappingRows(r + 1)
                    /\ moved(m).kitchen = m.kitchen /\ moved(m).primary = m.primary
                    /\ moved(m).cuisine = IF m.request = x.id THEN r + 1 ELSE m.cuisine
                    /\ moved(m).request = IF m.request = x.id THEN NULL ELSE m.request
  <2> SUFFICES ASSUME NEW m \in ms
               PROVE  /\ moved(m) \in MappingRows(r + 1)
                      /\ moved(m).kitchen = m.kitchen /\ moved(m).primary = m.primary
                      /\ moved(m).cuisine = IF m.request = x.id THEN r + 1 ELSE m.cuisine
                      /\ moved(m).request = IF m.request = x.id THEN NULL ELSE m.request
    OBVIOUS
  <2>1. 1..r \subseteq 1..(r + 1) /\ 0..r \subseteq 0..(r + 1) /\ NULL \in 0..(r + 1) /\ r + 1 \in 0..(r + 1)
    BY <1>1 DEF NULL
  <2>2. CASE m.request = x.id
    <3>1. moved(m) = [m EXCEPT !.cuisine = r + 1, !.request = NULL]
      BY <2>2
    <3> HIDE DEF moved
    <3> QED
      BY <1>2, <2>1, <2>2, <3>1 DEF MappingRows
  <2>3. CASE m.request # x.id
    <3>1. moved(m) = m
      BY <2>3
    <3> HIDE DEF moved
    <3> QED
      BY <1>2, <2>1, <2>3, <3>1 DEF MappingRows
  <2> QED
    BY <2>2, <2>3
<1> HIDE DEF moved
<1>4. new \subseteq MappingRows(r + 1)
  BY <1>3
<1>5. \A m \in ms : Resolves(moved(m), C, Q)
  <2> SUFFICES ASSUME NEW m \in ms PROVE Resolves(moved(m), C, Q)
    OBVIOUS
  <2>1. Resolves(m, c, q)
    BY DEF MappingsOK
  <2>2. CASE m.request = x.id
    <3>1. [id |-> r + 1, slug |-> x.slug] \in C
      OBVIOUS
    <3>2. moved(m).request = NULL /\ moved(m).cuisine = r + 1
      BY <1>3, <2>2
    <3> QED
      BY <3>1, <3>2 DEF Resolves
  <2>3. CASE m.request # x.id
    BY <1>3, <2>1, <2>3 DEF Resolves
  <2> QED
    BY <2>2, <2>3
<1>6. \A m \in ms : moved(m).primary => moved(m).cuisine # NULL
  BY <1>1, <1>3 DEF MappingsOK, NULL
<1>7. \A m, n \in ms : moved(m).kitchen = moved(n).kitchen =>
          /\ moved(m).cuisine = moved(n).cuisine /\ moved(m).cuisine # NULL => m = n
          /\ moved(m).request = moved(n).request /\ moved(m).request # NULL => m = n
          /\ moved(m).primary /\ moved(n).primary => m = n
  <2> SUFFICES ASSUME NEW m \in ms, NEW n \in ms, m.kitchen = n.kitchen
               PROVE  /\ moved(m).cuisine = moved(n).cuisine /\ moved(m).cuisine # NULL => m = n
                      /\ moved(m).request = moved(n).request /\ moved(m).request # NULL => m = n
                      /\ moved(m).primary /\ moved(n).primary => m = n
    BY <1>3
  <2>1. /\ m.cuisine = n.cuisine /\ m.cuisine # NULL => m = n
        /\ m.request = n.request /\ m.request # NULL => m = n
        /\ m.primary /\ n.primary => m = n
    BY DEF MappingsOK, Distinct
  <2> QED
    BY <1>1, <1>2, <1>3, <2>1 DEF NULL
<1>8. Distinct(new)
  BY <1>7 DEF Distinct
<1>9. MappingsOK(new, C, Q, r + 1)
  BY <1>4, <1>5, <1>6, <1>8 DEF MappingsOK
<1> QED
  BY <1>9 DEF moved

-----------------------------------------------------------------------------
(* The steps.  Rows are only ever added to the count. *)
LEMMA HoldsOn ==
    ASSUME NEW j, NEW r \in Nat, Holds(j, r)
    PROVE  Holds(j, r + 1)
<1>1. 1..r \subseteq 1..(r + 1)
  OBVIOUS
<1>2. [id : 1..r, slug : Slugs] \subseteq [id : 1..(r + 1), slug : Slugs]
  BY <1>1
<1> QED
  BY <1>1, <1>2 DEF Holds

LEMMA AllHold ==
    ASSUME CuisinesInv, NEW s \in Sessions, NEW j, job' = [job EXCEPT ![s] = j],
           rows' \in {rows, rows + 1}, Holds(j, rows')
    PROVE  JobsAreFunction' /\ \A t \in Sessions : Holds(job'[t], rows')
<1>1. JobsAreFunction' /\ job'[s] = j /\ \A t \in Sessions \ {s} : job'[t] = job[t]
  BY Turns DEF CuisinesInv
<1>2. \A t \in Sessions : Holds(job[t], rows')
  BY HoldsOn DEF CuisinesInv, RowsOK
<1> QED
  BY <1>1, <1>2

LEMMA NothingHeld == \A r : Holds(Idle, r) /\ Holds([op |-> "forget"], r)
BY DEF Holds, Idle

(* A step of a handler that leaves the tables as they are. *)
LEMMA TablesStay ==
    ASSUME CuisinesInv, NEW s \in Sessions, NEW j, job' = [job EXCEPT ![s] = j], Holds(j, rows),
           UNCHANGED <<cuisineTypes, requests, mappings, rows>>
    PROVE  CuisinesInv'
BY AllHold DEF CuisinesInv, JobsAreFunction

LEMMA RefusalStays ==
    ASSUME CuisinesInv, NEW s \in Sessions, Refused(s)
    PROVE  CuisinesInv'
BY TablesStay, NothingHeld DEF Refused, End, cuisineVars

LEMMA RequestKeeps ==
    ASSUME CuisinesInv, NEW s \in Sessions, RequestStep(s)
    PROVE  CuisinesInv'
<1> USE DEF NULL
<1>0. Holds(job[s], rows) /\ RowsOK(cuisineTypes, requests, rows)
  BY DEF CuisinesInv
<1>1. ASSUME NEW k \in Kitchens, NEW slug \in Slugs, RequestRead(s, k, slug) PROVE CuisinesInv'
  <2>1. Holds([op |-> "ask", kitchen |-> k, slug |-> slug], rows)
    BY DEF Holds
  <2> QED
    BY <1>1, <2>1, TablesStay DEF RequestRead, Loads, Begin, cuisineVars
<1>2. CASE PendingRead(s)
  <2>1. job[s] \in [op : {"ask", "create"}, kitchen : Kitchens, slug : Slugs] /\ UNCHANGED cuisineVars
    BY <1>0, <1>2 DEF PendingRead, Holds
  <2>2. CASE Continue(s, [job[s] EXCEPT !.op = "create"])
    <3>1. Holds([job[s] EXCEPT !.op = "create"], rows)
      BY <2>1 DEF Holds
    <3> QED
      BY <2>1, <2>2, <3>1, TablesStay DEF Continue, cuisineVars
  <2>3. ASSUME NEW x \in requests,
               Continue(s, [op |-> "map", kitchen |-> job[s].kitchen, request |-> x.id])
        PROVE  CuisinesInv'
    <3>1. Holds([op |-> "map", kitchen |-> job[s].kitchen, request |-> x.id], rows)
      BY <1>0, <2>1 DEF Holds, RowsOK
    <3> QED
      BY <2>1, <2>3, <3>1, TablesStay DEF Continue, cuisineVars
  <2> QED
    BY <1>2, <2>2, <2>3 DEF PendingRead
<1>3. CASE CreateRequest(s)
  <2> DEFINE j == [op |-> "map", kitchen |-> job[s].kitchen, request |-> rows + 1]
             x == [id |-> rows + 1, slug |-> job[s].slug]
  <2>1. /\ rows' = rows + 1 /\ requests' = requests \union {x} /\ job' = [job EXCEPT ![s] = j]
        /\ cuisineTypes' = cuisineTypes /\ mappings' = mappings
        /\ job[s].kitchen \in Kitchens /\ job[s].slug \in Slugs
    BY <1>0, <1>3 DEF CreateRequest, Continue, Holds
  <2>2. Holds(j, rows')
    BY <1>0, <2>1 DEF Holds, RowsOK
  <2>3. RowsOK(cuisineTypes, requests, rows') /\ MappingsOK(mappings, cuisineTypes, requests, rows')
    BY <2>1, MoreRows DEF CuisinesInv
  <2>4. RowsOK(cuisineTypes', requests', rows')
    BY <1>0, <2>1, <2>3 DEF RowsOK
  <2>5. MappingsOK(mappings', cuisineTypes', requests', rows')
    BY <2>1, <2>3 DEF MappingsOK, Resolves
  <2> QED
    BY <2>1, <2>2, <2>4, <2>5, AllHold DEF CuisinesInv
<1>4. CASE request_new_cuisine(s)
  <2> DEFINE m == Mapping(rows + 1, job[s].kitchen, NULL, job[s].request, FALSE)
  <2>1. /\ rows' = rows + 1 /\ mappings' = mappings \union {m} /\ job' = [job EXCEPT ![s] = Idle]
        /\ cuisineTypes' = cuisineTypes /\ requests' = requests
        /\ job[s].kitchen \in Kitchens /\ job[s].request \in 1..rows
        /\ IsRequest(job[s].request)
        /\ \A n \in mappings : n.kitchen = job[s].kitchen => n.request # job[s].request
    BY <1>0, <1>4 DEF request_new_cuisine, Insert, Insertable, End, Holds
  <2>2. RowsOK(cuisineTypes, requests, rows') /\ MappingsOK(mappings, cuisineTypes, requests, rows')
    BY <2>1, MoreRows DEF CuisinesInv
  <2>3. m \in MappingRows(rows')
    BY <1>0, <2>1 DEF Mapping, MappingRows, RowsOK
  <2>4. Resolves(m, cuisineTypes, requests)
    BY <2>1 DEF Mapping, Resolves, IsRequest
  <2>5. MappingsOK(mappings \union {m}, cuisineTypes, requests, rows')
    BY <2>1, <2>2, <2>3, <2>4, Insertion DEF Mapping
  <2> QED
    BY <2>1, <2>2, <2>5, AllHold, NothingHeld DEF CuisinesInv
<1>5. CASE RequestConflict(s)
  BY <1>5, RefusalStays DEF RequestConflict
<1> QED
  BY <1>1, <1>2, <1>3, <1>4, <1>5 DEF RequestStep

(* The rows that the transaction has read lose their flag. *)
LEMMA DemotedOK ==
    ASSUME CuisinesInv, NEW ids
    PROVE  /\ MappingsOK(Demoted(ids), cuisineTypes, requests, rows)
           /\ \A x \in Demoted(ids) :
                \E m \in mappings : /\ x.kitchen = m.kitchen /\ x.cuisine = m.cuisine
                                    /\ x.primary => x = m /\ m.primary /\ m.id \notin ids
<1> DEFINE row == [m \in mappings |-> IF m.id \in ids THEN [m EXCEPT !.primary = FALSE] ELSE m]
<1>1. MappingsOK(mappings, cuisineTypes, requests, rows)
  BY DEF CuisinesInv
<1>2. \A m \in mappings : /\ row[m] \in MappingRows(rows)
                          /\ row[m].kitchen = m.kitchen /\ row[m].cuisine = m.cuisine
                          /\ row[m].request = m.request
                          /\ row[m].primary => row[m] = m /\ m.primary /\ m.id \notin ids
  BY <1>1 DEF MappingsOK, MappingRows
<1>3. Demoted(ids) = {row[m] : m \in mappings}
  BY DEF Demoted
<1> HIDE DEF row
<1>4. /\ \A m \in mappings : row[m].primary => m.cuisine # NULL
      /\ \A m, n \in mappings : m.kitchen = n.kitchen /\ row[m].primary /\ row[n].primary => m = n
  BY <1>1, <1>2 DEF MappingsOK, Distinct
<1>5. MappingsOK({row[m] : m \in mappings}, cuisineTypes, requests, rows)
  BY <1>1, <1>2, <1>4, Flagging
<1> QED
  BY <1>2, <1>3, <1>5

LEMMA PrimaryKeeps ==
    ASSUME CuisinesInv, NEW s \in Sessions, set_primary_cuisine_for_restaurant(s)
    PROVE  CuisinesInv'
<1> USE DEF NULL
<1> DEFINE j == job[s]
           rest == Demoted(j.old)
           own == {m \in rest : m.kitchen = j.kitchen /\ m.cuisine = j.cuisine}
<1>1. /\ j.kitchen \in Kitchens /\ j.cuisine \in 1..rows /\ RowsOK(cuisineTypes, requests, rows)
  BY DEF CuisinesInv, Holds, set_primary_cuisine_for_restaurant
<1>2. /\ IsCuisine(j.cuisine) /\ job' = [job EXCEPT ![s] = Idle]
      /\ cuisineTypes' = cuisineTypes /\ requests' = requests
      /\ \A m \in Primary(j.kitchen) : m.id \in j.old \/ m.cuisine = j.cuisine
  BY DEF set_primary_cuisine_for_restaurant, PrimaryFree, End
<1>3. MappingsOK(rest, cuisineTypes, requests, rows)
  BY DemotedOK
<1>4. \A x \in rest : x.primary /\ x.kitchen = j.kitchen => x.cuisine = j.cuisine
  BY <1>2, DemotedOK DEF Primary
<1>5. CASE own # {} /\ rows' = rows
           /\ mappings' = (rest \ own) \union {[m EXCEPT !.primary = TRUE] : m \in own}
  <2> DEFINE row == [m \in rest |-> IF m \in own THEN [m EXCEPT !.primary = TRUE] ELSE m]
  <2>1. \A m \in rest : /\ row[m] \in MappingRows(rows)
                        /\ row[m].kitchen = m.kitchen /\ row[m].cuisine = m.cuisine
                        /\ row[m].request = m.request
                        /\ row[m].primary => m \in own \/ m.primary
    BY <1>3 DEF MappingsOK, MappingRows
  <2>2. mappings' = {row[m] : m \in rest}
    BY <1>5
  <2> HIDE DEF row
  <2>3. \A m \in rest : row[m].primary => m.cuisine # NULL
    BY <1>1, <1>3, <2>1 DEF MappingsOK
  <2>4. \A m, n \in rest : m.kitchen = n.kitchen /\ row[m].primary /\ row[n].primary => m = n
    BY <1>1, <1>3, <1>4, <2>1 DEF MappingsOK, Distinct
  <2>5. MappingsOK({row[m] : m \in rest}, cuisineTypes, requests, rows)
    BY <1>3, <2>1, <2>3, <2>4, Flagging
  <2> QED
    BY <1>1, <1>2, <1>5, <2>2, <2>5, AllHold, NothingHeld DEF CuisinesInv
<1>6. CASE own = {} /\ rows' = rows + 1
           /\ mappings' = rest \union {Mapping(rows + 1, j.kitchen, j.cuisine, NULL, TRUE)}
  <2> DEFINE m == Mapping(rows + 1, j.kitchen, j.cuisine, NULL, TRUE)
  <2>1. RowsOK(cuisineTypes, requests, rows') /\ MappingsOK(rest, cuisineTypes, requests, rows')
    BY <1>1, <1>3, <1>6, MoreRows
  <2>2. m \in MappingRows(rows')
    BY <1>1, <1>6 DEF Mapping, MappingRows, RowsOK
  <2>3. Resolves(m, cuisineTypes, requests)
    BY <1>2 DEF Mapping, Resolves, IsCuisine
  <2>4. MappingsOK(rest \union {m}, cuisineTypes, requests, rows')
    <3>1. \A n \in rest : n.kitchen = j.kitchen => n.cuisine # j.cuisine /\ ~n.primary
      BY <1>4, <1>6
    <3>2. /\ m.primary /\ m.cuisine = j.cuisine /\ m.request = NULL /\ m.kitchen = j.kitchen
          /\ m.cuisine # NULL
      BY <1>1 DEF Mapping
    <3> HIDE DEF m
    <3> QED
      BY <2>1, <2>2, <2>3, <3>1, <3>2, Insertion
  <2> QED
    BY <1>1, <1>2, <1>6, <2>1, <2>4, AllHold, NothingHeld DEF CuisinesInv
<1> QED
  BY <1>5, <1>6 DEF set_primary_cuisine_for_restaurant

LEMMA OwnerKeeps ==
    ASSUME CuisinesInv, NEW s \in Sessions, OwnerCuisine(s)
    PROVE  CuisinesInv'
<1> USE DEF NULL
<1>0. Holds(job[s], rows) /\ RowsOK(cuisineTypes, requests, rows)
  BY DEF CuisinesInv
<1>1. ASSUME NEW k \in Kitchens, NEW c \in cuisineTypes, AddCuisineRead(s, k, c) PROVE CuisinesInv'
  <2>1. Holds([op |-> "add", kitchen |-> k, cuisine |-> c.id], rows)
    BY <1>0 DEF Holds, RowsOK
  <2> QED
    BY <1>1, <2>1, TablesStay DEF AddCuisineRead, Loads, Begin, cuisineVars
<1>2. ASSUME NEW k \in Kitchens, NEW c \in cuisineTypes, PrimaryRead(s, k, c) PROVE CuisinesInv'
  <2> DEFINE j == [op |-> "primary", kitchen |-> k, cuisine |-> c.id, old |-> {m.id : m \in Primary(k)}]
  <2>1. Holds(j, rows)
    BY <1>0 DEF Holds, RowsOK
  <2>2. job' = [job EXCEPT ![s] = j] /\ UNCHANGED cuisineVars
    BY <1>2 DEF PrimaryRead, Loads, Begin
  <2> HIDE DEF j
  <2> QED
    BY <2>1, <2>2, TablesStay DEF cuisineVars
<1>3. ASSUME NEW k \in Kitchens, DemoteRead(s, k) PROVE CuisinesInv'
  <2> DEFINE j == [op |-> "demote", kitchen |-> k, old |-> {m.id : m \in Primary(k)}]
  <2>1. Holds(j, rows)
    BY DEF Holds
  <2>2. job' = [job EXCEPT ![s] = j] /\ UNCHANGED cuisineVars
    BY <1>3 DEF DemoteRead, Loads, Begin
  <2> HIDE DEF j
  <2> QED
    BY <2>1, <2>2, TablesStay DEF cuisineVars
<1>4. ASSUME NEW m \in mappings, RemoveCuisineRead(s, m) \/ CancelRead(s, m) PROVE CuisinesInv'
  <2>1. Holds([op |-> "unmap", mapping |-> m.id], rows) /\ Holds([op |-> "cancel", mapping |-> m.id], rows)
    BY DEF Holds
  <2> QED
    BY <1>4, <2>1, TablesStay DEF RemoveCuisineRead, CancelRead, Loads, Begin, cuisineVars
<1>5. CASE upload_cuisine_for_restaurant(s)
  <2> DEFINE m == Mapping(rows + 1, job[s].kitchen, job[s].cuisine, NULL, FALSE)
  <2>1. /\ rows' = rows + 1 /\ mappings' = mappings \union {m} /\ job' = [job EXCEPT ![s] = Idle]
        /\ cuisineTypes' = cuisineTypes /\ requests' = requests
        /\ job[s].kitchen \in Kitchens /\ job[s].cuisine \in 1..rows
        /\ IsCuisine(job[s].cuisine)
        /\ \A n \in mappings : n.kitchen = job[s].kitchen => n.cuisine # job[s].cuisine
    BY <1>0, <1>5 DEF upload_cuisine_for_restaurant, Insert, Insertable, End, Holds
  <2>2. RowsOK(cuisineTypes, requests, rows') /\ MappingsOK(mappings, cuisineTypes, requests, rows')
    BY <2>1, MoreRows DEF CuisinesInv
  <2>3. m \in MappingRows(rows')
    BY <1>0, <2>1 DEF Mapping, MappingRows, RowsOK
  <2>4. Resolves(m, cuisineTypes, requests)
    BY <2>1 DEF Mapping, Resolves, IsCuisine
  <2>5. MappingsOK(mappings \union {m}, cuisineTypes, requests, rows')
    BY <2>1, <2>2, <2>3, <2>4, Insertion DEF Mapping
  <2> QED
    BY <2>1, <2>2, <2>5, AllHold, NothingHeld DEF CuisinesInv
<1>6. CASE set_primary_cuisine_for_restaurant(s)
  BY <1>6, PrimaryKeeps
<1>7. CASE demote_primary_cuisine(s)
  <2>1. /\ mappings' = Demoted(job[s].old) /\ job' = [job EXCEPT ![s] = Idle] /\ rows' = rows
        /\ cuisineTypes' = cuisineTypes /\ requests' = requests
    BY <1>7 DEF demote_primary_cuisine, End
  <2>2. MappingsOK(mappings', cuisineTypes, requests, rows)
    BY <2>1, DemotedOK
  <2> QED
    BY <2>1, <2>2, AllHold, NothingHeld DEF CuisinesInv
<1>8. CASE CuisineConflict(s)
  BY <1>8, RefusalStays DEF CuisineConflict
<1>9. CASE remove_cuisine_from_restaurant(s) \/ cancel_pending_cuisine_request(s)
  <2>1. /\ mappings' \subseteq mappings /\ job' = [job EXCEPT ![s] = Idle] /\ rows' = rows
        /\ cuisineTypes' = cuisineTypes /\ requests' = requests
    BY <1>9 DEF remove_cuisine_from_restaurant, cancel_pending_cuisine_request, Unmapped, End
  <2>2. MappingsOK(mappings', cuisineTypes, requests, rows)
    BY <2>1, Removal DEF CuisinesInv
  <2> QED
    BY <2>1, <2>2, AllHold, NothingHeld DEF CuisinesInv
<1> QED
  BY <1>1, <1>2, <1>3, <1>4, <1>5, <1>6, <1>7, <1>8, <1>9 DEF OwnerCuisine

LEMMA AdminKeeps ==
    ASSUME CuisinesInv, NEW s \in Sessions, AdminCuisine(s)
    PROVE  CuisinesInv'
<1> USE DEF NULL
<1>0. /\ Holds(job[s], rows) /\ RowsOK(cuisineTypes, requests, rows)
      /\ MappingsOK(mappings, cuisineTypes, requests, rows)
  BY DEF CuisinesInv
<1>1. ASSUME NEW q \in requests, ApproveRead(s, q) \/ RejectRead(s, q) PROVE CuisinesInv'
  <2>1. Holds([op |-> "approve", request |-> q], rows) /\ Holds([op |-> "reject", request |-> q], rows)
    BY <1>0 DEF Holds, RowsOK
  <2> QED
    BY <1>1, <2>1, TablesStay DEF ApproveRead, RejectRead, Loads, Begin, cuisineVars
<1>2. ASSUME NEW c \in cuisineTypes, RevokeRead(s, c) PROVE CuisinesInv'
  <2>1. Holds([op |-> "revoke", cuisine |-> c], rows)
    BY DEF Holds
  <2> QED
    BY <1>2, <2>1, TablesStay DEF RevokeRead, Loads, Begin, cuisineVars
<1>3. CASE approve_pending_cuisine(s)
  <2> DEFINE x == job[s].request
             moved == {IF m.request = x.id THEN [m EXCEPT !.cuisine = rows + 1, !.request = NULL]
                                           ELSE m : m \in mappings}
             C == cuisineTypes \union {[id |-> rows + 1, slug |-> x.slug]}
  <2>1. /\ mappings' = moved /\ cuisineTypes' = C /\ requests' = requests \ {x}
        /\ rows' = rows + 1 /\ job' = [job EXCEPT ![s] = [op |-> "forget"]]
    BY <1>3 DEF approve_pending_cuisine, Continue
  <2>2. x \in [id : 1..rows, slug : Slugs]
    BY <1>0, <1>3 DEF approve_pending_cuisine, Holds
  <2>3. MappingsOK(moved, C, requests \ {x}, rows + 1)
    BY <1>0, <2>2, Approval
  <2>4. RowsOK(C, requests \ {x}, rows + 1)
    <3>1. RowsOK(cuisineTypes, requests, rows + 1)
      BY <1>0, MoreRows
    <3> QED
      BY <1>0, <2>2, <3>1 DEF RowsOK
  <2> HIDE DEF moved, C, x
  <2> QED
    BY <2>1, <2>3, <2>4, AllHold, NothingHeld DEF CuisinesInv
<1>4. CASE ApproveConflict(s) \/ RevokeFails(s)
  BY <1>4, RefusalStays DEF ApproveConflict, RevokeFails
<1>5. CASE reject_pending_cuisine(s)
  <2> DEFINE x == job[s].request
             kept == {m \in mappings : m.request # x.id}
  <2>1. /\ mappings' = kept /\ requests' = requests \ {x} /\ rows' = rows
        /\ cuisineTypes' = cuisineTypes /\ job' = [job EXCEPT ![s] = [op |-> "forget"]]
    BY <1>5 DEF reject_pending_cuisine, Continue
  <2>2. MappingsOK(kept, cuisineTypes, requests, rows)
    BY <1>0, Removal
  <2>3. \A m \in kept : Resolves(m, cuisineTypes, requests \ {x})
    BY <2>2 DEF MappingsOK, Resolves
  <2>4. MappingsOK(kept, cuisineTypes, requests \ {x}, rows)
    BY <2>2, <2>3 DEF MappingsOK
  <2>5. RowsOK(cuisineTypes, requests \ {x}, rows)
    BY <1>0 DEF RowsOK
  <2> QED
    BY <2>1, <2>4, <2>5, AllHold, NothingHeld DEF CuisinesInv
<1>6. CASE revoke_approved_cuisine(s)
  <2> DEFINE x == job[s].cuisine
             kept == {m \in mappings : m.cuisine # x.id}
  <2>1. /\ mappings' = kept /\ cuisineTypes' = cuisineTypes \ {x} /\ rows' = rows
        /\ requests' = requests /\ job' = [job EXCEPT ![s] = [op |-> "forget"]]
    BY <1>6 DEF revoke_approved_cuisine, Continue
  <2>2. MappingsOK(kept, cuisineTypes, requests, rows)
    BY <1>0, Removal
  <2>3. \A m \in kept : Resolves(m, cuisineTypes \ {x}, requests)
    BY <2>2 DEF MappingsOK, Resolves
  <2>4. MappingsOK(kept, cuisineTypes \ {x}, requests, rows)
    BY <2>2, <2>3 DEF MappingsOK
  <2>5. RowsOK(cuisineTypes \ {x}, requests, rows)
    BY <1>0 DEF RowsOK
  <2> QED
    BY <2>1, <2>4, <2>5, AllHold, NothingHeld DEF CuisinesInv
<1>7. CASE ForgetList(s)
  BY <1>7, TablesStay, NothingHeld DEF ForgetList, End
<1> QED
  BY <1>1, <1>2, <1>3, <1>4, <1>5, <1>6, <1>7 DEF AdminCuisine

LEMMA ListKeeps ==
    ASSUME CuisinesInv, NEW s \in Sessions, ListStep(s)
    PROVE  CuisinesInv'
<1>1. CASE ListRead(s)
  <2>1. Holds([op |-> "list", shown |-> cuisineTypes], rows)
    BY DEF Holds, CuisinesInv, RowsOK
  <2> QED
    BY <1>1, <2>1, TablesStay DEF ListRead, Loads, Begin, cuisineVars
<1>2. CASE StoreList(s)
  BY <1>2, TablesStay, NothingHeld DEF StoreList, End
<1> QED
  BY <1>1, <1>2 DEF ListStep

-----------------------------------------------------------------------------
LEMMA InitCuisines == CuisinesInit => CuisinesInv
<1> SUFFICES ASSUME CuisinesInit PROVE CuisinesInv
  OBVIOUS
<1>1. PICK seeded \in SUBSET [id : Nat \ {NULL}, slug : Slugs] :
          /\ IsFiniteSet(seeded) /\ \A c \in seeded : c.id <= Cardinality(seeded)
          /\ NoCuisines(seeded)
  BY DEF CuisinesInit
<1>2. rows = Cardinality(seeded) /\ rows \in Nat
  BY <1>1, FS_CardinalityType DEF NoCuisines
<1>3. RowsOK(cuisineTypes, requests, rows)
  <2>1. \A c \in seeded : c \in [id : 1..rows, slug : Slugs]
    BY <1>1, <1>2 DEF NULL
  <2> QED
    BY <1>1, <1>2, <2>1 DEF NoCuisines, RowsOK
<1>4. MappingsOK(mappings, cuisineTypes, requests, rows)
  BY <1>1 DEF NoCuisines, MappingsOK, Distinct
<1>5. JobsAreFunction /\ \A s \in Sessions : Holds(job[s], rows)
  BY NothingHeld DEF CuisinesInit, JobsAreFunction
<1> QED
  BY <1>3, <1>4, <1>5 DEF CuisinesInv

LEMMA NextKeepsCuisines == CuisinesInv /\ [CuisinesNext]_<<job, cuisineVars>> => CuisinesInv'
<1> SUFFICES ASSUME CuisinesInv, [CuisinesNext]_<<job, cuisineVars>> PROVE CuisinesInv'
  OBVIOUS
<1>1. CASE \E s \in Sessions : RequestStep(s) \/ OwnerCuisine(s) \/ AdminCuisine(s) \/ ListStep(s)
  BY <1>1, RequestKeeps, OwnerKeeps, AdminKeeps, ListKeeps
<1>2. CASE ListExpires
  BY <1>2 DEF ListExpires, CuisinesInv, JobsAreFunction
<1>3. CASE UNCHANGED <<job, cuisineVars>>
  BY <1>3 DEF cuisineVars, CuisinesInv, JobsAreFunction
<1> QED
  BY <1>1, <1>2, <1>3 DEF CuisinesNext

LEMMA CuisinesKeep == CuisinesSpec => []CuisinesInv
BY InitCuisines, NextKeepsCuisines, PTL DEF CuisinesSpec

LEMMA MappingsKept == CuisinesInv => MappingsResolve
BY DEF CuisinesInv, MappingsOK, Resolves, MappingsResolve, IsCuisine, IsRequest

(* For any restaurants, names and administrators: a mapping always names   *)
(* one row that exists, a pending request or an approved cuisine           *)
(* (approve_pending_cuisine, reject_pending_cuisine,                       *)
(* revoke_approved_cuisine).                                               *)
THEOREM MappingsAlwaysResolve == CuisinesSpec => []MappingsResolve
BY MappingsKept, CuisinesKeep, PTL

LEMMA OnePrimaryKept == CuisinesInv => OnePrimaryCuisine
<1> SUFFICES ASSUME CuisinesInv, NEW k \in Kitchens
             PROVE  /\ Cardinality(Primary(k)) <= 1
                    /\ \A m \in Primary(k) : Approved(m)
                    /\ \A m, n \in mappings : m.kitchen = k /\ n.kitchen = k /\ Approved(m)
                                               /\ m.cuisine = n.cuisine => m = n
  BY DEF OnePrimaryCuisine
<1>1. \A m, n \in Primary(k) : m = n
  BY DEF CuisinesInv, MappingsOK, Distinct, Primary
<1>2. Cardinality(Primary(k)) <= 1
  <2>1. CASE Primary(k) = {}
    BY <2>1, FS_EmptySet
  <2>2. CASE Primary(k) # {}
    <3>1. PICK m : Primary(k) = {m}
      BY <1>1, <2>2
    <3>2. Cardinality({m}) = 1
      BY FS_Singleton
    <3> QED
      BY <3>1, <3>2
  <2> QED
    BY <2>1, <2>2
<1> QED
  BY <1>2 DEF CuisinesInv, MappingsOK, Distinct, Primary, Approved

(* A restaurant never has two primary cuisines, nor a pending one          *)
(* (set_primary_cuisine_for_restaurant, demote_primary_cuisine and         *)
(* uq_restaurant_one_primary_cuisine).                                     *)
THEOREM PrimaryIsOne == CuisinesSpec => []OnePrimaryCuisine
BY OnePrimaryKept, CuisinesKeep, PTL

(* What the types add to CuisinesInv: the history and the stored list name *)
(* rows that were handed out.                                              *)
ListFits ==
    /\ history \subseteq 1..rows
    /\ UNION listCached \subseteq [id : 1..rows, slug : Slugs] /\ \A x, y \in listCached : x = y

LEMMA TypesOfCuisines == CuisinesInv /\ ListFits => CuisinesTypeOK
<1> SUFFICES ASSUME CuisinesInv, ListFits PROVE CuisinesTypeOK
  OBVIOUS
<1>1. Cardinality(listCached) <= 1
  <2>1. CASE listCached = {}
    BY <2>1, FS_EmptySet
  <2>2. CASE listCached # {}
    <3>1. PICK x : listCached = {x}
      BY <2>2 DEF ListFits
    <3>2. Cardinality({x}) = 1
      BY FS_Singleton
    <3> QED
      BY <3>1, <3>2
  <2> QED
    BY <2>1, <2>2
<1> QED
  BY <1>1 DEF CuisinesTypeOK, CuisinesInv, RowsOK, MappingsOK, MappingRows, ListFits

LEMMA NextKeepsList ==
    CuisinesInv /\ ListFits /\ [CuisinesNext]_<<job, cuisineVars>> => ListFits'
<1> SUFFICES ASSUME CuisinesInv, ListFits, [CuisinesNext]_<<job, cuisineVars>> PROVE ListFits'
  OBVIOUS
<1> USE DEF cuisineVars
<1>1. rows \in Nat /\ \A s \in Sessions : Holds(job[s], rows)
  BY DEF CuisinesInv, RowsOK
<1>2. ASSUME rows' \in {rows, rows + 1}, UNCHANGED <<history, listCached>> PROVE ListFits'
  <2>1. 1..rows \subseteq 1..rows'
    BY <1>1, <1>2
  <2>2. [id : 1..rows, slug : Slugs] \subseteq [id : 1..rows', slug : Slugs]
    BY <2>1
  <2> QED
    BY <1>2, <2>1, <2>2 DEF ListFits
<1>3. ASSUME NEW s \in Sessions, RequestStep(s) PROVE ListFits'
  BY <1>2, <1>3 DEF RequestStep, RequestRead, Loads, PendingRead, CreateRequest, request_new_cuisine,
     Insert, RequestConflict, Refused
<1>4. ASSUME NEW s \in Sessions, OwnerCuisine(s) PROVE ListFits'
  BY <1>2, <1>4 DEF OwnerCuisine, AddCuisineRead, PrimaryRead, DemoteRead, RemoveCuisineRead, CancelRead,
     Loads, upload_cuisine_for_restaurant, Insert, set_primary_cuisine_for_restaurant,
     demote_primary_cuisine, CuisineConflict, Refused, remove_cuisine_from_restaurant,
     cancel_pending_cuisine_request, Unmapped
<1>5. ASSUME NEW s \in Sessions, AdminCuisine(s) PROVE ListFits'
  <2>1. CASE reject_pending_cuisine(s)
    <3>1. job[s].request.id \in 1..rows
      BY <1>1, <2>1 DEF reject_pending_cuisine, Holds
    <3> QED
      BY <2>1, <3>1 DEF reject_pending_cuisine, ListFits
  <2>2. CASE ForgetList(s)
    BY <2>2 DEF ForgetList, ListFits
  <2> QED
    BY <1>2, <1>5, <2>1, <2>2 DEF AdminCuisine, ApproveRead, RejectRead, RevokeRead, Loads,
       approve_pending_cuisine, ApproveConflict, revoke_approved_cuisine, RevokeFails, Refused
<1>6. ASSUME NEW s \in Sessions, ListStep(s) PROVE ListFits'
  <2>1. CASE ListRead(s)
    BY <1>2, <2>1 DEF ListRead, Loads
  <2>2. CASE StoreList(s)
    <3>1. job[s].shown \subseteq [id : 1..rows, slug : Slugs]
      BY <1>1, <2>2 DEF StoreList, Holds
    <3> QED
      BY <2>2, <3>1 DEF StoreList, ListFits
  <2> QED
    BY <1>6, <2>1, <2>2 DEF ListStep
<1>7. CASE ListExpires
  BY <1>7 DEF ListExpires, ListFits
<1>8. CASE UNCHANGED <<job, cuisineVars>>
  BY <1>2, <1>8
<1> QED
  BY <1>3, <1>4, <1>5, <1>6, <1>7, <1>8 DEF CuisinesNext

-----------------------------------------------------------------------------
(* The codes.  A handler that confirms holds a mailed code of its purpose, *)
(* and neither that nor that it is spent is ever taken back.               *)
CodeRow == [purpose : Purposes, state : {"none", "unused", "used", "expired"}]

CodesOK ==
    /\ code \in [1..LastCode -> CodeRow]
    /\ codes \in 0..LastCode /\ mailed \subseteq 1..codes

(* A mailed code of this purpose. *)
Issued(n, purpose, m, c) == n \in m /\ c[n].purpose = purpose

Confirms(j, m, c) ==
    /\ j.op = "verify" => Issued(j.code, "EMAIL_VERIFICATION", m, c)
    /\ j.op = "reset" => Issued(j.code, "PASSWORD_RESET", m, c)
    /\ j.op = "send" => j.purpose \in Purposes

AccountsInv ==
    /\ CodesOK /\ CodesAreSpent
    /\ JobsAreFunction /\ \A s \in Sessions : Confirms(job[s], mailed, code)

(* Mails and codes only add up, whatever a handler holds. *)
LEMMA CodesAddUp ==
    ASSUME AccountsInv, CodesOK', mailed \subseteq mailed',
           \A n \in 1..codes : /\ code'[n].purpose = code[n].purpose
                               /\ code[n].state = "used" => code'[n].state = "used",
           NEW s \in Sessions, NEW j, job' = [job EXCEPT ![s] = j], Confirms(j, mailed', code'),
           verifiedBy' = verifiedBy \/ (verifiedBy' \in mailed'
               /\ code'[verifiedBy'] = [purpose |-> "EMAIL_VERIFICATION", state |-> "used"]),
           passwordBy' = passwordBy \/ (passwordBy' \in mailed'
               /\ code'[passwordBy'] = [purpose |-> "PASSWORD_RESET", state |-> "used"])
    PROVE  AccountsInv'
<1> USE DEF AccountsInv
<1>1. JobsAreFunction' /\ job'[s] = j /\ \A t \in Sessions \ {s} : job'[t] = job[t]
  BY Turns
<1>2. \A t \in Sessions : Confirms(job[t], mailed', code')
  BY DEF Confirms, Issued, CodesOK
<1>3. \A t \in Sessions : Confirms(job'[t], mailed', code')
  BY <1>1, <1>2
<1>4. \A n \in mailed, p \in Purposes :
          code[n] = [purpose |-> p, state |-> "used"] => code'[n] = [purpose |-> p, state |-> "used"]
  <2> SUFFICES ASSUME NEW n \in mailed, NEW p \in Purposes,
                      code[n] = [purpose |-> p, state |-> "used"]
               PROVE  code'[n] = [purpose |-> p, state |-> "used"]
    OBVIOUS
  <2>1. n \in 1..codes /\ n \in 1..LastCode
    BY AccountsAssumption DEF CodesOK
  <2>2. code'[n] \in CodeRow
    BY <2>1 DEF CodesOK
  <2>3. code'[n].purpose = p /\ code'[n].state = "used"
    BY <2>1
  <2> QED
    BY <2>2, <2>3 DEF CodeRow
<1>5. verifiedBy' # 0 => /\ verifiedBy' \in mailed'
                         /\ code'[verifiedBy'] = [purpose |-> "EMAIL_VERIFICATION", state |-> "used"]
  BY <1>4 DEF CodesAreSpent, Purposes
<1>6. passwordBy' # 0 => /\ passwordBy' \in mailed'
                         /\ code'[passwordBy'] = [purpose |-> "PASSWORD_RESET", state |-> "used"]
  BY <1>4 DEF CodesAreSpent, Purposes
<1> QED
  BY <1>1, <1>3, <1>5, <1>6 DEF CodesAreSpent

(* A handler that reads, is refused or registers somebody. *)
LEMMA CodesStay ==
    ASSUME AccountsInv, NEW s \in Sessions, NEW j, job' = [job EXCEPT ![s] = j],
           Confirms(j, mailed, code), UNCHANGED otpVars
    PROVE  AccountsInv'
<1>1. /\ code' = code /\ codes' = codes /\ mailed' = mailed
      /\ verifiedBy' = verifiedBy /\ passwordBy' = passwordBy
  BY DEF otpVars
<1>2. CodesOK'
  BY <1>1 DEF AccountsInv, CodesOK
<1> QED
  BY <1>1, <1>2, CodesAddUp

LEMMA IssueKeeps ==
    ASSUME AccountsInv, NEW s \in Sessions, NEW purpose \in Purposes, IssueCode(s, purpose)
    PROVE  AccountsInv'
<1> USE AccountsAssumption DEF AccountsInv
<1> DEFINE Issue(n) == IF n = codes + 1 THEN [purpose |-> purpose, state |-> "unused"]
                       ELSE IF n \in job[s].unused THEN [code[n] EXCEPT !.state = "used"] ELSE code[n]
<1>1. /\ code' = [n \in 1..LastCode |-> Issue(n)]
      /\ codes' = codes + 1 /\ codes < LastCode /\ mailed' \in {mailed, mailed \union {codes + 1}}
      /\ verifiedBy' = verifiedBy /\ passwordBy' = passwordBy
      /\ job' = [job EXCEPT ![s] = Idle]
  BY DEF IssueCode, End
<1>2. \A n \in 1..LastCode : code[n] \in CodeRow
  BY DEF CodesOK
<1>3. \A n \in 1..LastCode : /\ Issue(n) \in CodeRow
                             /\ n # codes + 1 => /\ Issue(n).purpose = code[n].purpose
                                                 /\ code[n].state = "used" => Issue(n).state = "used"
  BY <1>2 DEF CodeRow
<1> HIDE DEF Issue
<1>4. CodesOK'
  BY <1>1, <1>3 DEF CodesOK
<1>5. \A n \in 1..codes : /\ code'[n].purpose = code[n].purpose
                          /\ code[n].state = "used" => code'[n].state = "used"
  BY <1>1, <1>3 DEF CodesOK
<1>6. Confirms(Idle, mailed', code')
  BY DEF Confirms, Idle
<1> QED
  BY <1>1, <1>4, <1>5, <1>6, CodesAddUp

(* The code that is confirmed is spent. *)
LEMMA SpendKeeps ==
    ASSUME AccountsInv, NEW s \in Sessions, NEW n \in mailed, NEW purpose \in Purposes,
           code[n].purpose = purpose, code' = [code EXCEPT ![n].state = "used"], End(s),
           UNCHANGED <<codes, mailed>>,
           \/ purpose = "EMAIL_VERIFICATION" /\ verifiedBy' = n /\ passwordBy' = passwordBy
           \/ purpose = "PASSWORD_RESET" /\ passwordBy' = n /\ verifiedBy' = verifiedBy
    PROVE  AccountsInv'
<1> USE AccountsAssumption DEF AccountsInv
<1>1. n \in 1..LastCode /\ code[n] \in CodeRow
  BY DEF CodesOK
<1>2. [code[n] EXCEPT !.state = "used"] = [purpose |-> purpose, state |-> "used"]
  BY <1>1 DEF CodeRow
<1>3. code'[n] = [purpose |-> purpose, state |-> "used"]
      /\ \A k \in (1..LastCode) \ {n} : code'[k] = code[k]
  BY <1>1, <1>2 DEF CodesOK
<1>4. CodesOK'
  BY <1>1, <1>2 DEF CodesOK, CodeRow
<1>5. Confirms(Idle, mailed', code')
  BY DEF Confirms, Idle
<1>6. \A k \in 1..codes : /\ code'[k].purpose = code[k].purpose
                          /\ code[k].state = "used" => code'[k].state = "used"
  BY <1>3 DEF CodesOK
<1> QED
  BY <1>3, <1>4, <1>5, <1>6, CodesAddUp DEF End

LEMMA InitAccounts == AccountsInit => AccountsInv
<1> SUFFICES ASSUME AccountsInit PROVE AccountsInv
  OBVIOUS
<1>1. CodesOK
  BY AccountsAssumption DEF AccountsInit, NoAccounts, CodesOK, CodeRow, Purposes
<1>2. CodesAreSpent
  BY DEF AccountsInit, NoAccounts, CodesAreSpent
<1>3. JobsAreFunction /\ \A s \in Sessions : Confirms(job[s], mailed, code)
  BY DEF AccountsInit, JobsAreFunction, Confirms, Idle
<1> QED
  BY <1>1, <1>2, <1>3 DEF AccountsInv

LEMMA NextKeepsAccounts == AccountsInv /\ [AccountsNext]_<<job, accountVars>> => AccountsInv'
<1> SUFFICES ASSUME AccountsInv, [AccountsNext]_<<job, accountVars>> PROVE AccountsInv'
  OBVIOUS
<1>1. ASSUME NEW s \in Sessions, NEW u, RegisterRead(s, u) PROVE AccountsInv'
  <2>1. Confirms([op |-> "register", user |-> u], mailed, code)
    BY DEF Confirms
  <2> QED
    BY <1>1, <2>1, CodesStay DEF RegisterRead, Begin, accountVars
<1>2. ASSUME NEW s \in Sessions, create_user(s) \/ UserExists(s) PROVE AccountsInv'
  <2>1. Confirms(Idle, mailed, code)
    BY DEF Confirms, Idle
  <2> QED
    BY <1>2, <2>1, CodesStay DEF create_user, UserExists, End, accountVars
<1>3. ASSUME NEW s \in Sessions, VerificationRead(s) \/ ResetRead(s) PROVE AccountsInv'
  <2>1. PICK purpose \in Purposes : _invalidate_existing_otps(s, purpose)
    BY <1>3 DEF VerificationRead, ResetRead, Purposes
  <2> DEFINE j == [op |-> "send", purpose |-> purpose, unused |-> Unused(purpose)]
  <2>2. job' = [job EXCEPT ![s] = j] /\ UNCHANGED otpVars
    BY <1>3, <2>1 DEF VerificationRead, ResetRead, _invalidate_existing_otps, Begin, accountVars
  <2>3. Confirms(j, mailed, code)
    BY DEF Confirms
  <2> HIDE DEF j
  <2> QED
    BY <2>2, <2>3, CodesStay
<1>4. ASSUME NEW s \in Sessions, send_verification_otp(s) \/ request_password_reset(s)
      PROVE  AccountsInv'
  BY <1>4, IssueKeeps DEF send_verification_otp, request_password_reset, Purposes
<1>5. ASSUME NEW s \in Sessions, NEW n \in 1..codes,
             ConfirmVerificationRead(s, n) \/ ConfirmResetRead(s, n)
      PROVE  AccountsInv'
  <2>1. CASE ConfirmVerificationRead(s, n)
    <3>1. Confirms([op |-> "verify", code |-> n], mailed, code)
      BY <2>1 DEF ConfirmVerificationRead, ConfirmRead, _get_valid_otp_record, Unused, Confirms, Issued
    <3> QED
      BY <2>1, <3>1, CodesStay DEF ConfirmVerificationRead, ConfirmRead, Begin, accountVars
  <2>2. CASE ConfirmResetRead(s, n)
    <3>1. Confirms([op |-> "reset", code |-> n], mailed, code)
      BY <2>2 DEF ConfirmResetRead, ConfirmRead, _get_valid_otp_record, Unused, Confirms, Issued
    <3> QED
      BY <2>2, <3>1, CodesStay DEF ConfirmResetRead, ConfirmRead, Begin, accountVars
  <2> QED
    BY <1>5, <2>1, <2>2
<1>6. ASSUME NEW s \in Sessions, confirm_verification_otp(s) PROVE AccountsInv'
  <2>1. Issued(job[s].code, "EMAIL_VERIFICATION", mailed, code)
    BY <1>6 DEF AccountsInv, Confirms, confirm_verification_otp
  <2> QED
    BY <1>6, <2>1, SpendKeeps DEF confirm_verification_otp, Issued, Purposes
<1>7. ASSUME NEW s \in Sessions, confirm_password_reset(s) PROVE AccountsInv'
  <2>1. Issued(job[s].code, "PASSWORD_RESET", mailed, code)
    BY <1>7 DEF AccountsInv, Confirms, confirm_password_reset
  <2> QED
    BY <1>7, <2>1, SpendKeeps DEF confirm_password_reset, Issued, Purposes
<1>8. ASSUME NEW n \in 1..codes, CodeExpires(n) PROVE AccountsInv'
  <2> USE AccountsAssumption DEF AccountsInv
  <2>1. /\ code' = [code EXCEPT ![n].state = "expired"] /\ code[n].state = "unused"
        /\ codes' = codes /\ mailed' = mailed /\ job' = job
        /\ verifiedBy' = verifiedBy /\ passwordBy' = passwordBy
    BY <1>8 DEF CodeExpires
  <2>2. n \in 1..LastCode /\ code[n] \in CodeRow
    BY DEF CodesOK
  <2>3. CodesOK'
    BY <2>1, <2>2 DEF CodesOK, CodeRow
  <2>4. \A k \in 1..LastCode : /\ code'[k].purpose = code[k].purpose
                               /\ code[k].state # "unused" => code'[k] = code[k]
    BY <2>1, <2>2 DEF CodesOK, CodeRow
  <2>5. mailed \subseteq 1..LastCode
    BY DEF CodesOK
  <2>6. \A s \in Sessions : Confirms(job[s], mailed, code')
    BY <2>4, <2>5 DEF Confirms, Issued
  <2>7. CodesAreSpent'
    BY <2>1, <2>4, <2>5 DEF CodesAreSpent
  <2> QED
    BY <2>1, <2>3, <2>6, <2>7 DEF JobsAreFunction
<1>9. CASE UNCHANGED <<job, accountVars>>
  BY <1>9 DEF accountVars, otpVars, AccountsInv, CodesOK, CodesAreSpent, JobsAreFunction
<1> QED
  BY <1>1, <1>2, <1>3, <1>4, <1>5, <1>6, <1>7, <1>8, <1>9 DEF AccountsNext, CodeStep

(* For any number of codes and requests: the verified flag and the present *)
(* password rest on a mailed code of their purpose that is spent           *)
(* (confirm_verification_otp, confirm_password_reset).                     *)
THEOREM SpentCodes == AccountsSpec => []CodesAreSpent
<1>1. AccountsInv => CodesAreSpent
  BY DEF AccountsInv
<1> QED
  BY InitAccounts, NextKeepsAccounts, <1>1, PTL DEF AccountsSpec

(* Who is being registered, and which codes were used last. *)
UsersFit ==
    /\ users \subseteq [name : Names, email : Emails, phone : Phones]
    /\ \A s \in Sessions : job[s].op = "register" =>
            job[s].user \in [name : Names, email : Emails, phone : Phones]

LEMMA TypesOfAccounts == AccountsInv /\ UsersFit => AccountsTypeOK
<1> SUFFICES ASSUME AccountsInv, UsersFit PROVE AccountsTypeOK
  OBVIOUS
<1>1. codes \in Nat /\ mailed \subseteq 1..codes
  BY AccountsAssumption DEF AccountsInv, CodesOK
<1>2. (verifiedBy # 0 => verifiedBy \in mailed) /\ (passwordBy # 0 => passwordBy \in mailed)
  BY DEF AccountsInv, CodesAreSpent
<1>3. verifiedBy \in 0..codes /\ passwordBy \in 0..codes
  <2>1. \A n \in mailed : n \in 0..codes
    BY <1>1
  <2>2. 0 \in 0..codes
    BY <1>1
  <2> QED
    BY <1>2, <2>1, <2>2
<1> QED
  BY <1>3 DEF AccountsTypeOK, AccountsInv, CodesOK, CodeRow, UsersFit

LEMMA NextKeepsUsers ==
    AccountsInv /\ UsersFit /\ [AccountsNext]_<<job, accountVars>> => UsersFit'
<1> SUFFICES ASSUME AccountsInv, UsersFit, [AccountsNext]_<<job, accountVars>> PROVE UsersFit'
  OBVIOUS
<1> DEFINE People == [name : Names, email : Emails, phone : Phones]
<1> USE DEF accountVars
<1>1. ASSUME NEW s \in Sessions, NEW j, job' = [job EXCEPT ![s] = j],
             j.op = "register" => j.user \in People, users' \subseteq People
      PROVE  UsersFit'
  BY <1>1, Turns DEF UsersFit, AccountsInv
<1>2. Idle.op # "register" /\ users \subseteq People
  BY DEF Idle, UsersFit
<1>3. ASSUME NEW s \in Sessions, NEW u \in People, RegisterRead(s, u) PROVE UsersFit'
  <2>1. [op |-> "register", user |-> u].user \in People
    OBVIOUS
  <2> QED
    BY <1>1, <1>2, <1>3, <2>1 DEF RegisterRead, Begin
<1>4. ASSUME NEW s \in Sessions, create_user(s) PROVE UsersFit'
  <2>1. job[s].user \in People
    BY <1>4 DEF create_user, UsersFit
  <2> QED
    BY <1>1, <1>2, <1>4, <2>1 DEF create_user, End
<1>5. ASSUME NEW s \in Sessions, UserExists(s) PROVE UsersFit'
  BY <1>1, <1>2, <1>5 DEF UserExists, End
<1>6. ASSUME NEW s \in Sessions, VerificationRead(s) \/ ResetRead(s) PROVE UsersFit'
  <2>1. \A p : [op |-> "send", purpose |-> p, unused |-> Unused(p)].op # "register"
    OBVIOUS
  <2> QED
    BY <1>1, <1>2, <1>6, <2>1 DEF VerificationRead, ResetRead, _invalidate_existing_otps, Begin
<1>7. ASSUME NEW s \in Sessions, NEW n, ConfirmVerificationRead(s, n) \/ ConfirmResetRead(s, n)
      PROVE  UsersFit'
  <2>1. [op |-> "verify", code |-> n].op # "register" /\ [op |-> "reset", code |-> n].op # "register"
    OBVIOUS
  <2> QED
    BY <1>1, <1>2, <1>7, <2>1 DEF ConfirmVerificationRead, ConfirmResetRead, ConfirmRead, Begin
<1>8. ASSUME NEW s \in Sessions,
             \/ send_verification_otp(s) \/ request_password_reset(s)
             \/ confirm_verification_otp(s) \/ confirm_password_reset(s)
      PROVE  UsersFit'
  BY <1>1, <1>2, <1>8 DEF send_verification_otp, request_password_reset, IssueCode,
     confirm_verification_otp, confirm_password_reset, End
<1>9. CASE (\E n \in 1..codes : CodeExpires(n)) \/ UNCHANGED <<job, accountVars>>
  BY <1>9 DEF CodeExpires, UsersFit
<1> QED
  BY <1>3, <1>4, <1>5, <1>6, <1>7, <1>8, <1>9 DEF AccountsNext, CodeStep

-----------------------------------------------------------------------------
(* The parts side by side, as the run composes them: the part of the scene *)
(* keeps its own inductive invariant, the others stand still where they    *)
(* began.                                                                  *)
CuisineScenes == {"cuisines", "cuisine list"}
ApplicationScenes == {"partners", "riders"}
AccountScenes == {"registration", "codes"}
ReviewScenes == {"restaurant reviews", "other reviews"}

CuisinePart == IF scene \in CuisineScenes THEN CuisinesInv /\ ListFits ELSE NoCuisines(Seeded)
ApplicationPart == IF scene \in ApplicationScenes THEN ApplicationsInv ELSE NoApplications
AccountPart == IF scene \in AccountScenes THEN AccountsInv /\ UsersFit ELSE NoAccounts
ReviewPart == IF scene \in ReviewScenes THEN ReviewsInv /\ OneEach /\ PagesFit ELSE NoReviews
RealtimePart == IF scene = "realtime" THEN RealtimeInv /\ SocketsSpent ELSE NoSockets
AddressPart == IF scene = "addresses" THEN AddressesInv /\ AddressesTypeOK ELSE NoAddresses
WalkPart == IF scene = "feed" THEN DiscoveryInv ELSE NoWalk

BackofficeInv ==
    /\ CuisinePart /\ ApplicationPart /\ AccountPart
    /\ ReviewPart /\ RealtimePart /\ AddressPart /\ WalkPart
    /\ distance \in Nat

LEMMA ScenesStep ==
    ASSUME [SceneNext]_vars
    PROVE  /\ scene' = scene
           /\ IF scene \in CuisineScenes THEN [CuisinesNext]_<<job, cuisineVars>> ELSE UNCHANGED cuisineVars
           /\ IF scene \in ApplicationScenes
                THEN [ApplicationsNext]_<<job, applicationVars>> ELSE UNCHANGED applicationVars
           /\ IF scene \in AccountScenes THEN [AccountsNext]_<<job, accountVars>> ELSE UNCHANGED accountVars
           /\ IF scene \in ReviewScenes THEN [ReviewsNext]_<<job, reviewVars>> ELSE UNCHANGED reviewVars
           /\ IF scene = "realtime" THEN [RealtimeStep]_<<job, realtimeVars>> ELSE UNCHANGED realtimeVars
           /\ IF scene = "addresses" THEN [AddressesNext]_<<job, addressVars>> ELSE UNCHANGED addressVars
           /\ IF scene = "feed" THEN [DiscoveryNext]_discoveryVars ELSE UNCHANGED discoveryVars
           /\ IF scene = "fee" THEN [Farther]_distance ELSE UNCHANGED distance
           /\ \/ scene \in CuisineScenes \union ApplicationScenes \union AccountScenes \union ReviewScenes
              \/ scene \in {"realtime", "addresses"}
              \/ UNCHANGED job
<1> USE DEF vars, office, public, walk, CuisineScenes, ApplicationScenes, AccountScenes, ReviewScenes
<1>1. CASE UNCHANGED vars
  BY <1>1
<1>2. ASSUME NEW s \in Sessions, OfficeStep(s), UNCHANGED <<public, walk>>, UNCHANGED scene
      PROVE  \/ /\ scene \in CuisineScenes /\ CuisinesNext
                /\ UNCHANGED <<applicationVars, accountVars>>
             \/ /\ scene \in ApplicationScenes /\ ApplicationsNext
                /\ UNCHANGED <<cuisineVars, accountVars>>
             \/ /\ scene \in AccountScenes /\ AccountsNext
                /\ UNCHANGED <<cuisineVars, applicationVars>>
  <2>1. ASSUME RequestStep(s) \/ OwnerCuisine(s) \/ AdminCuisine(s) \/ ListStep(s) PROVE CuisinesNext
    BY <2>1 DEF CuisinesNext
  <2>2. ASSUME PartnerStep(s) \/ RideStep(s) PROVE ApplicationsNext
    BY <2>2 DEF ApplicationsNext
  <2>3. ASSUME \/ \E u \in Person : RegisterRead(s, u)
               \/ create_user(s) \/ UserExists(s) \/ CodeStep(s)
        PROVE  AccountsNext
    BY <2>3 DEF AccountsNext, Person
  <2> QED
    BY <1>2, <2>1, <2>2, <2>3 DEF OfficeStep
<1>3. ASSUME NEW s \in Sessions, PublicStep(s), UNCHANGED <<office, walk>>, UNCHANGED scene
      PROVE  \/ /\ scene \in ReviewScenes /\ ReviewsNext
                /\ UNCHANGED <<realtimeVars, addressVars>>
             \/ /\ scene = "addresses" /\ AddressesNext
                /\ UNCHANGED <<reviewVars, realtimeVars>>
  <2>1. ASSUME NEW types \in SUBSET RevieweeTypes, NEW given \in SUBSET Ratings, ReviewStep(s, types, given)
        PROVE  ReviewStep(s, RevieweeTypes, Ratings)
    BY <2>1 DEF ReviewStep
  <2>2. {"RESTAURANT"} \subseteq RevieweeTypes /\ {"RIDER", "CUSTOMER"} \subseteq RevieweeTypes
        /\ {5} \subseteq Ratings
    BY SceneAssumption DEF RevieweeTypes, Rated
  <2> QED
    BY <1>3, <2>1, <2>2 DEF PublicStep, ReviewsNext, AddressesNext
<1>4. CASE SceneNext
  <2>1. CASE \E s \in Sessions : OfficeStep(s) /\ UNCHANGED <<public, walk>>
    BY <1>2, <1>4, <2>1 DEF SceneNext
  <2>2. CASE \E s \in Sessions : PublicStep(s) /\ UNCHANGED <<office, walk>>
    BY <1>3, <1>4, <2>2 DEF SceneNext
  <2>3. CASE scene = "cuisine list" /\ ListExpires /\ UNCHANGED <<applicationVars, accountVars, public, walk>>
    BY <1>4, <2>3 DEF SceneNext, CuisinesNext
  <2>4. CASE /\ scene = "codes" /\ \E n \in 1..codes : CodeExpires(n)
             /\ UNCHANGED <<cuisineVars, applicationVars, public, walk>>
    BY <1>4, <2>4 DEF SceneNext, AccountsNext
  <2>5. CASE /\ scene = "restaurant reviews" /\ ReviewPageExpires
             /\ UNCHANGED <<office, realtimeVars, addressVars, walk>>
    BY <1>4, <2>5 DEF SceneNext, ReviewsNext
  <2>6. CASE scene = "realtime" /\ RealtimeStep /\ UNCHANGED <<office, reviewVars, addressVars, walk>>
    BY <1>4, <2>6 DEF SceneNext
  <2>7. CASE scene = "feed" /\ DiscoveryNext /\ UNCHANGED <<job, office, public, distance>>
    BY <1>4, <2>7 DEF SceneNext
  <2>8. CASE scene = "fee" /\ Farther /\ UNCHANGED <<job, office, public, discoveryVars>>
    BY <1>4, <2>8 DEF SceneNext
  <2> QED
    BY <1>4, <2>1, <2>2, <2>3, <2>4, <2>5, <2>6, <2>7, <2>8 DEF SceneNext
<1> QED
  BY <1>1, <1>4

(* The other parts stay as they are. *)
LEMMA PartsRest ==
    /\ NoCuisines(Seeded) /\ UNCHANGED cuisineVars => NoCuisines(Seeded)'
    /\ NoApplications /\ UNCHANGED applicationVars => NoApplications'
    /\ NoAccounts /\ UNCHANGED accountVars => NoAccounts'
    /\ NoReviews /\ UNCHANGED reviewVars => NoReviews'
    /\ NoSockets /\ UNCHANGED realtimeVars => NoSockets'
    /\ NoAddresses /\ UNCHANGED addressVars => NoAddresses'
    /\ NoWalk /\ UNCHANGED discoveryVars => NoWalk'
<1>1. NoCuisines(Seeded) /\ UNCHANGED cuisineVars => NoCuisines(Seeded)'
  BY DEF NoCuisines, cuisineVars, Seeded
<1>2. NoApplications /\ UNCHANGED applicationVars => NoApplications'
  BY DEF NoApplications, applicationVars, partnerVars, rideVars
<1>3. NoAccounts /\ UNCHANGED accountVars => NoAccounts'
  BY DEF NoAccounts, accountVars, otpVars
<1>4. NoReviews /\ UNCHANGED reviewVars => NoReviews'
  BY DEF NoReviews, reviewVars
<1>5. NoSockets /\ UNCHANGED realtimeVars => NoSockets'
  BY DEF NoSockets, realtimeVars, socketVars
<1>6. NoAddresses /\ UNCHANGED addressVars => NoAddresses'
  BY DEF NoAddresses, addressVars
<1>7. NoWalk /\ UNCHANGED discoveryVars => NoWalk'
  BY DEF NoWalk, discoveryVars, shopVars, walkVars, Start, Unshown, Listed
<1> QED
  BY <1>1, <1>2, <1>3, <1>4, <1>5, <1>6, <1>7

LEMMA NextKeepsParts == BackofficeInv /\ [SceneNext]_vars => BackofficeInv'
<1> SUFFICES ASSUME BackofficeInv, [SceneNext]_vars PROVE BackofficeInv'
  OBVIOUS
<1> USE ScenesStep, PartsRest DEF BackofficeInv
<1>1. CuisinePart'
  BY NextKeepsCuisines, NextKeepsList DEF CuisinePart
<1>2. ApplicationPart'
  BY NextKeepsApplications DEF ApplicationPart
<1>3. AccountPart'
  BY NextKeepsAccounts, NextKeepsUsers DEF AccountPart
<1>4. ReviewPart'
  BY NextKeepsReviews, NextKeepsPages DEF ReviewPart
<1>5. RealtimePart'
  BY NextKeepsRealtime, NextKeepsSpent DEF RealtimePart
<1>6. AddressPart'
  BY NextKeepsAddresses, NextTypesAddresses DEF AddressPart
<1>7. WalkPart'
  BY NextKeepsDiscovery DEF WalkPart
<1>8. (distance \in Nat)'
  BY NextKeepsFee
<1> QED
  BY <1>1, <1>2, <1>3, <1>4, <1>5, <1>6, <1>7, <1>8

LEMMA InitParts == Init => BackofficeInv
<1> SUFFICES ASSUME Init PROVE BackofficeInv
  OBVIOUS
<1>0. /\ job = [s \in Sessions |-> Idle]
      /\ NoCuisines(Seeded) /\ NoApplications /\ NoAccounts /\ NoReviews /\ NoSockets /\ NoAddresses
      /\ IF scene = "feed" THEN DiscoveryInit ELSE NoWalk
      /\ distance \in Nat
  <2>1. CASE NoWalk /\ distance = 0 /\ scene # "feed"
    BY <2>1 DEF Init
  <2>2. CASE scene = "feed" /\ DiscoveryInit /\ distance = 0
    BY <2>2 DEF Init
  <2>3. CASE scene = "fee" /\ NoWalk /\ PricingInit
    BY <2>3, InitFee DEF Init
  <2> QED
    BY <2>1, <2>2, <2>3 DEF Init
<1>1. CuisinePart
  <2>1. CuisinesInit
    <3>1. Seeded \in SUBSET [id : Nat \ {NULL}, slug : Slugs] /\ \A c \in Seeded : c.id = 1
      BY SceneAssumption DEF Seeded, NULL
    <3>2. IsFiniteSet(Seeded) /\ Cardinality(Seeded) = 1
      BY FS_Singleton DEF Seeded
    <3> QED
      BY <1>0, <3>1, <3>2 DEF CuisinesInit
  <2>2. ListFits
    BY <1>0 DEF NoCuisines, ListFits
  <2> QED
    BY <1>0, <2>1, <2>2, InitCuisines DEF CuisinePart
<1>2. ApplicationPart
  BY <1>0, InitApplications DEF ApplicationsInit, ApplicationPart
<1>3. AccountPart
  <2>1. UsersFit
    BY <1>0 DEF NoAccounts, UsersFit, Idle
  <2> QED
    BY <1>0, <2>1, InitAccounts DEF AccountsInit, AccountPart
<1>4. ReviewPart
  <2>1. OneEach /\ PagesFit
    BY <1>0 DEF NoReviews, OneEach, PagesFit, Idle
  <2> QED
    BY <1>0, <2>1, InitReviews DEF ReviewsInit, ReviewPart
<1>5. RealtimePart
  <2>1. SocketsSpent
    BY <1>0, FS_EmptySet DEF NoSockets, SocketsSpent
  <2> QED
    BY <1>0, <2>1, InitRealtime DEF RealtimeInit, RealtimePart
<1>6. AddressPart
  <2>1. AddressesTypeOK
    BY <1>0 DEF NoAddresses, AddressesTypeOK
  <2> QED
    BY <1>0, <2>1, InitAddresses DEF AddressesInit, AddressPart
<1>7. WalkPart
  BY <1>0, InitDiscovery DEF WalkPart
<1> QED
  BY <1>0, <1>1, <1>2, <1>3, <1>4, <1>5, <1>6, <1>7 DEF BackofficeInv

LEMMA BackofficeKeeps == Spec => []BackofficeInv
BY InitParts, NextKeepsParts, PTL DEF Spec

(* In every scene of the back office the rows, counters and jobs of all    *)
(* seven parts stay within their columns, for any sets of sessions, rows,  *)
(* sockets, orders and restaurants (admins, rider_applications, users,     *)
(* reviews, notifications, discovery).                                     *)
THEOREM BackofficeTypes == Spec => []TypeOK
<1>1. BackofficeInv => TypeOK
  <2> SUFFICES ASSUME BackofficeInv PROVE TypeOK
    OBVIOUS
  <2> USE DEF BackofficeInv
  <2>1. CuisinesTypeOK
    <3>1. CASE NoCuisines(Seeded)
      <4>1. rows = 1 /\ Cardinality(listCached) = 0 /\ UNION listCached = {} /\ history = {}
        BY <3>1, FS_Singleton, FS_EmptySet DEF NoCuisines, Seeded
      <4>2. cuisineTypes = {[id |-> 1, slug |-> "thai"]} /\ requests = {} /\ mappings = {}
        BY <3>1 DEF NoCuisines, Seeded
      <4>3. [id |-> 1, slug |-> "thai"] \in [id : 1..rows, slug : Slugs]
        BY <4>1, SceneAssumption
      <4> QED
        BY <4>1, <4>2, <4>3 DEF CuisinesTypeOK
    <3> QED
      BY <3>1, TypesOfCuisines DEF CuisinePart
  <2>2. ApplicationsTypeOK
    BY DEF ApplicationPart, ApplicationsInv, NoApplications, ApplicationsTypeOK, PartnerStatus
  <2>3. AccountsTypeOK
    <3>1. CASE NoAccounts
      BY <3>1, AccountsAssumption DEF NoAccounts, AccountsTypeOK, Purposes
    <3> QED
      BY <3>1, TypesOfAccounts DEF AccountPart
  <2>4. ReviewsTypeOK
    <3>1. CASE NoReviews
      BY <3>1, FS_CardinalityType, ReviewsAssumption DEF NoReviews, ReviewsTypeOK
    <3> QED
      BY <3>1, TypesOfReviews DEF ReviewPart
  <2>5. RealtimeTypeOK
    <3>1. CASE NoSockets
      <4>1. Cardinality(Sockets) \in Nat
        BY FS_CardinalityType, RealtimeAssumption
      <4>2. <<>> \in [1..0 -> spent]
        OBVIOUS
      <4>3. <<>> \in BoundedSeq(spent, Cardinality(Sockets))
        BY <4>1, <4>2 DEF BoundedSeq, SeqOf
      <4> QED
        BY <3>1, <4>1, <4>3 DEF NoSockets, RealtimeTypeOK
    <3> QED
      BY <3>1, TypesOfRealtime DEF RealtimePart
  <2>6. AddressesTypeOK
    BY DEF AddressPart, NoAddresses, AddressesTypeOK
  <2>7. DiscoveryTypeOK
    <3>1. CASE NoWalk
      <4>1. Listed = {} /\ DOMAIN shown = {} /\ stored = {} /\ cursor = Start
        BY <3>1 DEF NoWalk, Unshown, Listed
      <4>2. rating \in [Shops -> Stars] /\ shifts \in [Shops -> 0..MaxShifts]
        BY <3>1, SceneAssumption, DiscoveryAssumption DEF NoWalk
      <4>3. shown \in [DOMAIN shown -> 0..MaxShifts]
        BY <3>1, <4>1 DEF NoWalk, Unshown
      <4> QED
        BY <4>1, <4>2, <4>3 DEF DiscoveryTypeOK, Cursors
    <3> QED
      BY <3>1 DEF WalkPart, DiscoveryInv
  <2> QED
    BY <2>1, <2>2, <2>3, <2>4, <2>5, <2>6, <2>7 DEF TypeOK
<1> QED
  BY <1>1, BackofficeKeeps, PTL

(* Only the handlers of the realtime scene push. *)
Unpushed == JobsAreFunction /\ \A s \in Sessions : job[s].op # "pushed"

LEMMA PlainJob ==
    ASSUME Unpushed, NEW s \in Sessions, NEW j, job' = [job EXCEPT ![s] = j], j.op # "pushed"
    PROVE  Unpushed'
BY Turns DEF Unpushed

LEMMA PlainEnd ==
    ASSUME Unpushed, NEW s \in Sessions, End(s) \/ Continue(s, [op |-> "forget"])
    PROVE  Unpushed'
<1>1. Idle.op # "pushed" /\ [op |-> "forget"].op # "pushed"
  BY DEF Idle
<1> QED
  BY <1>1, PlainJob DEF End, Continue

LEMMA CuisinesUnpushed ==
    ASSUME Unpushed, CuisinesInv, NEW s \in Sessions,
           RequestStep(s) \/ OwnerCuisine(s) \/ AdminCuisine(s) \/ ListStep(s)
    PROVE  Unpushed'
<1>1. ASSUME NEW j, j.op # "pushed", Loads(s, j) \/ Continue(s, j) PROVE Unpushed'
  BY <1>1, PlainJob DEF Loads, Begin, Continue
<1>2. CASE RequestStep(s)
  <2>1. ASSUME NEW k, NEW slug, RequestRead(s, k, slug) PROVE Unpushed'
    <3>1. [op |-> "ask", kitchen |-> k, slug |-> slug].op # "pushed"
      OBVIOUS
    <3> QED
      BY <1>1, <2>1, <3>1 DEF RequestRead
  <2>2. CASE PendingRead(s)
    <3>1. job[s] \in [op : {"ask", "create"}, kitchen : Kitchens, slug : Slugs]
      BY <2>2 DEF PendingRead, CuisinesInv, Holds
    <3>2. [job[s] EXCEPT !.op = "create"].op # "pushed"
      BY <3>1
    <3>3. \A k, id : [op |-> "map", kitchen |-> k, request |-> id].op # "pushed"
      OBVIOUS
    <3> QED
      BY <1>1, <2>2, <3>2, <3>3 DEF PendingRead
  <2>3. CASE CreateRequest(s)
    <3>1. [op |-> "map", kitchen |-> job[s].kitchen, request |-> rows + 1].op # "pushed"
      OBVIOUS
    <3> QED
      BY <1>1, <2>3, <3>1 DEF CreateRequest
  <2>4. CASE request_new_cuisine(s) \/ RequestConflict(s)
    BY <2>4, PlainEnd DEF request_new_cuisine, RequestConflict, Refused
  <2> QED
    BY <1>2, <2>1, <2>2, <2>3, <2>4 DEF RequestStep
<1>3. CASE OwnerCuisine(s)
  <2>1. ASSUME NEW k, NEW c, AddCuisineRead(s, k, c) \/ PrimaryRead(s, k, c) \/ DemoteRead(s, k)
        PROVE  Unpushed'
    <3>1. /\ [op |-> "add", kitchen |-> k, cuisine |-> c.id].op # "pushed"
          /\ \A old : [op |-> "primary", kitchen |-> k, cuisine |-> c.id, old |-> old].op # "pushed"
          /\ \A old : [op |-> "demote", kitchen |-> k, old |-> old].op # "pushed"
      OBVIOUS
    <3> QED
      BY <1>1, <2>1, <3>1 DEF AddCuisineRead, PrimaryRead, DemoteRead
  <2>2. ASSUME NEW m, RemoveCuisineRead(s, m) \/ CancelRead(s, m) PROVE Unpushed'
    <3>1. [op |-> "unmap", mapping |-> m.id].op # "pushed" /\ [op |-> "cancel", mapping |-> m.id].op # "pushed"
      OBVIOUS
    <3> QED
      BY <1>1, <2>2, <3>1 DEF RemoveCuisineRead, CancelRead
  <2>3. ASSUME upload_cuisine_for_restaurant(s) \/ set_primary_cuisine_for_restaurant(s)
               \/ demote_primary_cuisine(s) \/ CuisineConflict(s)
               \/ remove_cuisine_from_restaurant(s) \/ cancel_pending_cuisine_request(s)
        PROVE  Unpushed'
    BY <2>3, PlainEnd DEF upload_cuisine_for_restaurant, set_primary_cuisine_for_restaurant,
       demote_primary_cuisine, CuisineConflict, Refused, remove_cuisine_from_restaurant,
       cancel_pending_cuisine_request, Unmapped
  <2>4. ASSUME NEW k \in Kitchens, DemoteRead(s, k) PROVE Unpushed'
    BY <2>1, <2>4
  <2> QED
    BY <1>3, <2>1, <2>2, <2>3, <2>4 DEF OwnerCuisine
<1>4. CASE AdminCuisine(s)
  <2>1. ASSUME NEW q, ApproveRead(s, q) \/ RejectRead(s, q) \/ RevokeRead(s, q) PROVE Unpushed'
    <3>1. /\ [op |-> "approve", request |-> q].op # "pushed" /\ [op |-> "reject", request |-> q].op # "pushed"
          /\ [op |-> "revoke", cuisine |-> q].op # "pushed"
      OBVIOUS
    <3> QED
      BY <1>1, <2>1, <3>1 DEF ApproveRead, RejectRead, RevokeRead
  <2>2. ASSUME \/ approve_pending_cuisine(s) \/ ApproveConflict(s) \/ reject_pending_cuisine(s)
               \/ revoke_approved_cuisine(s) \/ RevokeFails(s) \/ ForgetList(s)
        PROVE  Unpushed'
    BY <2>2, PlainEnd DEF approve_pending_cuisine, ApproveConflict, reject_pending_cuisine,
       revoke_approved_cuisine, RevokeFails, ForgetList, Refused
  <2> QED
    BY <1>4, <2>1, <2>2 DEF AdminCuisine
<1>5. CASE ListStep(s)
  <2>1. [op |-> "list", shown |-> cuisineTypes].op # "pushed"
    OBVIOUS
  <2> QED
    BY <1>1, <1>5, <2>1, PlainEnd DEF ListStep, ListRead, StoreList
<1> QED
  BY <1>2, <1>3, <1>4, <1>5

LEMMA ApplicationsUnpushed ==
    ASSUME Unpushed, NEW s \in Sessions, PartnerStep(s) \/ RideStep(s)
    PROVE  Unpushed'
<1>1. ASSUME NEW j, j.op # "pushed", Begin(s, j) PROVE Unpushed'
  BY <1>1, PlainJob DEF Begin
<1>2. CASE PartnerStep(s)
  <2>1. /\ [op |-> "apply"].op # "pushed"
        /\ \A a, approve : [op |-> "review", id |-> a, approve |-> approve, role |-> role].op # "pushed"
    OBVIOUS
  <2> QED
    BY <1>1, <1>2, <2>1, PlainEnd DEF PartnerStep, PartnerRead, review_owner_application,
       create_partner_application, DecisionRead
<1>3. CASE RideStep(s)
  <2>1. ASSUME \/ \E status \in CityStatus : CityRead(s, status)
               \/ RideRead(s)
        PROVE  Unpushed'
    <3>1. /\ \A status : [op |-> "city", read |-> city, status |-> status].op # "pushed"
          /\ [op |-> "ride"].op # "pushed"
      OBVIOUS
    <3> QED
      BY <1>1, <2>1, <3>1 DEF CityRead, RideRead
  <2>2. ASSUME NEW a, NEW op \in RideForms, NEW stages, RideLoad(s, a, op, stages) PROVE Unpushed'
    <3>1. [op |-> op, id |-> a, read |-> ride[a]].op # "pushed"
      BY DEF RideForms
    <3> QED
      BY <1>1, <2>2, <3>1 DEF RideLoad
  <2>3. ASSUME NEW a, \/ IdentityRead(s, a) \/ PhotoRead(s, a) \/ VehicleRead(s, a) \/ SubmitRead(s, a)
                      \/ RejectRideRead(s, a) \/ ApproveRideRead(s, a)
        PROVE  Unpushed'
    BY <2>2, <2>3 DEF IdentityRead, PhotoRead, VehicleRead, SubmitRead, FormLoad, RejectRideRead,
       ApproveRideRead, RideForms
  <2>4. ASSUME \/ activate_city(s) \/ inactivate_city(s) \/ CityExists(s) \/ StartFails(s)
               \/ \E a \in Rides : start_application(s, a)
               \/ add_identity_proof(s) \/ add_profile_image(s) \/ add_vehicle_details(s)
               \/ submit_for_review(s) \/ reject_rider_application(s) \/ approve_rider_application(s)
        PROVE  Unpushed'
    BY <2>4, PlainEnd DEF activate_city, inactivate_city, CityCommit, CityExists, StartFails,
       start_application, add_identity_proof, add_profile_image, add_vehicle_details,
       submit_for_review, reject_rider_application, RideCommit, approve_rider_application
  <2> QED
    BY <1>3, <2>1, <2>3, <2>4 DEF RideStep
<1> QED
  BY <1>2, <1>3

LEMMA AccountsUnpushed ==
    ASSUME Unpushed, AccountsNext
    PROVE  Unpushed'
<1>1. ASSUME NEW s \in Sessions, NEW j, j.op # "pushed", Begin(s, j) PROVE Unpushed'
  BY <1>1, PlainJob DEF Begin
<1>2. ASSUME NEW s \in Sessions, NEW u, RegisterRead(s, u) PROVE Unpushed'
  <2>1. [op |-> "register", user |-> u].op # "pushed"
    OBVIOUS
  <2> QED
    BY <1>1, <1>2, <2>1 DEF RegisterRead
<1>3. ASSUME NEW s \in Sessions, VerificationRead(s) \/ ResetRead(s) PROVE Unpushed'
  <2>1. \A p : [op |-> "send", purpose |-> p, unused |-> Unused(p)].op # "pushed"
    OBVIOUS
  <2> QED
    BY <1>1, <1>3, <2>1 DEF VerificationRead, ResetRead, _invalidate_existing_otps
<1>4. ASSUME NEW s \in Sessions, NEW n, ConfirmVerificationRead(s, n) \/ ConfirmResetRead(s, n)
      PROVE  Unpushed'
  <2>1. [op |-> "verify", code |-> n].op # "pushed" /\ [op |-> "reset", code |-> n].op # "pushed"
    OBVIOUS
  <2> QED
    BY <1>1, <1>4, <2>1 DEF ConfirmVerificationRead, ConfirmResetRead, ConfirmRead
<1>5. ASSUME NEW s \in Sessions,
             \/ create_user(s) \/ UserExists(s)
             \/ send_verification_otp(s) \/ request_password_reset(s)
             \/ confirm_verification_otp(s) \/ confirm_password_reset(s)
      PROVE  Unpushed'
  BY <1>5, PlainEnd DEF create_user, UserExists, send_verification_otp, request_password_reset, IssueCode,
     confirm_verification_otp, confirm_password_reset
<1>6. ASSUME NEW n \in 1..codes, CodeExpires(n) PROVE Unpushed'
  BY <1>6 DEF CodeExpires, Unpushed, JobsAreFunction
<1> QED
  BY <1>2, <1>3, <1>4, <1>5, <1>6 DEF AccountsNext, CodeStep

LEMMA PublicUnpushed ==
    ASSUME Unpushed, ReviewsNext \/ AddressesNext
    PROVE  Unpushed'
<1>1. ASSUME NEW s \in Sessions, NEW j, j.op # "pushed", Begin(s, j) PROVE Unpushed'
  BY <1>1, PlainJob DEF Begin
<1>2. ASSUME NEW s \in Sessions, NEW o, NEW t, NEW r, ReviewRead(s, o, t, r) PROVE Unpushed'
  <2>1. \A row, n, a : [op |-> "rate", row |-> row, total |-> n, average |-> a].op # "pushed"
    OBVIOUS
  <2> QED
    BY <1>1, <1>2, <2>1 DEF ReviewRead
<1>3. ASSUME NEW s \in Sessions, submit_review(s) \/ ReviewTwice(s) \/ ForgetReviews(s) \/ StoreReviewPage(s)
      PROVE  Unpushed'
  BY <1>3, PlainEnd DEF submit_review, ReviewTwice, ForgetReviews, StoreReviewPage
<1>4. ASSUME NEW s \in Sessions, ReviewPageRead(s) PROVE Unpushed'
  <2>1. \A n : [op |-> "page", shown |-> n].op # "pushed"
    OBVIOUS
  <2> QED
    BY <1>1, <1>4, <2>1 DEF ReviewPageRead
<1>5. CASE ReviewPageExpires
  BY <1>5 DEF ReviewPageExpires, Unpushed, JobsAreFunction
<1>6. ASSUME NEW s \in Sessions, NEW a, NEW d, AddAddressRead(s, d) \/ UpdateAddressRead(s, a, d)
      PROVE  Unpushed'
  <2>1. \A c, e : /\ [op |-> "add address", cleared |-> c, default |-> e].op # "pushed"
                  /\ [op |-> "change address", address |-> a, cleared |-> c, default |-> e].op # "pushed"
    OBVIOUS
  <2> QED
    BY <1>1, <1>6, <2>1 DEF AddAddressRead, UpdateAddressRead
<1>7. ASSUME NEW s \in Sessions, NEW a, DeleteAddressRead(s, a) PROVE Unpushed'
  <2>1. [op |-> "drop address", address |-> a].op # "pushed"
    OBVIOUS
  <2> QED
    BY <1>1, <1>7, <2>1 DEF DeleteAddressRead
<1>8. ASSUME NEW s \in Sessions,
             \/ \E a \in Places : add_address(s, a)
             \/ update_address(s) \/ delete_address(s) \/ AddressGone(s)
      PROVE  Unpushed'
  BY <1>8, PlainEnd DEF add_address, update_address, delete_address, AddressGone
<1>9. ASSUME NEW s \in Sessions, NEW d \in BOOLEAN, AddAddressRead(s, d) PROVE Unpushed'
  BY <1>6, <1>9
<1> QED
  BY <1>2, <1>3, <1>4, <1>5, <1>6, <1>7, <1>8, <1>9 DEF ReviewsNext, ReviewStep, AddressesNext, AddressStep

LEMMA OthersNeverPush ==
    ASSUME BackofficeInv, scene # "realtime" => Unpushed, [SceneNext]_vars
    PROVE  (scene # "realtime" => Unpushed)'
<1> SUFFICES ASSUME scene # "realtime", Unpushed PROVE Unpushed'
  BY ScenesStep
<1>1. CASE UNCHANGED job
  BY <1>1 DEF Unpushed, JobsAreFunction
<1>2. CASE scene \in CuisineScenes /\ CuisinesNext
  <2>1. CuisinesInv
    BY <1>2 DEF BackofficeInv, CuisinePart
  <2>2. ListExpires => UNCHANGED job
    BY DEF ListExpires
  <2> QED
    BY <1>1, <1>2, <2>1, <2>2, CuisinesUnpushed DEF CuisinesNext
<1>3. CASE ApplicationsNext
  BY <1>3, ApplicationsUnpushed DEF ApplicationsNext
<1>4. CASE AccountsNext
  BY <1>4, AccountsUnpushed
<1>5. CASE ReviewsNext \/ AddressesNext
  BY <1>5, PublicUnpushed
<1> QED
  BY <1>1, <1>2, <1>3, <1>4, <1>5, ScenesStep

(* Every invariant and step property of the back office holds of the       *)
(* composition that the run checks, in each of its scenes and for any      *)
(* values of the constants.                                                *)
THEOREM BackofficeHolds ==
    Spec => /\ [](/\ MappingsResolve /\ OnePrimaryCuisine
                  /\ ApprovedOwnsRole /\ SubmittedIsComplete /\ OneActiveApplication
                  /\ CodesAreSpent /\ RatingsAreEarned /\ PushReachesListeners
                  /\ SteadyShown /\ FeeGrowsWithDistance)
            /\ DefaultRemains
<1> DEFINE Quiet == BackofficeInv /\ (scene # "realtime" => Unpushed)
           Holding == /\ MappingsResolve /\ OnePrimaryCuisine
                      /\ ApprovedOwnsRole /\ SubmittedIsComplete /\ OneActiveApplication
                      /\ CodesAreSpent /\ RatingsAreEarned /\ PushReachesListeners
                      /\ SteadyShown /\ FeeGrowsWithDistance
           Remaining == [default # {} /\ default' = {} => default \ saved' # {}]_<<job, addressVars>>
<1>1. Init => Quiet
  <2> SUFFICES ASSUME Init PROVE Unpushed
    BY InitParts
  <2> QED
    BY EveryoneIdle DEF Init, Unpushed, Idle
<1>2. Quiet /\ [SceneNext]_vars => Quiet'
  BY NextKeepsParts, OthersNeverPush
<1>3. Quiet => Holding
  <2> SUFFICES ASSUME Quiet PROVE Holding
    OBVIOUS
  <2> USE DEF BackofficeInv
  <2>1. MappingsResolve /\ OnePrimaryCuisine
    <3>1. CASE NoCuisines(Seeded)
      <4>1. mappings = {} /\ \A k \in Kitchens : Primary(k) = {}
        BY <3>1 DEF NoCuisines, Primary
      <4> QED
        BY <4>1, FS_EmptySet DEF MappingsResolve, OnePrimaryCuisine
    <3>2. CASE CuisinesInv
      BY <3>2, MappingsKept, OnePrimaryKept
    <3> QED
      BY <3>1, <3>2 DEF CuisinePart
  <2>2. ApprovedOwnsRole /\ SubmittedIsComplete /\ OneActiveApplication
    <3>1. CASE NoApplications
      BY <3>1 DEF NoApplications, ApprovedOwnsRole, SubmittedIsComplete, OneActiveApplication, Active, Stages
    <3> QED
      BY <3>1 DEF ApplicationPart, ApplicationsInv
  <2>3. CodesAreSpent
    BY DEF AccountPart, NoAccounts, AccountsInv, CodesAreSpent
  <2>4. RatingsAreEarned
    <3>1. CASE NoReviews
      <4>1. \A t \in Rated : About(t) = {} /\ total[t] = 0
        BY <3>1 DEF NoReviews, About
      <4> QED
        BY <4>1, FS_EmptySet DEF RatingsAreEarned
    <3> QED
      BY <3>1, EarnedInBounds DEF ReviewPart
  <2>5. PushReachesListeners
    <3>1. CASE NoSockets /\ Unpushed
      BY <3>1 DEF NoSockets, Unpushed, PushReachesListeners
    <3> QED
      BY <3>1, ListenersReached DEF RealtimePart
  <2>6. SteadyShown
    <3>1. CASE NoWalk
      BY <3>1 DEF NoWalk, SteadyShown, Unshown, Listed
    <3> QED
      BY <3>1 DEF WalkPart, DiscoveryInv
  <2>7. FeeGrowsWithDistance
    BY FeeRises
  <2> QED
    BY <2>1, <2>2, <2>3, <2>4, <2>5, <2>6, <2>7
<1>4. Quiet /\ [SceneNext]_vars => Remaining
  <2> SUFFICES ASSUME Quiet, [SceneNext]_vars PROVE Remaining
    OBVIOUS
  <2>1. CASE scene = "addresses"
    BY <2>1, ScenesStep, NextKeepsAddresses DEF BackofficeInv, AddressPart
  <2>2. CASE scene # "addresses"
    BY <2>2, ScenesStep DEF addressVars
  <2> QED
    BY <2>1, <2>2
<1> HIDE DEF Quiet, Holding
<1>5. Spec => []Quiet /\ []Holding /\ [][default # {} /\ default' = {} => default \ saved' # {}]_<<job, addressVars>>
  BY <1>1, <1>2, <1>3, <1>4, PTL DEF Spec
<1> QED
  BY <1>5 DEF Holding, DefaultRemains
=============================================================================
