---------------------------- MODULE MCBackoffice ----------------------------
(***************************************************************************)
(* Everything around the shop on small sets.  Each initial state is a      *)
(* scene: the requests of that scene interleave, the other parts stand     *)
(* still.                                                                  *)
(***************************************************************************)
EXTENDS Cuisines, Applications, Accounts, Reviews, Realtime, Addresses, Discovery, Pricing

CONSTANTS s1, s2

(* What the scenes below take from the sets. *)
ASSUME SceneAssumption == "thai" \in Slugs /\ 1 \in Stars /\ 5 \in Ratings

VARIABLE scene

office == <<cuisineVars, applicationVars, accountVars>>
public == <<reviewVars, realtimeVars, addressVars>>
walk == <<discoveryVars, distance>>
vars == <<job, office, public, walk, scene>>

(* One cuisine is seeded by an administrator. *)
Seeded == {[id |-> 1, slug |-> "thai"]}

(* No customer is scrolling. *)
NoWalk ==
    /\ rating = [x \in Shops |-> 1] /\ shifts = [x \in Shops |-> 0]
    /\ stored = {} /\ cursor = Start /\ shown = Unshown

Init ==
    /\ job = [s \in Sessions |-> Idle]
    /\ NoCuisines(Seeded) /\ NoApplications /\ NoAccounts /\ NoReviews /\ NoSockets /\ NoAddresses
    /\ \/ /\ scene \in {"cuisines", "cuisine list", "partners", "riders", "registration", "codes", "restaurant reviews",
                        "other reviews", "realtime", "addresses"}
          /\ NoWalk /\ distance = 0
       \/ scene = "feed" /\ DiscoveryInit /\ distance = 0
       \/ scene = "fee" /\ NoWalk /\ PricingInit

-----------------------------------------------------------------------------
Person == [name : Names, email : Emails, phone : Phones]

OfficeStep(s) ==
    \/ /\ scene \in {"cuisines", "cuisine list"}
       /\ (\/ RequestStep(s) \/ AdminCuisine(s)
           \/ scene = "cuisines" /\ OwnerCuisine(s)
           \/ scene = "cuisine list" /\ ListStep(s))
       /\ UNCHANGED <<applicationVars, accountVars>>
    \/ scene = "partners" /\ PartnerStep(s) /\ UNCHANGED <<cuisineVars, accountVars>>
    \/ scene = "riders" /\ RideStep(s) /\ UNCHANGED <<cuisineVars, accountVars>>
    \/ scene = "registration" /\ UNCHANGED <<cuisineVars, applicationVars>>
         /\ (\/ \E u \in Person : RegisterRead(s, u)
             \/ create_user(s) \/ UserExists(s))
    \/ scene = "codes" /\ CodeStep(s) /\ UNCHANGED <<cuisineVars, applicationVars>>

PublicStep(s) ==
    \/ scene = "restaurant reviews" /\ ReviewStep(s, {"RESTAURANT"}, Ratings) /\ UNCHANGED <<realtimeVars, addressVars>>
    \/ scene = "other reviews" /\ ReviewStep(s, {"RIDER", "CUSTOMER"}, {5}) /\ UNCHANGED <<realtimeVars, addressVars>>
    \/ scene = "addresses" /\ AddressStep(s) /\ UNCHANGED <<reviewVars, realtimeVars>>

SceneNext ==
    /\ \/ \E s \in Sessions :
            \/ OfficeStep(s) /\ UNCHANGED <<public, walk>>
            \/ PublicStep(s) /\ UNCHANGED <<office, walk>>
       \/ /\ scene = "cuisine list" /\ ListExpires
          /\ UNCHANGED <<applicationVars, accountVars, public, walk>>
       \/ /\ scene = "codes" /\ \E n \in 1..codes : CodeExpires(n)
          /\ UNCHANGED <<cuisineVars, applicationVars, public, walk>>
       \/ /\ scene = "restaurant reviews" /\ ReviewPageExpires
          /\ UNCHANGED <<office, realtimeVars, addressVars, walk>>
       \/ /\ scene = "realtime" /\ RealtimeStep
          /\ UNCHANGED <<office, reviewVars, addressVars, walk>>
       \/ /\ scene = "feed" /\ DiscoveryNext
          /\ UNCHANGED <<job, office, public, distance>>
       \/ /\ scene = "fee" /\ Farther
          /\ UNCHANGED <<job, office, public, discoveryVars>>
    /\ UNCHANGED scene

Spec == Init /\ [][SceneNext]_vars

TypeOK ==
    /\ CuisinesTypeOK /\ ApplicationsTypeOK /\ AccountsTypeOK
    /\ ReviewsTypeOK /\ RealtimeTypeOK /\ AddressesTypeOK /\ DiscoveryTypeOK

Interchangeable == Permutations(Sessions)
=============================================================================
