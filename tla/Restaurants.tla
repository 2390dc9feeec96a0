---------------------------- MODULE Restaurants ----------------------------
(***************************************************************************)
(* The restaurant row from its draft to activation, and what the owner may *)
(* do with an active one: pause, resume, planned closures, weekly hours,   *)
(* deletion.  A member of Restaurants stands for one (owner, name,         *)
(* address, city), the key the table keeps unique.                         *)
(***************************************************************************)
EXTENDS Handlers

CONSTANTS Restaurants,
          Shifts,       \* shifts of a day: [index, status]
          Closures      \* rows of restaurant_closures that may be inserted

ASSUME ShiftsAssumption ==
    \A x \in Shifts : /\ x.index \in 0..9
                      /\ x.status \in {"OPEN", "CLOSED", "OPEN_24_HOURS"}
                      /\ x.status = "OPEN_24_HOURS" => x.index = 0

ASSUME RestaurantsAssumption == {"unused", "over"} \cap Restaurants = {}

VARIABLES stage,      \* Restaurant.status, "NONE" while there is no row
          activated,  \* Restaurant.is_activated
          paused,     \* Restaurant.is_manually_paused
          licensed,   \* fssai_license_number and gst_number are set
          closures,   \* of each closure: unused, the restaurant it closes, or over
          hours,      \* rows of restaurant_availability (one weekday)
          menuMade,   \* history: a menu item was created for the restaurant
          timed       \* history: hours were set

restaurantVars == <<stage, activated, paused, licensed, closures, hours, menuMade, timed>>

RestaurantStatus == {"DRAFT", "DOCUMENTS_ADDED", "TIMINGS_ADDED", "MENU_ADDED", "ACTIVE"}

NoRestaurants ==
    /\ stage = [r \in Restaurants |-> "NONE"]
    /\ activated = [r \in Restaurants |-> FALSE]
    /\ paused = [r \in Restaurants |-> FALSE]
    /\ licensed = [r \in Restaurants |-> FALSE]
    /\ closures = [c \in Closures |-> "unused"]
    /\ hours = [r \in Restaurants |-> {}]
    /\ menuMade = [r \in Restaurants |-> FALSE]
    /\ timed = [r \in Restaurants |-> FALSE]

Distinct(shifts) == \A x, y \in shifts : x.index = y.index => x = y

(* A weekly upload may mix CLOSED with other shifts of the day; the update *)
(* of one day may not.                                                     *)
HoursUpload == {h \in SUBSET Shifts : h # {} /\ Distinct(h)}
DayHoursUpdate == {h \in HoursUpload : (\E x \in h : x.status # "OPEN")
                                          => Cardinality(h) = 1}

RestaurantsTypeOK ==
    /\ stage \in [Restaurants -> RestaurantStatus \cup {"NONE"}]
    /\ activated \in [Restaurants -> BOOLEAN]
    /\ paused \in [Restaurants -> BOOLEAN]
    /\ licensed \in [Restaurants -> BOOLEAN]
    /\ closures \in [Closures -> Restaurants \cup {"unused", "over"}]
    /\ hours \in [Restaurants -> SUBSET Shifts]
    /\ menuMade \in [Restaurants -> BOOLEAN]
    /\ timed \in [Restaurants -> BOOLEAN]

Exists(r) == stage[r] # "NONE"

(* _get_owned_restaurant, and what the handler remembers of the row. *)
Load(s, op, r) ==
    /\ Exists(r)
    /\ Begin(s, [op |-> op, r |-> r, stage |-> stage[r]])
    /\ UNCHANGED restaurantVars

(* An UPDATE of a row that is gone (StaleDataError), an INSERT under it     *)
(* (foreign key), a DELETE of it (0 rows): nothing is written.             *)
RowGone(s) ==
    /\ job[s].op = "gone"
    /\ End(s)
    /\ UNCHANGED restaurantVars

ActiveClosures(r) == {c \in Closures : closures[c] = r}

-----------------------------------------------------------------------------
(* Onboarding *)

DraftRead(s, r) ==
    /\ ~Exists(r)
    /\ Begin(s, [op |-> "draft", r |-> r])
    /\ UNCHANGED restaurantVars

create_restaurant_draft(s) ==
    LET r == job[s].r IN
    /\ job[s].op = "draft"
    /\ ~Exists(r)
    /\ stage' = [stage EXCEPT ![r] = "DRAFT"]
    /\ End(s)
    /\ UNCHANGED <<activated, paused, licensed, closures, hours, menuMade, timed>>

(* The unique key refuses the second of two drafts: 400. *)
DraftExists(s) ==
    /\ job[s].op = "draft" /\ Exists(job[s].r)
    /\ End(s)
    /\ UNCHANGED restaurantVars

DocumentsRead(s, r) ==
    /\ stage[r] \in {"DRAFT", "DOCUMENTS_ADDED"}
    /\ Load(s, "documents", r)

upload_restaurant_documents(s) ==
    LET r == job[s].r IN
    /\ job[s].op = "documents"
    /\ licensed' = [licensed EXCEPT ![r] = TRUE]
    /\ stage' = [stage EXCEPT ![r] = Flushed(@, job[s].stage, "DOCUMENTS_ADDED")]
    /\ End(s)
    /\ UNCHANGED <<activated, paused, closures, hours, menuMade, timed>>

(* Mutant: a restaurant with hours may be activated. *)
ActivateReadEarly(s, r) ==
    /\ stage[r] \in {"TIMINGS_ADDED", "MENU_ADDED"}
    /\ Load(s, "activate", r)

ActivateRead(s, r) ==
    /\ stage[r] = "MENU_ADDED"
    /\ Load(s, "activate", r)

activate_restaurant(s) ==
    LET r == job[s].r IN
    /\ job[s].op = "activate"
    /\ stage' = [stage EXCEPT ![r] = "ACTIVE"]
    /\ activated' = [activated EXCEPT ![r] = TRUE]
    /\ End(s)
    /\ UNCHANGED <<paused, licensed, closures, hours, menuMade, timed>>

-----------------------------------------------------------------------------
(* Weekly hours: DELETE and INSERT in one transaction.  The DELETE sees    *)
(* the rows of its own snapshot; a shift another request has inserted      *)
(* since stays, and the unique (day, index) decides whether both fit.      *)

HoursRead(s, r, h) ==
    /\ h \in HoursUpload
    /\ Exists(r)
    /\ Begin(s, [op |-> "hours", r |-> r, stage |-> stage[r], old |-> hours[r], new |-> h])
    /\ UNCHANGED restaurantVars

DayHoursRead(s, r, h) ==
    /\ h \in DayHoursUpdate
    /\ Exists(r)
    /\ Begin(s, [op |-> "dayHours", r |-> r, old |-> hours[r], new |-> h])
    /\ UNCHANGED restaurantVars

(* The rows left of the day when the request commits. *)
Replaced(j) == (hours[j.r] \ j.old) \cup j.new

Clash(j) == \E x \in hours[j.r] \ j.old, y \in j.new : x.index = y.index

create_restaurant_hours(s) ==
    LET j == job[s] IN
    /\ j.op = "hours" /\ ~Clash(j)
    /\ hours' = [hours EXCEPT ![j.r] = Replaced(j)]
    /\ timed' = [timed EXCEPT ![j.r] = TRUE]
    /\ stage' = [stage EXCEPT ![j.r] = IF j.stage \in {"ACTIVE", "MENU_ADDED"}
                                         THEN @ ELSE Flushed(@, j.stage, "TIMINGS_ADDED")]
    /\ End(s)
    /\ UNCHANGED <<activated, paused, licensed, closures, menuMade>>

(* Mutant: the old rows are deleted and committed before the new ones fail. *)
HoursClashDeletes(s) ==
    LET j == job[s] IN
    /\ j.op \in {"hours", "dayHours"} /\ Clash(j)
    /\ hours' = [hours EXCEPT ![j.r] = {}]
    /\ End(s)
    /\ UNCHANGED <<stage, activated, paused, licensed, closures, menuMade, timed>>

(* IntegrityError: both statements are rolled back, 400. *)
HoursClash(s) ==
    /\ job[s].op \in {"hours", "dayHours"} /\ Clash(job[s])
    /\ End(s)
    /\ UNCHANGED restaurantVars

update_day_hours(s) ==
    LET j == job[s] IN
    /\ j.op = "dayHours" /\ ~Clash(j)
    /\ hours' = [hours EXCEPT ![j.r] = Replaced(j)]
    /\ timed' = [timed EXCEPT ![j.r] = TRUE]
    /\ End(s)
    /\ UNCHANGED <<stage, activated, paused, licensed, closures, menuMade>>

-----------------------------------------------------------------------------
(* An active restaurant *)

PauseRead(s, r) ==
    /\ stage[r] = "ACTIVE" /\ ~paused[r]
    /\ Load(s, "pause", r)

pause_restaurant(s) ==
    LET r == job[s].r IN
    /\ job[s].op = "pause"
    /\ paused' = [paused EXCEPT ![r] = TRUE]
    /\ End(s)
    /\ UNCHANGED <<stage, activated, licensed, closures, hours, menuMade, timed>>

ResumeRead(s, r) ==
    /\ stage[r] = "ACTIVE" /\ paused[r]
    /\ Load(s, "resume", r)

resume_restaurant(s) ==
    LET r == job[s].r IN
    /\ job[s].op = "resume"
    /\ paused' = [paused EXCEPT ![r] = FALSE]
    /\ End(s)
    /\ UNCHANGED <<stage, activated, licensed, closures, hours, menuMade, timed>>

ClosureRead(s, r) ==
    /\ stage[r] = "ACTIVE" /\ ActiveClosures(r) = {}
    /\ Load(s, "closure", r)

(* No constraint keeps a second closure out: two overlapping requests both *)
(* insert one.                                                             *)
create_closure(s) ==
    \E c \in Closures :
        /\ job[s].op = "closure"
        /\ closures[c] = "unused"
        /\ closures' = [closures EXCEPT ![c] = job[s].r]
        /\ End(s)
        /\ UNCHANGED <<stage, activated, paused, licensed, hours, menuMade, timed>>

(* One active closure is picked, in no order; deleting a row already gone  *)
(* only warns.                                                             *)
ReopenRead(s, r) ==
    \E c \in ActiveClosures(r) :
        /\ Begin(s, [op |-> "reopen", r |-> r, closure |-> c])
        /\ UNCHANGED restaurantVars

delete_closure(s) ==
    /\ job[s].op = "reopen"
    /\ closures' = [closures EXCEPT ![job[s].closure] = "over"]
    /\ End(s)
    /\ UNCHANGED <<stage, activated, paused, licensed, hours, menuMade, timed>>

(* ends_at passes: the row no longer counts as active. *)
ClosureEnds(c) ==
    /\ closures[c] \in Restaurants
    /\ closures' = [closures EXCEPT ![c] = "over"]
    /\ UNCHANGED <<job, stage, activated, paused, licensed, hours, menuMade, timed>>

(* The session holds the row (by its id: a new draft is another row). *)
Holds(t, r) == "r" \in DOMAIN job[t] /\ job[t].op # "draft" /\ job[t].r = r

DeleteRead(s, r) == Load(s, "delete", r)

(* The cascade takes hours, closures, categories and items with the row. *)
delete_restaurant(s) ==
    LET r == job[s].r IN
    /\ job[s].op = "delete"
    /\ stage' = [stage EXCEPT ![r] = "NONE"]
    /\ activated' = [activated EXCEPT ![r] = FALSE]
    /\ paused' = [paused EXCEPT ![r] = FALSE]
    /\ licensed' = [licensed EXCEPT ![r] = FALSE]
    /\ closures' = [c \in Closures |-> IF closures[c] = r THEN "over" ELSE closures[c]]
    /\ hours' = [hours EXCEPT ![r] = {}]
    /\ menuMade' = [menuMade EXCEPT ![r] = FALSE]
    /\ timed' = [timed EXCEPT ![r] = FALSE]
    /\ job' = [t \in Sessions |-> IF t = s THEN Idle
                                 ELSE IF Holds(t, r) THEN [op |-> "gone"] ELSE job[t]]

-----------------------------------------------------------------------------
(* What the discovery feed lists: active, not paused, not closed, open now *)
(* by a shift with times (a day OPEN_24_HOURS has none).                   *)
Listed(r) ==
    /\ stage[r] = "ACTIVE" /\ ~paused[r] /\ ActiveClosures(r) = {}
    /\ \E x \in hours[r] : x.status = "OPEN"

-----------------------------------------------------------------------------
(* The owner's requests, without those of the menu. *)
RestaurantStep(s) ==
    \/ create_restaurant_draft(s) \/ DraftExists(s)
    \/ upload_restaurant_documents(s)
    \/ activate_restaurant(s)
    \/ create_restaurant_hours(s) \/ update_day_hours(s) \/ HoursClash(s)
    \/ pause_restaurant(s) \/ resume_restaurant(s)
    \/ create_closure(s) \/ delete_closure(s)
    \/ delete_restaurant(s) \/ RowGone(s)

RestaurantRequest(s, r) ==
    \/ DraftRead(s, r) \/ DocumentsRead(s, r)
    \/ \E h \in HoursUpload : HoursRead(s, r, h) \/ DayHoursRead(s, r, h)
    \/ ActivateRead(s, r) \/ PauseRead(s, r) \/ ResumeRead(s, r)
    \/ ClosureRead(s, r) \/ ReopenRead(s, r) \/ DeleteRead(s, r)

-----------------------------------------------------------------------------
(* Only a restaurant that has had a menu item is activated, and only one   *)
(* that was activated is paused or closed, although documents, hours and   *)
(* new items write the status from a copy another request has overtaken.   *)
ActivationComesFirst ==
    \A r \in Restaurants :
        /\ activated[r] => menuMade[r]
        /\ (paused[r] \/ ActiveClosures(r) # {}) => activated[r]

(* Once its hours are set a restaurant always has a shift: uploads replace *)
(* them in one transaction, also when another upload has overtaken them.   *)
ScheduleStaysComplete ==
    \A r \in Restaurants : timed[r] => hours[r] # {}
=============================================================================
