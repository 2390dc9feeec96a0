------------------------------ MODULE Cuisines ------------------------------
(***************************************************************************)
(* Cuisine types, the requests for new ones and the mappings that tie a    *)
(* restaurant to either.  Owners ask, choose and withdraw; administrators  *)
(* approve, reject and revoke.  A row is a record with an id of its own;   *)
(* rows of the three tables share one counter.                             *)
(***************************************************************************)
EXTENDS Handlers

CONSTANTS
    Kitchens,       \* restaurants
    Slugs,          \* normalised cuisine names
    LastRow         \* bound on the rows ever inserted

VARIABLES
    cuisineTypes,   \* CuisineType rows [id, slug]; a REVOKED row is deleted in the same commit
    requests,       \* CuisineRequest rows [id, slug]
    mappings,       \* RestaurantCuisineMapping rows [id, kitchen, cuisine, request, primary]
    history,        \* ids of the requests with a CuisineRequestHistory row
    listCached,     \* cuisine:list key: the set of the list stored under it
    rows            \* ids 1..rows have been handed out

cuisineVars == <<cuisineTypes, requests, mappings, history, listCached, rows>>

NULL == 0
Mapping(id, k, c, q, p) == [id |-> id, kitchen |-> k, cuisine |-> c, request |-> q, primary |-> p]
Approved(m) == m.cuisine # NULL         \* MappedCuisineStatus.ACTIVE
Primary(k) == {m \in mappings : m.kitchen = k /\ m.primary}
IsCuisine(id) == \E c \in cuisineTypes : c.id = id
IsRequest(id) == \E q \in requests : q.id = id
Row(id) == {m \in mappings : m.id = id}

NoCuisines(seeded) ==
    /\ cuisineTypes = seeded /\ rows = Cardinality(seeded)
    /\ requests = {} /\ mappings = {} /\ history = {} /\ listCached = {}

CuisinesTypeOK ==
    /\ \A c \in cuisineTypes : c \in [id : 1..rows, slug : Slugs]
    /\ \A q \in requests : q \in [id : 1..rows, slug : Slugs]
    /\ \A m \in mappings : m \in [id : 1..rows, kitchen : Kitchens, cuisine : 0..rows,
                                  request : 0..rows, primary : BOOLEAN]
    /\ history \subseteq 1..rows
    /\ Cardinality(listCached) <= 1 /\ UNION listCached \subseteq [id : 1..rows, slug : Slugs]

Loads(s, j) == Begin(s, j) /\ UNCHANGED cuisineVars
Refused(s) == End(s) /\ UNCHANGED cuisineVars

(* uq_restaurant_cuisine, uq_restaurant_request, the foreign keys. *)
Insertable(k, c, q) ==
    /\ c # NULL => IsCuisine(c) /\ ~\E m \in mappings : m.kitchen = k /\ m.cuisine = c
    /\ q # NULL => IsRequest(q) /\ ~\E m \in mappings : m.kitchen = k /\ m.request = q

Insert(k, c, q, p) ==
    /\ rows < LastRow
    /\ rows' = rows + 1
    /\ mappings' = mappings \union {Mapping(rows + 1, k, c, q, p)}

-----------------------------------------------------------------------------
(* POST /{restaurant_id}/cuisine/request: two SELECTs, up to two commits. *)
RequestRead(s, k, slug) ==
    /\ ~\E c \in cuisineTypes : c.slug = slug
    /\ Loads(s, [op |-> "ask", kitchen |-> k, slug |-> slug])

PendingRead(s) ==
    /\ job[s].op = "ask"
    /\ LET pending == {q \in requests : q.slug = job[s].slug} IN
        \/ /\ pending = {}
           /\ Continue(s, [job[s] EXCEPT !.op = "create"])
        \/ \E q \in pending : Continue(s, [op |-> "map", kitchen |-> job[s].kitchen, request |-> q.id])
    /\ UNCHANGED cuisineVars

(* The slug of a request is unique: whoever comes second gets a conflict. *)
CreateRequest(s) ==
    /\ job[s].op = "create"
    /\ ~\E q \in requests : q.slug = job[s].slug
    /\ rows < LastRow
    /\ rows' = rows + 1
    /\ requests' = requests \union {[id |-> rows + 1, slug |-> job[s].slug]}
    /\ Continue(s, [op |-> "map", kitchen |-> job[s].kitchen, request |-> rows + 1])
    /\ UNCHANGED <<cuisineTypes, mappings, history, listCached>>

(* The pending mapping; for a request of somebody else the response then   *)
(* fails (new_request is unbound), the row stays.                          *)
request_new_cuisine(s) ==
    /\ job[s].op = "map"
    /\ Insertable(job[s].kitchen, NULL, job[s].request)
    /\ Insert(job[s].kitchen, NULL, job[s].request, FALSE)
    /\ End(s)
    /\ UNCHANGED <<cuisineTypes, requests, history, listCached>>

RequestConflict(s) ==
    /\ \/ job[s].op = "create" /\ \E q \in requests : q.slug = job[s].slug
       \/ job[s].op = "map" /\ ~Insertable(job[s].kitchen, NULL, job[s].request)
    /\ Refused(s)

(* PATCH /{restaurant_id}/cuisine *)
AddCuisineRead(s, k, c) ==
    /\ ~\E m \in mappings : m.kitchen = k /\ m.cuisine = c.id
    /\ Loads(s, [op |-> "add", kitchen |-> k, cuisine |-> c.id])

upload_cuisine_for_restaurant(s) ==
    /\ job[s].op = "add"
    /\ Insertable(job[s].kitchen, job[s].cuisine, NULL)
    /\ Insert(job[s].kitchen, job[s].cuisine, NULL, FALSE)
    /\ End(s)
    /\ UNCHANGED <<cuisineTypes, requests, history, listCached>>

-----------------------------------------------------------------------------
(* PATCH /{restaurant_id}/primary-cuisine: the current primary mapping is  *)
(* read and demoted, the new one promoted or inserted, in one transaction. *)
PrimaryRead(s, k, c) ==
    LET old == Primary(k) IN
    /\ \A m \in old : m.cuisine # c.id
    /\ Loads(s, [op |-> "primary", kitchen |-> k, cuisine |-> c.id, old |-> {m.id : m \in old}])

(* What remains of mappings once the mapping that was read is demoted. *)
Demoted(ids) == {IF m.id \in ids THEN [m EXCEPT !.primary = FALSE] ELSE m : m \in mappings}

(* Mutant: without the partial unique index. *)
PrimaryFreeUnindexed(j) == \A id \in j.old : Row(id) # {}

(* uq_restaurant_one_primary_cuisine: nobody else has been made primary;   *)
(* the UPDATE of a row that has gone raises StaleDataError.                *)
PrimaryFree(j) ==
    /\ \A id \in j.old : Row(id) # {}
    /\ \A m \in Primary(j.kitchen) : m.id \in j.old \/ m.cuisine = j.cuisine

set_primary_cuisine_for_restaurant(s) ==
    /\ job[s].op = "primary"
    /\ PrimaryFree(job[s])
    /\ IsCuisine(job[s].cuisine)
    /\ LET j == job[s]
           rest == Demoted(j.old)
           own == {m \in rest : m.kitchen = j.kitchen /\ m.cuisine = j.cuisine} IN
        \/ /\ own # {}
           /\ mappings' = (rest \ own) \union {[m EXCEPT !.primary = TRUE] : m \in own}
           /\ UNCHANGED rows
        \/ /\ own = {} /\ rows < LastRow
           /\ rows' = rows + 1
           /\ mappings' = rest \union {Mapping(rows + 1, j.kitchen, j.cuisine, NULL, TRUE)}
    /\ End(s)
    /\ UNCHANGED <<cuisineTypes, requests, history, listCached>>

(* DELETE /{restaurant_id}/primary-cuisine *)
DemoteRead(s, k) ==
    /\ Primary(k) # {}
    /\ Loads(s, [op |-> "demote", kitchen |-> k, old |-> {m.id : m \in Primary(k)}])

demote_primary_cuisine(s) ==
    /\ job[s].op = "demote"
    /\ \A id \in job[s].old : Row(id) # {}
    /\ mappings' = Demoted(job[s].old)
    /\ End(s)
    /\ UNCHANGED <<cuisineTypes, requests, history, listCached, rows>>

CuisineConflict(s) ==
    /\ \/ job[s].op = "add" /\ ~Insertable(job[s].kitchen, job[s].cuisine, NULL)
       \/ job[s].op = "primary" /\ ~(PrimaryFree(job[s]) /\ IsCuisine(job[s].cuisine))
       \/ job[s].op = "demote" /\ \E id \in job[s].old : Row(id) = {}
    /\ Refused(s)

(* DELETE of an approved mapping and of a pending one: both check the row  *)
(* they read and delete by id, whatever the row has become.                *)
RemoveCuisineRead(s, m) == Approved(m) /\ ~m.primary /\ Loads(s, [op |-> "unmap", mapping |-> m.id])

CancelRead(s, m) == ~Approved(m) /\ ~m.primary /\ Loads(s, [op |-> "cancel", mapping |-> m.id])

Unmapped(s) ==
    /\ mappings' = mappings \ Row(job[s].mapping)
    /\ End(s)
    /\ UNCHANGED <<cuisineTypes, requests, history, listCached, rows>>

remove_cuisine_from_restaurant(s) == job[s].op = "unmap" /\ Unmapped(s)

cancel_pending_cuisine_request(s) == job[s].op = "cancel" /\ Unmapped(s)

-----------------------------------------------------------------------------
(* The administrators *)
ApproveRead(s, q) ==
    /\ ~\E c \in cuisineTypes : c.slug = q.slug
    /\ Loads(s, [op |-> "approve", request |-> q])

(* Mutant: the mappings keep pointing at the request that is deleted. *)
ApproveKeepsRequest(s) ==
    /\ job[s].op = "approve"
    /\ ~\E c \in cuisineTypes : c.slug = job[s].request.slug
    /\ rows < LastRow
    /\ rows' = rows + 1
    /\ cuisineTypes' = cuisineTypes \union {[id |-> rows + 1, slug |-> job[s].request.slug]}
    /\ requests' = requests \ {job[s].request}
    /\ Continue(s, [op |-> "forget"])
    /\ UNCHANGED <<mappings, history, listCached>>

(* The new type, every mapping of the request moved over to it, the        *)
(* request deleted.  A request that has gone meanwhile is approved too:    *)
(* the DELETE of no row only warns.                                        *)
approve_pending_cuisine(s) ==
    /\ job[s].op = "approve"
    /\ ~\E c \in cuisineTypes : c.slug = job[s].request.slug
    /\ rows < LastRow
    /\ rows' = rows + 1
    /\ cuisineTypes' = cuisineTypes \union {[id |-> rows + 1, slug |-> job[s].request.slug]}
    /\ mappings' = {IF m.request = job[s].request.id
                      THEN [m EXCEPT !.cuisine = rows + 1, !.request = NULL] ELSE m : m \in mappings}
    /\ requests' = requests \ {job[s].request}
    /\ Continue(s, [op |-> "forget"])
    /\ UNCHANGED <<history, listCached>>

ApproveConflict(s) ==
    /\ job[s].op = "approve"
    /\ \E c \in cuisineTypes : c.slug = job[s].request.slug
    /\ Refused(s)

RejectRead(s, q) == Loads(s, [op |-> "reject", request |-> q])

reject_pending_cuisine(s) ==
    /\ job[s].op = "reject"
    /\ history' = history \union {job[s].request.id}
    /\ mappings' = {m \in mappings : m.request # job[s].request.id}
    /\ requests' = requests \ {job[s].request}
    /\ Continue(s, [op |-> "forget"])
    /\ UNCHANGED <<cuisineTypes, listCached, rows>>

RevokeRead(s, c) == Loads(s, [op |-> "revoke", cuisine |-> c])

revoke_approved_cuisine(s) ==
    /\ job[s].op = "revoke"
    /\ job[s].cuisine \in cuisineTypes
    /\ cuisineTypes' = cuisineTypes \ {job[s].cuisine}
    /\ mappings' = {m \in mappings : m.cuisine # job[s].cuisine.id}
    /\ Continue(s, [op |-> "forget"])
    /\ UNCHANGED <<requests, history, listCached, rows>>

RevokeFails(s) == job[s].op = "revoke" /\ job[s].cuisine \notin cuisineTypes /\ Refused(s)

(* cache_delete after the commit: a Redis error is swallowed, and a        *)
(* refresh of a type already revoked raises before it.                     *)
ForgetList(s) ==
    /\ job[s].op = "forget"
    /\ listCached' \in {listCached, {}}
    /\ End(s)
    /\ UNCHANGED <<cuisineTypes, requests, mappings, history, rows>>

(* GET /restaurants/cuisines on a miss: read, and store later. *)
ListRead(s) ==
    /\ listCached = {}
    /\ Loads(s, [op |-> "list", shown |-> cuisineTypes])

StoreList(s) ==
    /\ job[s].op = "list"
    /\ listCached' = {job[s].shown}
    /\ End(s)
    /\ UNCHANGED <<cuisineTypes, requests, mappings, history, rows>>

ListExpires ==
    /\ listCached # {}
    /\ listCached' = {}
    /\ UNCHANGED <<job, cuisineTypes, requests, mappings, history, rows>>

-----------------------------------------------------------------------------
RequestStep(s) ==
    \/ \E k \in Kitchens, slug \in Slugs : RequestRead(s, k, slug)
    \/ PendingRead(s) \/ CreateRequest(s) \/ request_new_cuisine(s) \/ RequestConflict(s)

OwnerCuisine(s) ==
    \/ \E k \in Kitchens :
        \/ \E c \in cuisineTypes : AddCuisineRead(s, k, c) \/ PrimaryRead(s, k, c)
        \/ DemoteRead(s, k)
    \/ \E m \in mappings : RemoveCuisineRead(s, m) \/ CancelRead(s, m)
    \/ upload_cuisine_for_restaurant(s) \/ set_primary_cuisine_for_restaurant(s)
    \/ demote_primary_cuisine(s) \/ CuisineConflict(s)
    \/ remove_cuisine_from_restaurant(s) \/ cancel_pending_cuisine_request(s)

AdminCuisine(s) ==
    \/ \E q \in requests : ApproveRead(s, q) \/ RejectRead(s, q)
    \/ \E c \in cuisineTypes : RevokeRead(s, c)
    \/ approve_pending_cuisine(s) \/ ApproveConflict(s) \/ reject_pending_cuisine(s)
    \/ revoke_approved_cuisine(s) \/ RevokeFails(s)
    \/ ForgetList(s)

ListStep(s) == ListRead(s) \/ StoreList(s)

(* The kitchens and the administrators on their own; some cuisines are     *)
(* seeded.                                                                 *)
CuisinesInit ==
    /\ job = [s \in Sessions |-> Idle]
    /\ \E seeded \in SUBSET [id : Nat \ {NULL}, slug : Slugs] :
        /\ IsFiniteSet(seeded) /\ \A c \in seeded : c.id <= Cardinality(seeded)
        /\ NoCuisines(seeded)

CuisinesNext ==
    \/ \E s \in Sessions : RequestStep(s) \/ OwnerCuisine(s) \/ AdminCuisine(s) \/ ListStep(s)
    \/ ListExpires

CuisinesSpec == CuisinesInit /\ [][CuisinesNext]_<<job, cuisineVars>>

(* Requests, approvals, rejections, revocations and withdrawals of many    *)
(* restaurants may overlap: a mapping always names exactly one of a        *)
(* pending request and an approved cuisine, and that row exists, so none   *)
(* is left pending for ever on a request that was decided.                 *)
MappingsResolve ==
    \A m \in mappings :
        \/ m.request = NULL /\ IsCuisine(m.cuisine)
        \/ m.cuisine = NULL /\ IsRequest(m.request)

(* However requests that set, move and drop the primary cuisine overlap    *)
(* with the administrators' decisions, a restaurant has at most one, and   *)
(* it is an approved cuisine it maps once.                                 *)
OnePrimaryCuisine ==
    \A k \in Kitchens :
        /\ Cardinality(Primary(k)) <= 1
        /\ \A m \in Primary(k) : Approved(m)
        /\ \A m, n \in mappings : m.kitchen = k /\ n.kitchen = k /\ Approved(m)
                                   /\ m.cuisine = n.cuisine => m = n
=============================================================================
