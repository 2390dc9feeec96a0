---------------------------- MODULE DetailCache ----------------------------
(***************************************************************************)
(* The restaurant page and the city's discovery feed in Redis, cache-aside:*)
(* a reader that misses loads from the database and stores later; an       *)
(* owner's change commits first and deletes the keys later, and a Redis    *)
(* error is only logged.  A slow reader may store what is older than the   *)
(* deletion.  (Feeds asked for by coordinates are stored the same way but  *)
(* never deleted.)                                                         *)
(***************************************************************************)
EXTENDS Menus

VARIABLES cached,   \* cached[key]: the set of the value stored under it
          expiring, \* keys with a time to live
          tail      \* tail[s]: the restaurant whose keys session s has still to delete

cacheVars == <<cached, expiring, tail>>

Missing == {}
NoOne == "none"

(* restaurant:detail:<id> and discover:*:<city>:* with this restaurant. *)
Keys == {"detail", "feed"} \X Restaurants

EmptyCache ==
    /\ cached = [k \in Keys |-> Missing]
    /\ expiring = {}
    /\ tail = [s \in Sessions |-> NoOne]

(* What the page shows: the categories and their items with price,         *)
(* discount, availability and position.  No status is filtered out.        *)
Page(r) ==
    {<<c, catPos[c],
       {<<i, itemPos[i], price[i], discounted[i], available[i]>> : i \in ItemsOf(c)}>>
       : c \in CategoriesOf(r)}

(* What a reader who misses the key stores: the page, or whether the feed  *)
(* lists the restaurant.                                                   *)
Current(k) == IF k[1] = "detail" THEN Page(k[2]) ELSE Listed(k[2])

Stale(k) == cached[k] \notin {Missing, {Current(k)}}

(* GET /restaurants/{id} (404 unless active) and GET /restaurants.  A      *)
(* failing read of Redis counts as a miss, whatever the key holds.         *)
CacheMiss(s, k) ==
    /\ tail[s] = NoOne
    /\ k[1] = "detail" => stage[k[2]] = "ACTIVE"
    /\ Begin(s, [op |-> "fill", r |-> k[2], key |-> k, value |-> Current(k)])
    /\ UNCHANGED <<restaurantVars, menuVars, cacheVars>>

(* Mutant: the key is set without a time to live. *)
StoreForGood(s) ==
    LET k == job[s].key IN
    /\ job[s].op = "fill"
    /\ cached' = [cached EXCEPT ![k] = {job[s].value}]
    /\ End(s)
    /\ UNCHANGED <<expiring, tail, restaurantVars, menuVars>>

cache_set(s) ==
    LET k == job[s].key IN
    /\ job[s].op = "fill"
    /\ cached' = [cached EXCEPT ![k] = {job[s].value}]
    /\ expiring' = expiring \cup {k}
    /\ End(s)
    /\ UNCHANGED <<tail, restaurantVars, menuVars>>

StoreFails(s) ==
    /\ job[s].op = "fill"
    /\ End(s)
    /\ UNCHANGED <<cacheVars, restaurantVars, menuVars>>

(* A handler that ends in invalidate_restaurant_caches commits. *)
CommitThenInvalidate(s) ==
    /\ job[s].op \in {"update", "toggle", "archive", "unarchive", "pause", "resume"}
    /\ \/ /\ update_menu_item(s) \/ toggle_menu_item_availability(s)
              \/ archive_menu_item(s) \/ unarchive_menu_item(s)
       \/ (pause_restaurant(s) \/ resume_restaurant(s)) /\ UNCHANGED menuVars
    /\ tail' = [tail EXCEPT ![s] = job[s].r]
    /\ UNCHANGED <<cached, expiring>>

(* Creations, deletions and reorders of items change the page and leave    *)
(* the key alone.                                                          *)
CommitWithoutInvalidate(s) ==
    /\ job[s].op \in {"newItem", "deleteItem", "sortItems", "gone"}
    /\ ItemStep(s, {}) \/ MenuRowGone(s)
    /\ UNCHANGED cacheVars

(* Two deletions; either may fail, both do when the process stops first. *)
invalidate_restaurant_caches(s) ==
    \E D \in SUBSET {<<"detail", tail[s]>>, <<"feed", tail[s]>>} :
        /\ tail[s] # NoOne
        /\ cached' = [k \in Keys |-> IF k \in D THEN Missing ELSE cached[k]]
        /\ expiring' = expiring \ D
        /\ tail' = [tail EXCEPT ![s] = NoOne]
        /\ UNCHANGED <<job, restaurantVars, menuVars>>

(* Redis drops a key whose time to live is over. *)
Expire(k) ==
    /\ k \in expiring
    /\ cached' = [cached EXCEPT ![k] = Missing]
    /\ expiring' = expiring \ {k}
    /\ UNCHANGED <<job, tail, restaurantVars, menuVars>>

OwnerRequest(s, i) ==
    /\ tail[s] = NoOne
    /\ \/ ItemRequest(s, i)
       \/ (PauseRead(s, RestaurantOfItem(i)) \/ ResumeRead(s, RestaurantOfItem(i)))
             /\ UNCHANGED menuVars
    /\ UNCHANGED cacheVars

CacheStep(s) ==
    \/ cache_set(s) \/ StoreFails(s)
    \/ CommitThenInvalidate(s) \/ CommitWithoutInvalidate(s)
    \/ invalidate_restaurant_caches(s)

-----------------------------------------------------------------------------
(* A stale value does not stay for ever, although a reader may store it     *)
(* after the deletion meant for it, the deletion may fail, and some        *)
(* changes delete nothing: the time to live ends it.                       *)
StaleEnds == \A k \in Keys : Stale(k) ~> ~Stale(k)
=============================================================================
