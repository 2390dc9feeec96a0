---------------------------- MODULE MCStorefront ----------------------------
(***************************************************************************)
(* Restaurants, menus, carts on small sets.  Each initial state is a       *)
(* scene: the requests of that scene interleave, the rest of the shop      *)
(* stands still.  Scenes add up instead of multiplying.                    *)
(***************************************************************************)
EXTENDS Carts, DetailCache, Images

CONSTANTS s1, s2, r1, r2, c1, c2, c3, i1, i2, i3

(* What the scenes need of the cast: two restaurants, two items on one     *)
(* menu, a third item on the other.                                        *)
ASSUME SceneAssumption ==
    /\ {r1, r2} \subseteq Restaurants /\ r1 # r2
    /\ {c1, c2, c3} \subseteq Categories /\ {i1, i2, i3} \subseteq Items
    /\ RestaurantOf[c1] = r1 /\ RestaurantOf[c3] = r2 /\ i1 # i2
    /\ HomeOf[i1] = c1 /\ HomeOf[i2] = c1 /\ HomeOf[i3] = c3
    /\ [index |-> 0, status |-> "OPEN"] \in Shifts
    /\ 2 \in Prices /\ MaxPosition >= 2 /\ MaxQuantity >= 1

VARIABLE scene

MCRestaurantOf == [c \in {c1, c2, c3} |-> IF c = c3 THEN r2 ELSE r1]
MCHomeOf == [i \in {i1, i2, i3} |-> IF i = i3 THEN c3 ELSE c1]
MCImageCap == [t \in ImageTypes |-> IF t = "DINING_MENU" THEN 1 ELSE 2]
MCShifts == {[index |-> 0, status |-> "OPEN"], [index |-> 1, status |-> "CLOSED"]}

vars == <<job, restaurantVars, menuVars, cartVars, order, cacheVars, imageVars, scene>>

(* Before onboarding there is no row at all; later scenes start from an    *)
(* active restaurant with hours.                                           *)
OpenShop(r, h) ==
    /\ stage = [x \in Restaurants |-> IF x \in r THEN "ACTIVE" ELSE "NONE"]
    /\ activated = [x \in Restaurants |-> x \in r]
    /\ paused = [x \in Restaurants |-> FALSE]
    /\ licensed = [x \in Restaurants |-> FALSE]
    /\ closures = [c \in Closures |-> "unused"]
    /\ hours = [x \in Restaurants |-> IF x \in h THEN {[index |-> 0, status |-> "OPEN"]} ELSE {}]
    /\ menuMade = [x \in Restaurants |-> x \in r]
    /\ timed = [x \in Restaurants |-> x \in h]

Menu(C, I) ==
    /\ catState = [c \in Categories |-> IF c \in C THEN "ACTIVE" ELSE "NONE"]
    /\ catPos = [c \in Categories |-> IF c \in C THEN 1 ELSE 0]
    /\ itemState = [i \in Items |-> IF i \in I THEN "ACTIVE" ELSE "NONE"]
    /\ itemPos = [i \in Items |-> IF i \notin I THEN 0 ELSE IF i = i2 THEN 2 ELSE 1]
    /\ available = [i \in Items |-> i \in I]
    /\ price = [i \in Items |-> IF i \in I THEN 2 ELSE 0]
    /\ discounted = [i \in Items |-> None]

Init ==
    /\ job = [s \in Sessions |-> Idle]
    /\ NoCart /\ EmptyCache /\ NoImages
    /\ \/ scene \in {"onboarding", "images"} /\ NoRestaurants /\ NoMenu
       \/ scene = "trading" /\ OpenShop({r1}, {r1}) /\ Menu({}, {})
       \/ scene = "categories" /\ OpenShop({r1}, {}) /\ Menu({}, {})
       \/ scene = "items" /\ OpenShop({r1}, {}) /\ Menu({c1}, {})
       \/ scene = "cache" /\ OpenShop({r1}, {r1}) /\ Menu({c1}, {})
       \/ scene \in {"lines", "cart"} /\ OpenShop({r1, r2}, {}) /\ Menu({c1, c3}, {i1, i2, i3})

-----------------------------------------------------------------------------
rest == <<cartVars, order, cacheVars>>

Onboarding(s) ==
    \/ DraftRead(s, r1) \/ DocumentsRead(s, r1) \/ HoursRead(s, r1, {CHOOSE x \in Shifts : TRUE}) \/ ActivateRead(s, r1)
    \/ DeleteRead(s, r1)
    \/ CategoryRead(s, c1) \/ ItemRead(s, i1, Highest(Prices), None, TRUE) \/ ArchiveRead(s, i1) \/ DeleteItemRead(s, i1)

(* The customer buys one piece of i1 or i3 while the owner of i1 changes    *)
(* its price, archives and deletes it.                                     *)
Shopping(s) ==
    \/ CartRequest(s, {i1, i3}, {1}) \/ OrderRequest(s)
    \/ UNCHANGED <<cartVars, order>>
        /\ \/ \E p \in Prices : UpdateRead(s, i1, p, None)
           \/ ArchiveRead(s, i1) \/ DeleteItemRead(s, i1)
           \/ DeleteRead(s, r1) /\ UNCHANGED menuVars

Next ==
    \/ \E s \in Sessions :
        \/ scene \in {"onboarding", "trading"} /\ OwnerStep(s) /\ UNCHANGED rest
        \/ scene \in {"onboarding", "items"} /\ ItemStep(s, {}) /\ UNCHANGED rest
        \/ scene \in {"onboarding", "categories"} /\ CategoryStep(s) /\ UNCHANGED rest
        \/ scene \in {"categories", "items"} /\ MenuRowGone(s) /\ UNCHANGED rest
        \/ scene = "onboarding" /\ Onboarding(s) /\ UNCHANGED <<menuVars, rest>>
        \/ scene = "trading" /\ RestaurantRequest(s, r1) /\ UNCHANGED <<menuVars, rest>>
        \/ scene = "categories" /\ UNCHANGED rest
             /\ \/ \E c \in {c1, c2} : CategoryRequest(s, c)
                \/ ItemRead(s, i1, Highest(Prices), None, TRUE) \/ create_menu_item(s) \/ ItemTaken(s)
        \/ scene = "items" /\ UNCHANGED rest /\ \E i \in {i1, i2} : ItemRequest(s, i)
        \/ scene \in {"lines", "cart"} /\ CartStep(s) /\ UNCHANGED cacheVars
        \/ scene = "lines" /\ CartRequest(s, {i1, i2}, 1..MaxQuantity) /\ UNCHANGED cacheVars
        \/ scene = "cart" /\ (ItemMoves(s) \/ RestaurantMoves(s) \/ Shopping(s)) /\ UNCHANGED cacheVars
        \/ scene = "cache" /\ UNCHANGED <<cartVars, order>>
             /\ (OwnerRequest(s, i1) \/ CacheMiss(s, <<"detail", r1>>) \/ CacheMiss(s, <<"feed", r1>>) \/ CacheStep(s))
    \/ \E c \in Closures : scene = "trading" /\ ClosureEnds(c) /\ UNCHANGED <<menuVars, rest>>
    \/ \E k \in Keys : Expire(k) /\ UNCHANGED <<cartVars, order>>

Pictures ==
    /\ scene = "images"
    /\ (\E s \in Sessions : ImageStep(s)) \/ ItemGoes
    /\ UNCHANGED <<restaurantVars, menuVars, rest>>

SceneNext ==
    /\ (Next /\ UNCHANGED imageVars) \/ Pictures
    /\ UNCHANGED scene

(* Redis drops expired keys; nothing else is fair. *)
Spec == /\ Init /\ [][SceneNext]_vars
        /\ \A k \in Keys : WF_vars(Expire(k) /\ UNCHANGED <<cartVars, order, imageVars, scene>>)

TypeOK == RestaurantsTypeOK /\ MenusTypeOK /\ CartsTypeOK /\ ImagesTypeOK
=============================================================================
