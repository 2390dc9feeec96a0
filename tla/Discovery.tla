----------------------------- MODULE Discovery -----------------------------
(***************************************************************************)
(* A customer scrolls through the restaurants of a city.  A page is the    *)
(* first rows after the cursor in the order (rating descending, id         *)
(* ascending), and is kept in Redis under its cursor, for every customer;  *)
(* meanwhile ratings change and shifts begin and end.  The query joins     *)
(* restaurant_availability, so a restaurant is a row for each of its       *)
(* shifts that is open now, and shifts of one day may overlap.  (The       *)
(* search by coordinates is the same walk with the distance as its key.)   *)
(***************************************************************************)
EXTENDS Integers, FiniteSets

CONSTANTS
    Shops,          \* ids, numbers: the order of the ids
    Stars,          \* values of avg_rating
    MaxShifts,      \* shifts a restaurant may have on a day
    Limit,          \* page size
    MaxStored       \* bound on the pages Redis holds

ASSUME DiscoveryAssumption ==
    /\ Shops \subseteq Nat /\ IsFiniteSet(Shops) /\ Stars \subseteq Int
    /\ MaxShifts \in Nat /\ Limit \in Nat \ {0} /\ MaxStored \in Nat

VARIABLES
    rating,         \* avg_rating of a restaurant
    shifts,         \* its shifts open now, 0 if a filter leaves it out
    stored,         \* the pages in Redis
    cursor,         \* [rating, id] of the last row shown, or where the walk is
    shown           \* how often each steady restaurant was shown in this walk

shopVars == <<rating, shifts>>
walkVars == <<cursor, shown>>
discoveryVars == <<shopVars, stored, walkVars>>

Start == [at |-> "start"]
Bottom == [at |-> "end"]
At(x) == [at |-> "row", rating |-> rating[x], id |-> x]
Cursors == {Start, Bottom} \union [at : {"row"}, rating : Stars, id : Shops]

Listed == {x \in Shops : shifts[x] > 0}

(* A restaurant is steady for a page if it was listed when the page was    *)
(* made and has not changed since, and for a walk if it is so for all its  *)
(* pages.  holds counts the rows of the restaurants steady for the page.   *)
Unshown == [x \in Listed |-> 0]

DiscoveryInit ==
    /\ rating \in [Shops -> Stars]
    /\ shifts \in [Shops -> 0..MaxShifts]
    /\ stored = {} /\ cursor = Start /\ shown = Unshown

DiscoveryTypeOK ==
    /\ rating \in [Shops -> Stars]
    /\ shifts \in [Shops -> 0..MaxShifts]
    /\ \A page \in stored : /\ {page.after, page.next} \subseteq Cursors
                            /\ DOMAIN page.holds \subseteq Listed
                            /\ page.holds \in [DOMAIN page.holds -> 0..MaxShifts]
    /\ cursor \in Cursors
    /\ DOMAIN shown \subseteq Listed /\ shown \in [DOMAIN shown -> 0..MaxShifts]

(* ORDER BY avg_rating DESC, id ASC; the shifts of one restaurant follow   *)
(* each other in any order, here that of their numbers.                    *)
Before(x, y) == rating[x] > rating[y] \/ (rating[x] = rating[y] /\ x < y)
RowBefore(q, r) == Before(q[1], r[1]) \/ (q[1] = r[1] /\ q[2] < r[2])

(* Mutant: rows with the rating of the cursor are taken as shown. *)
BehindRating(x, c) ==
    \/ c.at = "start"
    \/ c.at = "row" /\ rating[x] < c.rating

Behind(x, c) ==
    \/ c.at = "start"
    \/ c.at = "row" /\ (rating[x] < c.rating \/ (rating[x] = c.rating /\ x > c.id))

Joined == Shops \X (1..MaxShifts)
Rest(c) == {r \in Joined : r[2] <= shifts[r[1]] /\ Behind(r[1], c)}
First(rest) == {r \in rest : Cardinality({q \in rest : RowBefore(q, r)}) < Limit}

Page(rows, c, n) ==
    [after |-> c, next |-> n,
     holds |-> [x \in Listed |-> Cardinality({i \in 1..MaxShifts : <<x, i>> \in rows})]]

(* The page after cursor c.  limit + 1 rows are fetched; one too many says *)
(* that there are more.                                                    *)
discover_restaurants_service(c) ==
    LET rest == Rest(c)
        rows == First(rest)
        last == {r \in rows : \A q \in rows \ {r} : RowBefore(q, r)} IN
    IF rows = rest THEN {Page(rows, c, Bottom)} ELSE {Page(rows, c, At(r[1])) : r \in last}

(* The page is stored, over the one made before it. *)
cache_set(page) ==
    LET others == {p \in stored : p.after # page.after} IN
    /\ Cardinality(others) < MaxStored
    /\ stored' = others \union {page}

(* The customer gets the next page. *)
Shows(page) ==
    /\ cursor' = page.next
    /\ shown' = [x \in DOMAIN shown \intersect DOMAIN page.holds |-> shown[x] + page.holds[x]]

(* GET /restaurants: nothing is stored under the cursor, or the read       *)
(* fails, as the write may fail that follows.                              *)
discover_restaurants ==
    /\ cursor # Bottom
    /\ \E page \in discover_restaurants_service(cursor) :
         Shows(page) /\ (cache_set(page) \/ UNCHANGED stored)
    /\ UNCHANGED shopVars

discover_restaurants_cached ==
    /\ cursor # Bottom
    /\ \E page \in stored : page.after = cursor /\ Shows(page)
    /\ UNCHANGED <<shopVars, stored>>

(* Another customer's request, wherever he is in his own walk. *)
OthersScroll(c) ==
    /\ \E page \in discover_restaurants_service(c) : cache_set(page)
    /\ UNCHANGED <<shopVars, walkVars>>

(* Its time to live is over, or a change of some restaurant deletes it. *)
PageExpires ==
    /\ \E page \in stored : stored' = stored \ {page}
    /\ UNCHANGED <<shopVars, walkVars>>

(* The customer scrolls from the top again. *)
Reload ==
    /\ cursor = Bottom
    /\ cursor' = Start /\ shown' = Unshown
    /\ UNCHANGED <<shopVars, stored>>

Without(f, x) == [y \in DOMAIN f \ {x} |-> f[y]]

(* A review moves the rating; a shift beginning or ending, a pause or a    *)
(* closure changes the rows.                                               *)
Changes(x) ==
    /\ \/ (\E n \in Stars \ {rating[x]} : rating' = [rating EXCEPT ![x] = n]) /\ UNCHANGED shifts
       \/ (\E n \in (0..MaxShifts) \ {shifts[x]} : shifts' = [shifts EXCEPT ![x] = n]) /\ UNCHANGED rating
    /\ stored' = {[after |-> p.after, next |-> p.next, holds |-> Without(p.holds, x)] : p \in stored}
    /\ shown' = Without(shown, x)
    /\ UNCHANGED cursor

DiscoveryNext ==
    \/ discover_restaurants \/ discover_restaurants_cached \/ PageExpires \/ Reload
    \/ \E c \in Cursors \ {Bottom} : OthersScroll(c)
    \/ \E x \in Shops : Changes(x)

DiscoverySpec == DiscoveryInit /\ [][DiscoveryNext]_discoveryVars

(* Whatever moves around it, and however old the pages from Redis are: a   *)
(* restaurant unchanged since the oldest page of the walk was made is not  *)
(* missed and not shown on a second page: when the walk has passed it, it  *)
(* has been shown, at most once for each of its open shifts, and before    *)
(* its turn not at all.                                                    *)
SteadyShown ==
    \A x \in DOMAIN shown : shown[x] \in IF Behind(x, cursor) THEN {0} ELSE 1..shifts[x]
=============================================================================
