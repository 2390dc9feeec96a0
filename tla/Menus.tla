------------------------------- MODULE Menus -------------------------------
(***************************************************************************)
(* The menu of a restaurant: categories and items, created, updated,       *)
(* ordered, archived and deleted by the owner.  A member of Categories     *)
(* stands for one (restaurant, normalized name) and one of Items for one   *)
(* (category, normalized name), the keys the tables keep unique.           *)
(***************************************************************************)
EXTENDS Restaurants

CONSTANTS Categories, Items,
          RestaurantOf,   \* the restaurant of a category
          HomeOf,         \* the category of an item
          Prices,         \* prices an owner may ask
          MaxPosition     \* bound on sort_order

ASSUME MenuAssumption ==
    /\ RestaurantOf \in [Categories -> Restaurants]
    /\ HomeOf \in [Items -> Categories]
    /\ Prices \subseteq Nat \ {0} /\ \E p \in Prices : \A q \in Prices : q <= p
    /\ MaxPosition \in Nat \ {0}

VARIABLES catState,    \* MenuCategory.status, "NONE" while there is no row
          catPos,      \* MenuCategory.sort_order
          itemState,   \* MenuItem.status, "NONE" while there is no row
          itemPos,     \* MenuItem.sort_order
          available,   \* MenuItem.is_available
          price,       \* MenuItem.price
          discounted   \* MenuItem.discounted_price, 0 when it is null

catVars == <<catState, catPos>>
itemVars == <<itemState, itemPos, available, price, discounted>>
menuVars == <<catVars, itemVars>>

MenuStatus == {"ACTIVE", "ARCHIVED"}
None == 0

NoMenu ==
    /\ catState = [c \in Categories |-> "NONE"] /\ catPos = [c \in Categories |-> 0]
    /\ itemState = [i \in Items |-> "NONE"] /\ itemPos = [i \in Items |-> 0]
    /\ available = [i \in Items |-> FALSE]
    /\ price = [i \in Items |-> 0] /\ discounted = [i \in Items |-> None]

MenusTypeOK ==
    /\ catState \in [Categories -> MenuStatus \cup {"NONE"}]
    /\ catPos \in [Categories -> 0..MaxPosition]
    /\ itemState \in [Items -> MenuStatus \cup {"NONE"}]
    /\ itemPos \in [Items -> 0..MaxPosition]
    /\ available \in [Items -> BOOLEAN]
    /\ price \in [Items -> Prices \cup {0}]
    /\ discounted \in [Items -> Prices \cup {None}]

CategoriesOf(r) == {c \in Categories : RestaurantOf[c] = r /\ catState[c] # "NONE"}
ItemsOf(c) == {i \in Items : HomeOf[i] = c /\ itemState[i] # "NONE"}
RestaurantOfItem(i) == RestaurantOf[HomeOf[i]]

Highest(S) == CHOOSE n \in S : \A m \in S : m <= n

(* Every way to send the rows of S back in an order of the owner's choice. *)
Orders(S) == {o \in [S -> 1..Cardinality(S)] : \A x, y \in S : o[x] = o[y] => x = y}

(* The deferred UNIQUE over the rows of S with these positions. *)
UniqueOver(S, pos) == \A x, y \in S : pos[x] = pos[y] => x = y

(* A request rolled back: the row is gone or a constraint refuses it. *)
Refused(s) == End(s) /\ UNCHANGED <<restaurantVars, menuVars>>

(* The sessions that hold a deleted row: their statements find nothing. *)
Orphan(s, Holds_(_)) ==
    job' = [t \in Sessions |-> IF t = s THEN Idle
                               ELSE IF Holds_(job[t]) THEN [op |-> "gone"] ELSE job[t]]

MenuRowGone(s) == job[s].op = "gone" /\ Refused(s)

-----------------------------------------------------------------------------
(* Categories *)

CategoryRead(s, c) ==
    LET r == RestaurantOf[c] IN
    /\ Exists(r) /\ catState[c] = "NONE"
    /\ \A d \in CategoriesOf(r) : catPos[d] < MaxPosition
    /\ Begin(s, [op |-> "newCategory", r |-> r, cat |-> c,
                 pos |-> Highest({catPos[d] : d \in CategoriesOf(r)} \cup {0}) + 1])
    /\ UNCHANGED <<restaurantVars, menuVars>>

create_menu_category(s) ==
    LET c == job[s].cat
        after == [catPos EXCEPT ![c] = job[s].pos] IN
    /\ job[s].op = "newCategory"
    /\ catState[c] = "NONE"
    /\ UniqueOver(CategoriesOf(job[s].r) \cup {c}, after)
    /\ catState' = [catState EXCEPT ![c] = "ACTIVE"]
    /\ catPos' = after
    /\ End(s)
    /\ UNCHANGED <<itemVars, restaurantVars>>

(* The name or the position was taken meanwhile: IntegrityError, 409. *)
CategoryTaken(s) ==
    LET c == job[s].cat IN
    /\ job[s].op = "newCategory"
    /\ \/ catState[c] # "NONE"
       \/ ~UniqueOver(CategoriesOf(job[s].r) \cup {c}, [catPos EXCEPT ![c] = job[s].pos])
    /\ Refused(s)

ReorderCategoriesRead(s, r) ==
    \E o \in Orders(CategoriesOf(r)) :
        /\ Exists(r)
        /\ Begin(s, [op |-> "sortCategories", r |-> r, rows |-> CategoriesOf(r),
                     order |-> o, pos |-> catPos])
        /\ UNCHANGED <<restaurantVars, menuVars>>

Reordered(pos, j) ==
    [x \in DOMAIN pos |-> IF x \in j.rows THEN Flushed(pos[x], j.pos[x], j.order[x]) ELSE pos[x]]

(* Only the positions that change are written; two rows in one position    *)
(* fail the whole request, as does a row to be moved that is gone.         *)
reorder_menu_categories(s) ==
    LET j == job[s] IN
    /\ j.op = "sortCategories"
    /\ UniqueOver(CategoriesOf(j.r), Reordered(catPos, j))
    /\ catPos' = Reordered(catPos, j)
    /\ End(s)
    /\ UNCHANGED <<catState, itemVars, restaurantVars>>

ReorderCategoriesFails(s) ==
    LET j == job[s] IN
    /\ j.op = "sortCategories"
    /\ ~UniqueOver(CategoriesOf(j.r), Reordered(catPos, j))
    /\ Refused(s)

(* The handlers of one category: what each expects of it, and what it sets. *)
CategoryOp == [archiveCat |-> [from |-> "ACTIVE", to |-> "ARCHIVED"],
               unarchiveCat |-> [from |-> "ARCHIVED", to |-> "ACTIVE"],
               deleteCat |-> [from |-> "ARCHIVED", to |-> "NONE"]]

CategoryLoad(s, op, c) ==
    /\ catState[c] = CategoryOp[op].from
    /\ Begin(s, [op |-> op, r |-> RestaurantOf[c], cat |-> c])
    /\ UNCHANGED <<restaurantVars, menuVars>>

archive_menu_category(s) ==
    /\ job[s].op = "archiveCat"
    /\ catState' = [catState EXCEPT ![job[s].cat] = "ARCHIVED"]
    /\ End(s)
    /\ UNCHANGED <<catPos, itemVars, restaurantVars>>

unarchive_menu_category(s) ==
    /\ job[s].op = "unarchiveCat"
    /\ catState' = [catState EXCEPT ![job[s].cat] = "ACTIVE"]
    /\ End(s)
    /\ UNCHANGED <<catPos, itemVars, restaurantVars>>

(* Moves the row x of a reorder to another position. *)
Moves(j, op, x) == j.op = op /\ x \in j.rows /\ j.pos[x] # j.order[x]

(* Mutant: an item may be inserted under a category that is gone. *)
WritesCategoryLoosely(j, c) ==
    \/ j.op \in DOMAIN CategoryOp /\ j.cat = c
    \/ Moves(j, "sortCategories", c)

(* The request updates or deletes the category, or inserts an item into it. *)
WritesCategory(j, c) ==
    \/ j.op \in DOMAIN CategoryOp \cup {"newItem"} /\ j.cat = c
    \/ Moves(j, "sortCategories", c)

(* With an item in it the delete nulls the item's category_id, which the   *)
(* column refuses: DeleteCategoryFails.                                    *)
delete_menu_category(s) ==
    LET c == job[s].cat IN
    /\ job[s].op = "deleteCat"
    /\ ItemsOf(c) = {}
    /\ catState' = [catState EXCEPT ![c] = "NONE"]
    /\ catPos' = [catPos EXCEPT ![c] = 0]
    /\ Orphan(s, LAMBDA j : WritesCategory(j, c))
    /\ UNCHANGED <<itemVars, restaurantVars>>

DeleteCategoryFails(s) ==
    /\ job[s].op = "deleteCat" /\ ItemsOf(job[s].cat) # {}
    /\ Refused(s)

-----------------------------------------------------------------------------
(* Items *)

(* The price p, the discounted price d and the availability a it asks for; *)
(* a new item's discount is not compared with its price.                   *)
ItemRead(s, i, p, d, a) ==
    LET c == HomeOf[i]
        r == RestaurantOf[c] IN
    /\ catState[c] # "NONE" /\ itemState[i] = "NONE"
    /\ \A x \in ItemsOf(c) : itemPos[x] < MaxPosition
    /\ Begin(s, [op |-> "newItem", r |-> r, cat |-> c, item |-> i, stage |-> stage[r],
                 price |-> p, discounted |-> d, available |-> a,
                 pos |-> Highest({itemPos[x] : x \in ItemsOf(c)} \cup {0}) + 1])
    /\ UNCHANGED <<restaurantVars, menuVars>>

NewPositions(j) == [itemPos EXCEPT ![j.item] = j.pos]

(* The first item completes the onboarding; the status is written from the *)
(* restaurant as it was read.                                              *)
create_menu_item(s) ==
    LET j == job[s]
        i == j.item IN
    /\ j.op = "newItem"
    /\ itemState[i] = "NONE"
    /\ UniqueOver(ItemsOf(j.cat) \cup {i}, NewPositions(j))
    /\ itemState' = [itemState EXCEPT ![i] = "ACTIVE"]
    /\ itemPos' = NewPositions(j)
    /\ available' = [available EXCEPT ![i] = j.available]
    /\ price' = [price EXCEPT ![i] = j.price]
    /\ discounted' = [discounted EXCEPT ![i] = j.discounted]
    /\ stage' = [stage EXCEPT ![j.r] = IF j.stage \in {"ACTIVE", "MENU_ADDED"}
                                         THEN @ ELSE "MENU_ADDED"]
    /\ menuMade' = [menuMade EXCEPT ![j.r] = TRUE]
    /\ End(s)
    /\ UNCHANGED <<catVars, activated, paused, licensed, closures, hours, timed>>

ItemTaken(s) ==
    LET j == job[s] IN
    /\ j.op = "newItem"
    /\ itemState[j.item] # "NONE" \/ ~UniqueOver(ItemsOf(j.cat) \cup {j.item}, NewPositions(j))
    /\ Refused(s)

ReorderItemsRead(s, c) ==
    \E o \in Orders(ItemsOf(c)) :
        /\ catState[c] # "NONE"
        /\ Begin(s, [op |-> "sortItems", r |-> RestaurantOf[c], cat |-> c, rows |-> ItemsOf(c),
                     order |-> o, pos |-> itemPos])
        /\ UNCHANGED <<restaurantVars, menuVars>>

reorder_menu_items_for_category(s) ==
    LET j == job[s] IN
    /\ j.op = "sortItems"
    /\ UniqueOver(ItemsOf(j.cat), Reordered(itemPos, j))
    /\ itemPos' = Reordered(itemPos, j)
    /\ End(s)
    /\ UNCHANGED <<itemState, available, price, discounted, catVars, restaurantVars>>

ReorderItemsFails(s) ==
    LET j == job[s] IN
    /\ j.op = "sortItems"
    /\ ~UniqueOver(ItemsOf(j.cat), Reordered(itemPos, j))
    /\ Refused(s)

(* The handlers of one item remember its row. *)
ItemLoad(s, op, i, more) ==
    /\ Begin(s, [op |-> op, r |-> RestaurantOfItem(i), item |-> i, available |-> available[i],
                 price |-> price[i], discounted |-> discounted[i], new |-> more])
    /\ UNCHANGED <<restaurantVars, menuVars>>

ItemOps == {"update", "toggle", "archive", "unarchive", "deleteItem"}

(* Fields left out of the request keep what was loaded.  A discount is     *)
(* compared with the price only when the request changes the discount.     *)
UpdateRead(s, i, p, d) ==
    /\ itemState[i] = "ACTIVE"
    /\ <<p, d>> # <<price[i], discounted[i]>>
    /\ d \notin {discounted[i], None} => d < p
    /\ ItemLoad(s, "update", i, <<p, d>>)

update_menu_item(s) ==
    LET j == job[s]
        i == j.item IN
    /\ j.op = "update"
    /\ price' = [price EXCEPT ![i] = Flushed(@, j.price, j.new[1])]
    /\ discounted' = [discounted EXCEPT ![i] = Flushed(@, j.discounted, j.new[2])]
    /\ End(s)
    /\ UNCHANGED <<itemState, itemPos, available, catVars, restaurantVars>>

ToggleRead(s, i) ==
    /\ itemState[i] = "ACTIVE"
    /\ ItemLoad(s, "toggle", i, <<>>)

toggle_menu_item_availability(s) ==
    LET j == job[s] IN
    /\ j.op = "toggle"
    /\ available' = [available EXCEPT ![j.item] = ~j.available]
    /\ End(s)
    /\ UNCHANGED <<itemState, itemPos, price, discounted, catVars, restaurantVars>>

ArchiveRead(s, i) ==
    /\ itemState[i] = "ACTIVE"
    /\ ItemLoad(s, "archive", i, <<>>)

archive_menu_item(s) ==
    LET j == job[s] IN
    /\ j.op = "archive"
    /\ itemState' = [itemState EXCEPT ![j.item] = "ARCHIVED"]
    /\ available' = [available EXCEPT ![j.item] = Flushed(@, j.available, FALSE)]
    /\ End(s)
    /\ UNCHANGED <<itemPos, price, discounted, catVars, restaurantVars>>

UnarchiveRead(s, i) ==
    /\ itemState[i] = "ARCHIVED"
    /\ ItemLoad(s, "unarchive", i, <<>>)

unarchive_menu_item(s) ==
    LET j == job[s] IN
    /\ j.op = "unarchive"
    /\ itemState' = [itemState EXCEPT ![j.item] = "ACTIVE"]
    /\ available' = [available EXCEPT ![j.item] = Flushed(@, j.available, FALSE)]
    /\ End(s)
    /\ UNCHANGED <<itemPos, price, discounted, catVars, restaurantVars>>

DeleteItemRead(s, i) ==
    /\ itemState[i] = "ARCHIVED"
    /\ ItemLoad(s, "deleteItem", i, <<>>)

(* held: the items that rows of other tables refer to; deleting one nulls  *)
(* their menu_item_id, which the columns refuse.                           *)
delete_menu_item(s, held) ==
    LET i == job[s].item IN
    /\ job[s].op = "deleteItem"
    /\ i \notin held
    /\ itemState' = [itemState EXCEPT ![i] = "NONE"]
    /\ itemPos' = [itemPos EXCEPT ![i] = 0]
    /\ available' = [available EXCEPT ![i] = FALSE]
    /\ price' = [price EXCEPT ![i] = 0]
    /\ discounted' = [discounted EXCEPT ![i] = None]
    /\ Orphan(s, LAMBDA j : (j.op \in ItemOps /\ j.item = i) \/ Moves(j, "sortItems", i))
    /\ UNCHANGED <<catVars, restaurantVars>>

DeleteItemFails(s, held) ==
    /\ job[s].op = "deleteItem" /\ job[s].item \in held
    /\ Refused(s)

(* The cascade of delete_restaurant. *)
MenuGoesWith(s) ==
    LET r == job[s].r
        mine == {i \in Items : RestaurantOfItem(i) = r} IN
    /\ catState' = [c \in Categories |-> IF RestaurantOf[c] = r THEN "NONE" ELSE catState[c]]
    /\ catPos' = [c \in Categories |-> IF RestaurantOf[c] = r THEN 0 ELSE catPos[c]]
    /\ itemState' = [i \in Items |-> IF i \in mine THEN "NONE" ELSE itemState[i]]
    /\ itemPos' = [i \in Items |-> IF i \in mine THEN 0 ELSE itemPos[i]]
    /\ available' = [i \in Items |-> IF i \in mine THEN FALSE ELSE available[i]]
    /\ price' = [i \in Items |-> IF i \in mine THEN 0 ELSE price[i]]
    /\ discounted' = [i \in Items |-> IF i \in mine THEN None ELSE discounted[i]]

-----------------------------------------------------------------------------
CategoryRequest(s, c) ==
    \/ CategoryRead(s, c)
    \/ ReorderCategoriesRead(s, RestaurantOf[c])
    \/ \E op \in DOMAIN CategoryOp : CategoryLoad(s, op, c)

CategoryStep(s) ==
    \/ create_menu_category(s) \/ CategoryTaken(s)
    \/ reorder_menu_categories(s) \/ ReorderCategoriesFails(s)
    \/ archive_menu_category(s) \/ unarchive_menu_category(s)
    \/ delete_menu_category(s) \/ DeleteCategoryFails(s)

ItemRequest(s, i) ==
    \/ \E a \in BOOLEAN : ItemRead(s, i, Highest(Prices), None, a)
    \/ ReorderItemsRead(s, HomeOf[i])
    \/ ToggleRead(s, i) \/ ArchiveRead(s, i) \/ UnarchiveRead(s, i) \/ DeleteItemRead(s, i)

ItemStep(s, held) ==
    \/ create_menu_item(s) \/ ItemTaken(s)
    \/ reorder_menu_items_for_category(s) \/ ReorderItemsFails(s)
    \/ update_menu_item(s) \/ toggle_menu_item_availability(s)
    \/ archive_menu_item(s) \/ unarchive_menu_item(s)
    \/ delete_menu_item(s, held) \/ DeleteItemFails(s, held)

(* The restaurant's own requests leave the menu alone, but for the last.   *)
OwnerStep(s) ==
    /\ RestaurantStep(s)
    /\ IF job[s].op = "delete" THEN MenuGoesWith(s) ELSE UNCHANGED menuVars

OwnerArrives(s) ==
    \/ \E r \in Restaurants : RestaurantRequest(s, r) /\ UNCHANGED menuVars
    \/ \E c \in Categories : CategoryRequest(s, c)
    \/ \E i \in Items : \/ ItemRequest(s, i)
                        \/ \E p \in Prices, d \in Prices \cup {None} : UpdateRead(s, i, p, d)

(* The owners on their own; held: what the customers' rows refer to. *)
MenusInit == NoRestaurants /\ NoMenu /\ job = [s \in Sessions |-> Idle]

MenusNext ==
    \/ \E s \in Sessions :
        \/ OwnerStep(s) \/ CategoryStep(s) \/ MenuRowGone(s)
        \/ \E held \in SUBSET Items : ItemStep(s, held)
        \/ OwnerArrives(s)
    \/ \E c \in Closures : ClosureEnds(c) /\ UNCHANGED menuVars

MenusSpec == MenusInit /\ [][MenusNext]_<<job, restaurantVars, menuVars>>

-----------------------------------------------------------------------------
(* What a customer sees in one position of a menu is one row, whatever     *)
(* creations, deletions and reorders overlap; and every item has its       *)
(* category and every category its restaurant.                             *)
MenuIsOrdered ==
    /\ \A r \in Restaurants : UniqueOver(CategoriesOf(r), catPos)
    /\ \A c \in Categories : UniqueOver(ItemsOf(c), itemPos)
    /\ \A i \in Items : itemState[i] # "NONE" => catState[HomeOf[i]] # "NONE"
    /\ \A c \in Categories : catState[c] # "NONE" => Exists(RestaurantOf[c])
=============================================================================
