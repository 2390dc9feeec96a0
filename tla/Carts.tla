------------------------------- MODULE Carts -------------------------------
(***************************************************************************)
(* The cart of one customer and its checkout.  Carts have ids of their     *)
(* own: a customer who empties the cart and adds again has a new one, and  *)
(* what another request still holds of the old one finds no row.           *)
(***************************************************************************)
EXTENDS Menus, FiniteSetsExt

CONSTANTS CartIds,      \* ids of the carts the customer may get
          OrderIds,     \* ids of the orders that may be made
          MaxQuantity   \* bound on the quantity of a line

ASSUME CartsAssumption ==
    /\ {"NONE", "GONE"} \cap Restaurants = {}
    /\ MaxQuantity \in Nat

VARIABLES cartOf,    \* restaurant of a cart, "NONE" before, "GONE" after it exists
          lines,     \* lines[k][i]: quantity of item i in cart k, 0 without a line
          snapshot,  \* snapshot[k][i]: item_price of that line
          order      \* the order made with an id: its restaurant, lines, subtotal

cartVars == <<cartOf, lines, snapshot>>
shopVars == <<restaurantVars, menuVars>>

NoLines == [i \in Items |-> 0]
NoOrder == [status |-> "NONE"]
NoItem == "none"

NoCart ==
    /\ cartOf = [k \in CartIds |-> "NONE"]
    /\ lines = [k \in CartIds |-> NoLines]
    /\ snapshot = [k \in CartIds |-> NoLines]
    /\ order = [o \in OrderIds |-> NoOrder]

CartsTypeOK ==
    /\ cartOf \in [CartIds -> Restaurants \cup {"NONE", "GONE"}]
    /\ lines \in [CartIds -> [Items -> 0..MaxQuantity]]
    /\ snapshot \in [CartIds -> [Items -> Prices \cup {0}]]

Live == {k \in CartIds : cartOf[k] \in Restaurants}
InCart(k) == {i \in Items : lines[k][i] > 0}
Ordered == {o \in OrderIds : order[o].status # "NONE"}

(* Menu items and restaurants that rows of carts and orders refer to. *)
HeldItems == (UNION {InCart(k) : k \in Live}) \cup (UNION {order[o].items : o \in Ordered})
HeldRestaurants == {cartOf[k] : k \in Live} \cup {order[o].of : o \in Ordered}

(* Another session has deleted the line and not committed yet: who wants   *)
(* to write the row waits.                                                 *)
Locked(s, k, i) ==
    \E t \in Sessions \ {s} : job[t].op = "removed" /\ job[t].cart = k /\ job[t].item = i

(* The response of s is sent and the rows of L are gone: who still holds   *)
(* one updates nothing (StaleDataError), or deletes nothing and goes on.   *)
LinesGone(s, L) ==
    job' = [t \in Sessions |->
              IF t = s THEN Idle
              ELSE IF job[t].op \in {"reduce", "remove"} /\ <<job[t].cart, job[t].item>> \in L
                     THEN IF job[t].op = "reduce" THEN [op |-> "gone"]
                                                  ELSE [op |-> "remove", cart |-> job[t].cart, item |-> NoItem]
              ELSE job[t]]

(* DELETE FROM carts, and its lines by the cascade; 0 rows only warn. *)
Dropped(s, K) ==
    /\ \A k \in K, i \in Items : ~Locked(s, k, i)
    /\ LinesGone(s, K \X Items)
    /\ cartOf' = [k \in CartIds |-> IF k \in K \cap Live THEN "GONE" ELSE cartOf[k]]
    /\ lines' = [k \in CartIds |-> IF k \in K THEN NoLines ELSE lines[k]]
    /\ snapshot' = [k \in CartIds |-> IF k \in K THEN NoLines ELSE snapshot[k]]

CartLoad(s, j) == Begin(s, j) /\ UNCHANGED <<cartVars, order, shopVars>>

CartRefused(s) == End(s) /\ UNCHANGED <<cartVars, order, shopVars>>

-----------------------------------------------------------------------------
(* POST /cart/items: the item and the wanted quantity *)

AddRead(s, i, q) ==
    /\ itemState[i] = "ACTIVE" /\ available[i]
    /\ CartLoad(s, [op |-> "add", item |-> i, quantity |-> q, price |-> price[i], had |-> Live,
                    same |-> \E k \in Live : cartOf[k] = RestaurantOfItem(i),
                    lines |-> [k \in Live |-> lines[k][i]],
                    paid |-> [k \in Live |-> snapshot[k][i]]])

(* Whether the line of i is where the request found it: still there, or    *)
(* still missing.                                                          *)
SameLine(j, k) == lines[k][j.item] > 0 <=> j.lines[k] > 0

(* The cart it read is of this restaurant: its line is written or inserted. *)
(* Of the list of items a request may carry this is one; a line is known   *)
(* by its cart and item, so one deleted and made again meanwhile counts as *)
(* the line that was read, where the UPDATE of the old row's id would fail.*)
AddToSame(s) ==
    LET j == job[s]
        i == j.item IN
    /\ j.op = "add" /\ j.same
    /\ itemState[i] # "NONE"
    /\ \E k \in Live \cap j.had :
        /\ SameLine(j, k) /\ ~Locked(s, k, i)
        /\ lines' = [lines EXCEPT ![k][i] = Flushed(@, j.lines[k], j.quantity)]
        /\ snapshot' = [snapshot EXCEPT ![k][i] = Flushed(@, j.paid[k], j.price)]
        /\ End(s)
        /\ UNCHANGED <<cartOf, order, shopVars>>

(* Mutant: the cart of another restaurant is kept, only its restaurant     *)
(* changes.                                                                *)
AddKeepsLines(s) ==
    LET j == job[s]
        i == j.item IN
    \E k \in IF Live = {} THEN CartIds ELSE Live :
        /\ j.op = "add" /\ ~j.same
        /\ itemState[i] # "NONE"
        /\ cartOf' = [cartOf EXCEPT ![k] = RestaurantOfItem(i)]
        /\ lines' = [lines EXCEPT ![k][i] = j.quantity]
        /\ snapshot' = [snapshot EXCEPT ![k][i] = j.price]
        /\ End(s)
        /\ UNCHANGED <<order, shopVars>>

(* The cart it read, if any, is of another restaurant: deleted, and a new  *)
(* one inserted, which the unique user_id allows unless there is another.  *)
AddToNew(s) ==
    LET j == job[s]
        i == j.item IN
    \E k \in CartIds :
        /\ j.op = "add" /\ ~j.same
        /\ itemState[i] # "NONE"
        /\ Live \subseteq j.had
        /\ \A h \in Live, x \in Items : ~Locked(s, h, x)
        /\ cartOf[k] = "NONE"
        /\ cartOf' = [h \in CartIds |-> IF h = k THEN RestaurantOfItem(i)
                                        ELSE IF h \in Live THEN "GONE" ELSE cartOf[h]]
        /\ lines' = [h \in CartIds |-> [NoLines EXCEPT ![i] = IF h = k THEN j.quantity ELSE 0]]
        /\ snapshot' = [h \in CartIds |-> [NoLines EXCEPT ![i] = IF h = k THEN j.price ELSE 0]]
        /\ LinesGone(s, Live \X Items)
        /\ UNCHANGED <<order, shopVars>>

(* The cart or the item is gone, the line came or went, or another request *)
(* has inserted a cart: an error, and the transaction is rolled back.      *)
AddFails(s) ==
    LET j == job[s] IN
    /\ j.op = "add"
    /\ \/ itemState[j.item] = "NONE"
       \/ j.same /\ \A k \in Live \cap j.had : ~SameLine(j, k)
       \/ ~j.same /\ ~(Live \subseteq j.had)
    /\ CartRefused(s)

-----------------------------------------------------------------------------
(* PATCH and DELETE /cart/items/{id}, DELETE /cart *)

(* Mutant: taking away more than the line has is not told apart. *)
LineReadUnchecked(s, k, i) ==
    \E n \in 1..MaxQuantity :
        CartLoad(s, [op |-> "reduce", cart |-> k, item |-> i, left |-> lines[k][i] - n])

LineRead(s, k, i) ==
    \E n \in 1..lines[k][i] :
        CartLoad(s, [op |-> IF n = lines[k][i] THEN "remove" ELSE "reduce",
                     cart |-> k, item |-> i, left |-> lines[k][i] - n])

(* The new quantity is what was read less n; the row must still be there.  *)
reduce_cart_item_quantity(s) ==
    LET j == job[s] IN
    /\ j.op = "reduce" /\ ~Locked(s, j.cart, j.item)
    /\ lines' = [lines EXCEPT ![j.cart][j.item] = j.left]
    /\ End(s)
    /\ UNCHANGED <<cartOf, snapshot, order, shopVars>>

(* The line is deleted and the others counted before the commit: another   *)
(* request's uncommitted delete still counts as a line.                    *)
remove_cart_item(s) ==
    LET j == job[s] IN
    /\ j.op = "remove"
    /\ ~Locked(s, j.cart, j.item)
    /\ Continue(s, [op |-> "removed", cart |-> j.cart, item |-> j.item,
                    last |-> InCart(j.cart) \subseteq {j.item}])
    /\ UNCHANGED <<cartVars, order, shopVars>>

RemoveCommit(s) ==
    LET j == job[s] IN
    /\ j.op = "removed"
    /\ IF j.last THEN Dropped(s, {j.cart})
       ELSE /\ lines' = [lines EXCEPT ![j.cart] = [i \in Items |-> IF i = j.item THEN 0 ELSE @[i]]]
            /\ snapshot' = [snapshot EXCEPT ![j.cart] = [i \in Items |-> IF i = j.item THEN 0 ELSE @[i]]]
            /\ LinesGone(s, {<<j.cart, j.item>>})
            /\ UNCHANGED cartOf
    /\ UNCHANGED <<order, shopVars>>

ClearRead(s) == Live # {} /\ CartLoad(s, [op |-> "clear", had |-> Live])

clear_cart(s) ==
    /\ job[s].op = "clear"
    /\ Dropped(s, job[s].had)
    /\ UNCHANGED <<order, shopVars>>

-----------------------------------------------------------------------------
(* POST /cart/checkout and the capture that follows an online order *)

SumOf(f) == MapThenSumSet(LAMBDA i : f[i], DOMAIN f)

(* What each line of these quantities costs; without a line, nothing. *)
LineTotals(quantity, cost) ==
    [i \in {x \in Items : quantity[x] > 0} |-> cost[i] * quantity[i]]

(* Mutant: the subtotal is taken from the prices kept in the cart. *)
CheckoutReadSnapshot(s, k) ==
    LET r == cartOf[k] IN
    \E method \in {"COD", "RAZORPAY"} :
        /\ InCart(k) # {}
        /\ stage[r] = "ACTIVE" /\ ~paused[r]
        /\ \A i \in InCart(k) : itemState[i] = "ACTIVE" /\ available[i]
        /\ CartLoad(s, [op |-> "checkout", cart |-> k, method |-> method, r |-> r,
                        lines |-> lines[k], price |-> price,
                        subtotal |-> SumOf(LineTotals(lines[k], snapshot[k]))])

(* Everything is priced from the menu, not from the cart's snapshots. *)
CheckoutRead(s, k) ==
    LET r == cartOf[k] IN
    \E method \in {"COD", "RAZORPAY"} :
        /\ InCart(k) # {}
        /\ stage[r] = "ACTIVE" /\ ~paused[r]
        /\ \A i \in InCart(k) : /\ RestaurantOfItem(i) = r
                                /\ itemState[i] = "ACTIVE" /\ available[i]
        /\ CartLoad(s, [op |-> "checkout", cart |-> k, method |-> method, r |-> r,
                        lines |-> lines[k], price |-> price,
                        subtotal |-> SumOf(LineTotals(lines[k], price))])

Bought(j) == {i \in Items : j.lines[i] > 0}

(* The order, its lines and its payment in one transaction; a cash order   *)
(* takes the cart it read along, whatever is in it now.                    *)
checkout(s) ==
    LET j == job[s] IN
    \E o \in OrderIds \ Ordered :
        /\ j.op = "checkout"
        /\ \A i \in Bought(j) : itemState[i] # "NONE"
        /\ order' = [order EXCEPT ![o] =
              [status |-> IF j.method = "COD" THEN "PLACED" ELSE "AWAITING_PAYMENT",
               of |-> j.r, items |-> Bought(j), subtotal |-> j.subtotal,
               total |-> LineTotals(j.lines, j.price)]]
        /\ IF j.method = "COD" THEN Dropped(s, {j.cart})
           ELSE End(s) /\ UNCHANGED cartVars
        /\ UNCHANGED shopVars

(* An item was deleted meanwhile: the order line's foreign key refuses. *)
CheckoutFails(s) ==
    LET j == job[s] IN
    /\ j.op = "checkout"
    /\ \E i \in Bought(j) : itemState[i] = "NONE"
    /\ CartRefused(s)

CaptureRead(s, o) ==
    /\ order[o].status = "AWAITING_PAYMENT"
    /\ CartLoad(s, [op |-> "capture", order |-> o, had |-> Live])

(* The capture deletes the customer's cart of the moment. *)
handle_payment_captured(s) ==
    LET j == job[s] IN
    /\ j.op = "capture"
    /\ order' = [order EXCEPT ![j.order].status = "PLACED"]
    /\ Dropped(s, j.had)
    /\ UNCHANGED shopVars

-----------------------------------------------------------------------------
CartRequest(s, I, Q) ==
    \/ \E i \in I, q \in Q : AddRead(s, i, q)
    \/ \E k \in Live, i \in I : LineRead(s, k, i)
    \/ ClearRead(s)

OrderRequest(s) ==
    \/ \E k \in Live : CheckoutRead(s, k)
    \/ \E o \in OrderIds : CaptureRead(s, o)

CartStep(s) ==
    \/ AddToSame(s) \/ AddToNew(s) \/ AddFails(s)
    \/ reduce_cart_item_quantity(s) \/ remove_cart_item(s) \/ RemoveCommit(s) \/ clear_cart(s)
    \/ checkout(s) \/ CheckoutFails(s)
    \/ handle_payment_captured(s)

(* The owner's changes of the items meet the customer's rows. *)
ItemMoves(s) ==
    /\ ItemStep(s, HeldItems) \/ MenuRowGone(s)
    /\ UNCHANGED <<cartVars, order>>

(* restaurant_id of carts and orders is NOT NULL and has no ON DELETE: a   *)
(* restaurant that a cart or an order refers to cannot be deleted.         *)
DeleteRestaurantFails(s) ==
    /\ job[s].op = "delete" /\ job[s].r \in HeldRestaurants
    /\ Refused(s)

RestaurantMoves(s) ==
    /\ \/ OwnerStep(s) /\ (job[s].op = "delete" => job[s].r \notin HeldRestaurants)
       \/ DeleteRestaurantFails(s)
    /\ UNCHANGED <<cartVars, order>>

(* The whole shop: any customer's and owners' requests, overlapping. *)
ShopInit == MenusInit /\ NoCart

ShopNext ==
    \/ \E s \in Sessions :
        \/ CartRequest(s, Items, 1..MaxQuantity) \/ OrderRequest(s) \/ CartStep(s)
        \/ ItemMoves(s) \/ RestaurantMoves(s)
        \/ (CategoryStep(s) \/ OwnerArrives(s)) /\ UNCHANGED <<cartVars, order>>
    \/ \E c \in Closures : ClosureEnds(c) /\ UNCHANGED <<menuVars, cartVars, order>>

ShopSpec == ShopInit /\ [][ShopNext]_<<job, shopVars, cartVars, order>>

-----------------------------------------------------------------------------
(* A customer has one cart, of a restaurant that exists, and every line in *)
(* it is an existing item of that restaurant (get_cart raises on any       *)
(* other), however adding, clearing, checking out and the owner's          *)
(* deletions of items and of the restaurant overlap.                       *)
CartOfOneRestaurant ==
    /\ Cardinality(Live) <= 1
    /\ \A k \in Live : Exists(cartOf[k])
    /\ \A k \in CartIds : \A i \in InCart(k) :
          k \in Live /\ itemState[i] # "NONE" /\ RestaurantOfItem(i) = cartOf[k]

(* An order is of one restaurant and charges the sum of its lines, also    *)
(* when the prices have changed since the items went into the cart.        *)
OrderAddsUp ==
    \A o \in Ordered :
        /\ \A i \in order[o].items : RestaurantOfItem(i) = order[o].of /\ itemState[i] # "NONE"
        /\ order[o].subtotal = SumOf(order[o].total) /\ DOMAIN order[o].total = order[o].items
=============================================================================
