----------------------------- MODULE CartProofs -----------------------------
(***************************************************************************)
(* The customer's cart against the owners' menus, for any carts, orders,   *)
(* menus and sessions.  What a customer's request holds of a cart is stale *)
(* by the time it commits; CartInv says what of it is still true: a cart   *)
(* never changes its restaurant and never comes back, and who holds a line *)
(* loses it with the row.  The owners' part of the state keeps OwnerInv    *)
(* and MenuInv, because a cart step writes no row of theirs and a deletion *)
(* stops at the rows that carts and orders refer to.  At the end the       *)
(* composition MCStorefront: each of its scenes is a step of one of the    *)
(* parts, beside which the others stand still.                             *)
(***************************************************************************)
EXTENDS MCStorefront, StorefrontProofs

(* Requests whose reading the commit relies on; the others of a customer.  *)
CartReads == {"add", "reduce", "checkout", "capture"}
CartOps == CartReads \cup {"remove", "removed", "clear", "idle", "gone"}

(* What is still true of what a customer's request has read. *)
StillTrue(j) ==
    /\ j.op = "add" =>
         /\ j.item \in Items /\ j.quantity \in 1..MaxQuantity
         /\ \A k \in j.had : k \in CartIds /\ cartOf[k] # "NONE"
         /\ j.same => \A k \in Live \cap j.had : cartOf[k] = RestaurantOfItem(j.item)
    /\ j.op = "reduce" =>
         /\ j.cart \in CartIds /\ j.item \in InCart(j.cart)
         /\ j.left \in 1..MaxQuantity
    /\ j.op = "checkout" =>
         /\ \A i \in Bought(j) : RestaurantOfItem(i) = j.r
         /\ j.subtotal = SumOf(LineTotals(j.lines, j.price))
    /\ j.op = "capture" => j.order \in Ordered

CartTypes ==
    /\ cartOf \in [CartIds -> Restaurants \cup {"NONE", "GONE"}]
    /\ lines \in [CartIds -> [Items -> 0..MaxQuantity]]
    /\ order = [o \in OrderIds |-> order[o]]

OneCart == \A k, h \in Live : k = h

CartsKept == \A k \in Live : Exists(cartOf[k])

LinesKept ==
    \A k \in CartIds : \A i \in InCart(k) :
        k \in Live /\ itemState[i] # "NONE" /\ RestaurantOfItem(i) = cartOf[k]

OrdersKept ==
    \A o \in Ordered :
        /\ order[o] = [status |-> order[o].status, of |-> order[o].of, items |-> order[o].items,
                       subtotal |-> order[o].subtotal, total |-> order[o].total]
        /\ \A i \in order[o].items : /\ i \in Items /\ itemState[i] # "NONE"
                                     /\ RestaurantOfItem(i) = order[o].of
        /\ order[o].subtotal = SumOf(order[o].total) /\ DOMAIN order[o].total = order[o].items

CartInv ==
    /\ CartTypes /\ OneCart /\ CartsKept /\ LinesKept /\ OrdersKept
    /\ \A s \in Sessions : StillTrue(job[s])
-----------------------------------------------------------------------------
(* A step of a customer writes no row of the owners. *)
LEMMA OwnersUntouched ==
    ASSUME OwnerInv, MenuInv, UNCHANGED shopVars, job' = [t \in Sessions |-> job'[t]],
           \A t \in Sessions : job'[t] = job[t] \/ job'[t].op \in CartOps
    PROVE  OwnerInv' /\ MenuInv'
<1>1. ASSUME NEW j, j.op \in CartOps PROVE Saw(j, activated, menuMade) /\ j.op \notin MenuOps
  BY <1>1 DEF Saw, RowRequests, CartOps, CartReads, MenuOps, CategoryOps, ItemOps
<1>2. UNCHANGED restaurantVars /\ UNCHANGED <<stage, catState, catPos, itemState, itemPos>>
  BY DEF shopVars, restaurantVars, menuVars, catVars, itemVars
<1>3. OwnerInv'
  BY <1>1, <1>2, RestaurantsStay
<1>4. RowsRemain
  BY <1>2 DEF RowsRemain
<1>5. \A t \in Sessions : Relies(job'[t], stage', catState', itemState')
  BY <1>1, <1>4, StillRelies, NothingRelied
<1>6. MenuIsOrdered'
  BY <1>2 DEF MenuInv, MenuIsOrdered, UniqueOver, CategoriesOf, ItemsOf, Exists
<1> QED
  BY <1>2, <1>3, <1>5, <1>6 DEF MenuInv, MenuFunctions

LEMMA NothingHeld ==
    ASSUME NEW t \in Sessions, job'[t].op \notin CartReads
    PROVE  StillTrue(job[t])'
BY DEF StillTrue, CartReads

(* A cart that is there now was there before, of the same restaurant, or   *)
(* it has an id nobody has seen.                                           *)
CartsAge ==
    /\ \A k \in CartIds : cartOf[k] # "NONE" => cartOf'[k] # "NONE"
    /\ \A k \in Live' : (k \in Live /\ cartOf'[k] = cartOf[k]) \/ cartOf[k] = "NONE"

LEMMA StaysTrue ==
    ASSUME CartInv, CartsAge, Ordered \subseteq Ordered',
           NEW t \in Sessions, job'[t] = job[t],
           job[t].op = "reduce" => job[t].item \in InCart(job[t].cart)'
    PROVE  StillTrue(job[t])'
<1>1. StillTrue(job[t])
  BY DEF CartInv
<1>2. CASE job[t].op = "add"
  <2> DEFINE j == job[t]
  <2>1. /\ j.item \in Items /\ j.quantity \in 1..MaxQuantity
        /\ \A k \in j.had : k \in CartIds /\ cartOf[k] # "NONE"
        /\ j.same => \A k \in Live \cap j.had : cartOf[k] = RestaurantOfItem(j.item)
    BY <1>1, <1>2 DEF StillTrue
  <2>2. \A k \in j.had : cartOf'[k] # "NONE"
    BY <2>1 DEF CartsAge
  <2>3. j.same => \A k \in Live' \cap j.had : cartOf'[k] = RestaurantOfItem(j.item)
    BY <2>1 DEF CartsAge
  <2> QED
    BY <1>2, <2>1, <2>2, <2>3 DEF StillTrue, RestaurantOfItem
<1>3. CASE job[t].op = "reduce"
  BY <1>1, <1>3 DEF StillTrue
<1>4. CASE job[t].op = "checkout"
  BY <1>1, <1>4 DEF StillTrue, Bought, LineTotals, RestaurantOfItem
<1>5. CASE job[t].op = "capture"
  BY <1>1, <1>5 DEF StillTrue
<1>6. CASE job[t].op \notin CartReads
  BY <1>6, NothingHeld
<1> QED
  BY <1>2, <1>3, <1>4, <1>5, <1>6 DEF CartReads

(* A step that leaves carts and orders alone. *)
LEMMA CartsUntouched ==
    ASSUME CartInv, UNCHANGED <<cartVars, order>>,
           \A k \in Live : stage[cartOf[k]] # "NONE" => stage'[cartOf[k]] # "NONE",
           \A i \in HeldItems : itemState[i] # "NONE" => itemState'[i] # "NONE",
           \A t \in Sessions : job'[t] = job[t] \/ StillTrue(job[t])'
    PROVE  CartInv'
<1> USE DEF cartVars
<1>1. Live' = Live /\ Ordered' = Ordered /\ \A k : InCart(k)' = InCart(k)
  BY DEF Live, Ordered, InCart
<1>2. CartTypes' /\ OneCart' /\ CartsAge
  BY <1>1 DEF CartInv, CartTypes, OneCart, CartsAge
<1>3. CartsKept'
  BY <1>1 DEF CartInv, CartsKept, Exists
<1>4. LinesKept'
  <2> SUFFICES ASSUME NEW k \in CartIds, NEW i \in InCart(k)
               PROVE  k \in Live /\ itemState'[i] # "NONE" /\ RestaurantOfItem(i) = cartOf[k]
    BY <1>1 DEF LinesKept, RestaurantOfItem
  <2>1. k \in Live /\ itemState[i] # "NONE" /\ RestaurantOfItem(i) = cartOf[k]
    BY DEF CartInv, LinesKept
  <2>2. i \in HeldItems
    BY <2>1 DEF HeldItems
  <2> QED
    BY <2>1, <2>2
<1>5. OrdersKept'
  <2> SUFFICES ASSUME NEW o \in Ordered, NEW i \in order[o].items PROVE itemState'[i] # "NONE"
    BY <1>1 DEF CartInv, OrdersKept, RestaurantOfItem
  <2>1. i \in HeldItems
    BY DEF HeldItems
  <2>2. itemState[i] # "NONE"
    BY DEF CartInv, OrdersKept
  <2> QED
    BY <2>1, <2>2
<1>6. ASSUME NEW t \in Sessions PROVE StillTrue(job[t])'
  <2>1. job[t].op = "reduce" => job[t].item \in InCart(job[t].cart)
    BY DEF CartInv, StillTrue
  <2> QED
    BY <1>1, <1>2, <2>1, StaysTrue
<1> QED
  BY <1>2, <1>3, <1>4, <1>5, <1>6 DEF CartInv

-----------------------------------------------------------------------------
(* Rows of a cart go, and what other requests hold of them. *)
LEMMA JobsOfGone ==
    ASSUME MenuInv, NEW s \in Sessions, NEW L, LinesGone(s, L)
    PROVE  /\ job' = [t \in Sessions |-> job'[t]]
           /\ \A t \in Sessions : \/ job'[t].op \in {"idle", "gone", "remove"}
                                 \/ /\ job'[t] = job[t]
                                    /\ job[t].op = "reduce" => <<job[t].cart, job[t].item>> \notin L
BY DEF LinesGone, Idle

LEMMA DropKeeps ==
    ASSUME CartInv, MenuInv, NEW s \in Sessions, NEW K, Dropped(s, K), UNCHANGED shopVars,
           OrdersKept', Ordered \subseteq Ordered', order' = [o \in OrderIds |-> order'[o]]
    PROVE  CartInv'
<1> USE DEF Dropped
<1>1. /\ cartOf' = [k \in CartIds |-> IF k \in K \cap Live THEN "GONE" ELSE cartOf[k]]
      /\ lines' = [k \in CartIds |-> IF k \in K THEN NoLines ELSE lines[k]]
  OBVIOUS
<1>2. CartTypes'
  BY <1>1, CartsAssumption DEF CartInv, CartTypes, NoLines
<1>3. \A k \in Live' : k \in Live \ K /\ cartOf'[k] = cartOf[k]
  BY <1>1, CartsAssumption DEF Live
<1>4. OneCart' /\ CartsAge
  BY <1>1, <1>3 DEF CartInv, OneCart, CartsAge
<1>5. stage' = stage /\ itemState' = itemState
  BY DEF shopVars, restaurantVars, menuVars, itemVars
<1>6. CartsKept'
  BY <1>3, <1>5 DEF CartInv, CartsKept, Exists
<1>7. \A k \in CartIds : InCart(k)' = IF k \in K THEN {} ELSE InCart(k)
  BY <1>1 DEF InCart, NoLines
<1>8. LinesKept'
  <2> SUFFICES ASSUME NEW k \in CartIds, NEW i \in InCart(k)'
               PROVE  k \in Live' /\ itemState'[i] # "NONE" /\ RestaurantOfItem(i) = cartOf'[k]
    BY DEF LinesKept, RestaurantOfItem
  <2>1. k \notin K /\ i \in InCart(k)
    BY <1>7
  <2>2. k \in Live /\ itemState[i] # "NONE" /\ RestaurantOfItem(i) = cartOf[k]
    BY <2>1 DEF CartInv, LinesKept
  <2> QED
    BY <1>1, <1>5, <2>1, <2>2 DEF Live
<1>9. ASSUME NEW t \in Sessions PROVE StillTrue(job[t])'
  <2>1. LinesGone(s, K \X Items)
    OBVIOUS
  <2>2. \/ job'[t].op \in {"idle", "gone", "remove"}
        \/ /\ job'[t] = job[t]
           /\ job[t].op = "reduce" => <<job[t].cart, job[t].item>> \notin K \X Items
    BY <2>1, JobsOfGone
  <2>3. CASE job'[t].op \in {"idle", "gone", "remove"}
    BY <2>3, NothingHeld DEF CartReads
  <2>4. CASE job'[t] = job[t] /\ (job[t].op = "reduce" => <<job[t].cart, job[t].item>> \notin K \X Items)
    <3>1. job[t].op = "reduce" => job[t].cart \in CartIds /\ job[t].item \in InCart(job[t].cart)
      BY DEF CartInv, StillTrue
    <3>2. job[t].op = "reduce" => job[t].cart \notin K
      BY <2>4, <3>1 DEF InCart
    <3> QED
      BY <1>4, <1>7, <2>4, <3>1, <3>2, StaysTrue
  <2> QED
    BY <2>2, <2>3, <2>4
<1> QED
  BY <1>2, <1>4, <1>6, <1>8, <1>9 DEF CartInv

(* The orders are as they were. *)
LEMMA OrdersStay ==
    ASSUME CartInv, UNCHANGED <<order, itemState>>
    PROVE  OrdersKept' /\ Ordered' = Ordered /\ order' = [o \in OrderIds |-> order'[o]]
BY DEF CartInv, CartTypes, OrdersKept, Ordered, RestaurantOfItem

LineWritten(k, i, q) == lines' = [lines EXCEPT ![k][i] = q]

(* One line is written, of a cart and an item that are there, or is gone.  *)
LEMMA LineKeeps ==
    ASSUME CartInv, NEW s \in Sessions, UNCHANGED <<cartOf, order, shopVars>>,
           NEW k, NEW i, NEW q \in 0..MaxQuantity,
           LineWritten(k, i, q),
           k \in CartIds /\ i \in Items /\ q > 0
               => k \in Live /\ itemState[i] # "NONE" /\ RestaurantOfItem(i) = cartOf[k],
           job'[s] = Idle,
           \A t \in Sessions \ {s} :
               \/ job'[t].op \notin CartReads
               \/ job'[t] = job[t] /\ (job[t].op = "reduce" /\ job[t].cart = k /\ job[t].item = i => q > 0)
    PROVE  CartInv'
<1> USE DEF LineWritten
<1>1. stage' = stage /\ itemState' = itemState
  BY DEF shopVars, restaurantVars, menuVars, itemVars
<1>2. CartTypes'
  BY DEF CartInv, CartTypes
<1>3. Live' = Live /\ OneCart' /\ CartsAge /\ CartsKept'
  BY <1>1 DEF CartInv, Live, OneCart, CartsAge, CartsKept, Exists
<1>4. \A h \in CartIds, x \in Items :
         lines'[h][x] = IF h = k /\ x = i THEN q ELSE lines[h][x]
  BY DEF CartInv, CartTypes
<1>5. LinesKept'
  BY <1>1, <1>3, <1>4 DEF CartInv, LinesKept, InCart, RestaurantOfItem
<1>6. OrdersKept' /\ Ordered' = Ordered
  BY <1>1, OrdersStay
<1>7. ASSUME NEW t \in Sessions PROVE StillTrue(job[t])'
  <2>1. CASE job'[t].op \notin CartReads
    BY <2>1, NothingHeld
  <2>2. CASE /\ job'[t] = job[t]
             /\ job[t].op = "reduce" /\ job[t].cart = k /\ job[t].item = i => q > 0
    <3>1. job[t].op = "reduce" => job[t].cart \in CartIds /\ job[t].item \in InCart(job[t].cart)
      BY DEF CartInv, StillTrue
    <3>2. job[t].op = "reduce" => job[t].item \in InCart(job[t].cart)'
      BY <1>4, <2>2, <3>1 DEF InCart
    <3> QED
      BY <1>3, <1>6, <2>2, <3>2, StaysTrue
  <2>3. job'[s].op \notin CartReads
    BY DEF Idle, CartReads
  <2> QED
    BY <2>1, <2>2, <2>3
<1> QED
  BY <1>2, <1>3, <1>5, <1>6, <1>7, OrdersStay DEF CartInv

-----------------------------------------------------------------------------
(* A customer's request arrives, or ends, and leaves the tables alone. *)
LEMMA LoadKeeps ==
    ASSUME CartInv, MenuInv, NEW s \in Sessions, NEW j, StillTrue(j), job' = [job EXCEPT ![s] = j],
           UNCHANGED <<cartVars, order, shopVars>>
    PROVE  CartInv'
<1>1. \A t \in Sessions : job'[t] = IF t = s THEN j ELSE job[t]
  BY DEF MenuInv, MenuFunctions
<1>2. Live' = Live /\ Ordered' = Ordered /\ (\A k : InCart(k)' = InCart(k)) /\ cartOf' = cartOf
  BY DEF cartVars, Live, Ordered, InCart
<1>3. StillTrue(job[s])'
  <2>1. job'[s] = j
    BY <1>1
  <2> QED
    BY <1>2, <2>1 DEF StillTrue, Bought, LineTotals, RestaurantOfItem
<1>4. stage' = stage /\ itemState' = itemState
  BY DEF shopVars, restaurantVars, menuVars, itemVars
<1> QED
  BY <1>1, <1>3, <1>4, CartsUntouched DEF Exists

LEMMA RefusedKeeps ==
    ASSUME CartInv, MenuInv, NEW s \in Sessions, CartRefused(s)
    PROVE  CartInv'
<1>1. StillTrue(Idle)
  BY DEF StillTrue, Idle
<1> QED
  BY <1>1, LoadKeeps DEF CartRefused, End

LEMMA CustomerAsks ==
    ASSUME CartInv, MenuInv, NEW s \in Sessions,
           CartRequest(s, Items, 1..MaxQuantity) \/ OrderRequest(s)
    PROVE  CartInv'
<1>1. ASSUME NEW j, CartLoad(s, j), StillTrue(j) PROVE CartInv'
  BY <1>1, LoadKeeps DEF CartLoad, Begin
<1>2. ASSUME NEW i \in Items, NEW q \in 1..MaxQuantity, AddRead(s, i, q) PROVE CartInv'
  <2> DEFINE j == [op |-> "add", item |-> i, quantity |-> q, price |-> price[i], had |-> Live,
                   same |-> \E k \in Live : cartOf[k] = RestaurantOfItem(i),
                   lines |-> [k \in Live |-> lines[k][i]],
                   paid |-> [k \in Live |-> snapshot[k][i]]]
  <2>1. \A k \in Live : k \in CartIds /\ cartOf[k] # "NONE"
    BY CartsAssumption DEF Live
  <2>2. (\E k \in Live : cartOf[k] = RestaurantOfItem(i))
          => \A k \in Live : cartOf[k] = RestaurantOfItem(i)
    BY DEF CartInv, OneCart
  <2>3. /\ j.op = "add" /\ j.item = i /\ j.quantity = q /\ j.had = Live
        /\ j.same = (\E k \in Live : cartOf[k] = RestaurantOfItem(i))
    OBVIOUS
  <2>4. StillTrue(j)
    <3> HIDE DEF j
    <3> QED
      BY <2>1, <2>2, <2>3 DEF StillTrue
  <2> QED
    BY <1>1, <1>2, <2>4 DEF AddRead
<1>3. ASSUME NEW k \in Live, NEW i \in Items, LineRead(s, k, i) PROVE CartInv'
  <2>1. PICK n \in 1..lines[k][i] :
            CartLoad(s, [op |-> IF n = lines[k][i] THEN "remove" ELSE "reduce",
                         cart |-> k, item |-> i, left |-> lines[k][i] - n])
    BY <1>3 DEF LineRead
  <2> DEFINE j == [op |-> IF n = lines[k][i] THEN "remove" ELSE "reduce",
                   cart |-> k, item |-> i, left |-> lines[k][i] - n]
  <2>2. k \in CartIds /\ lines[k][i] \in 0..MaxQuantity
    BY DEF Live, CartInv, CartTypes
  <2>3. /\ i \in InCart(k)
        /\ n # lines[k][i] => lines[k][i] - n \in 1..MaxQuantity
    BY <2>2, CartsAssumption DEF InCart
  <2>4. StillTrue(j)
    BY <2>2, <2>3 DEF StillTrue
  <2> QED
    BY <1>1, <2>1, <2>4
<1>4. CASE ClearRead(s)
  <2>1. StillTrue([op |-> "clear", had |-> Live])
    BY DEF StillTrue
  <2> QED
    BY <1>1, <1>4, <2>1 DEF ClearRead
<1>5. ASSUME NEW k \in Live, CheckoutRead(s, k) PROVE CartInv'
  <2>1. PICK method : CartLoad(s, [op |-> "checkout", cart |-> k, method |-> method, r |-> cartOf[k],
                                   lines |-> lines[k], price |-> price,
                                   subtotal |-> SumOf(LineTotals(lines[k], price))])
    BY <1>5 DEF CheckoutRead
  <2> DEFINE j == [op |-> "checkout", cart |-> k, method |-> method, r |-> cartOf[k],
                   lines |-> lines[k], price |-> price, subtotal |-> SumOf(LineTotals(lines[k], price))]
  <2>2. \A i \in Bought(j) : RestaurantOfItem(i) = j.r
    BY <1>5 DEF CheckoutRead, Bought, InCart
  <2>3. StillTrue(j)
    BY <2>2 DEF StillTrue
  <2> QED
    BY <1>1, <2>1, <2>3
<1>6. ASSUME NEW o \in OrderIds, CaptureRead(s, o) PROVE CartInv'
  <2>1. o \in Ordered
    BY <1>6 DEF CaptureRead, Ordered
  <2>2. StillTrue([op |-> "capture", order |-> o, had |-> Live])
    BY <2>1 DEF StillTrue
  <2> QED
    BY <1>1, <1>6, <2>2 DEF CaptureRead
<1> QED
  BY <1>2, <1>3, <1>4, <1>5, <1>6 DEF CartRequest, OrderRequest

-----------------------------------------------------------------------------
(* Adding. *)
LEMMA AddKeeps ==
    ASSUME CartInv, MenuInv, NEW s \in Sessions, AddToSame(s)
    PROVE  CartInv'
<1> DEFINE j == job[s]
           i == j.item
<1>1. /\ j.op = "add" /\ j.same /\ itemState[i] # "NONE"
      /\ End(s) /\ UNCHANGED <<cartOf, order, shopVars>>
  BY DEF AddToSame
<1>2. PICK k \in Live \cap j.had : lines' = [lines EXCEPT ![k][i] = Flushed(@, j.lines[k], j.quantity)]
  BY DEF AddToSame
<1>3. k \in CartIds /\ i \in Items /\ j.quantity \in 1..MaxQuantity /\ RestaurantOfItem(i) = cartOf[k]
  BY <1>1, <1>2 DEF CartInv, StillTrue, Live
<1>4. lines[k][i] \in 0..MaxQuantity
  BY <1>3 DEF CartInv, CartTypes
<1>5. PICK q \in {lines[k][i], j.quantity} : LineWritten(k, i, q)
  BY <1>2, <1>3 DEF LineWritten, Flushed, CartInv, CartTypes
<1>6. job'[s] = Idle /\ \A t \in Sessions \ {s} : job'[t] = job[t]
  BY <1>1 DEF End, MenuInv, MenuFunctions
<1>7. ASSUME NEW t \in Sessions, job[t].op = "reduce", job[t].cart = k, job[t].item = i PROVE q > 0
  <2>1. i \in InCart(k)
    BY <1>7 DEF CartInv, StillTrue
  <2> QED
    BY <1>3, <1>4, <2>1, CartsAssumption DEF InCart
<1>8. q \in 0..MaxQuantity
  BY <1>3, <1>4, CartsAssumption
<1> QED
  BY <1>1, <1>2, <1>3, <1>5, <1>6, <1>7, <1>8, LineKeeps

(* The cart it read goes and another comes; every line that any request    *)
(* holds was in the cart that went.                                        *)
LEMMA ReplaceKeeps ==
    ASSUME CartInv, MenuInv, NEW s \in Sessions, AddToNew(s)
    PROVE  CartInv'
<1> DEFINE j == job[s]
           i == j.item
<1>1. /\ j.op = "add" /\ itemState[i] # "NONE" /\ LinesGone(s, Live \X Items)
      /\ UNCHANGED <<order, shopVars>>
  BY DEF AddToNew
<1>2. PICK k \in CartIds :
          /\ cartOf[k] = "NONE"
          /\ cartOf' = [h \in CartIds |-> IF h = k THEN RestaurantOfItem(i)
                                          ELSE IF h \in Live THEN "GONE" ELSE cartOf[h]]
          /\ lines' = [h \in CartIds |-> [NoLines EXCEPT ![i] = IF h = k THEN j.quantity ELSE 0]]
  BY DEF AddToNew
<1>3. i \in Items /\ j.quantity \in 1..MaxQuantity
  BY <1>1 DEF CartInv, StillTrue
<1>4. RestaurantOfItem(i) \in Restaurants /\ Exists(RestaurantOfItem(i))
  BY <1>1, <1>3, MenuAssumption DEF MenuInv, MenuIsOrdered, RestaurantOfItem
<1>5. stage' = stage /\ itemState' = itemState
  BY <1>1 DEF shopVars, restaurantVars, menuVars, itemVars
<1>6. Live' = {k} /\ cartOf'[k] = RestaurantOfItem(i)
  BY <1>2, <1>4, CartsAssumption DEF Live
<1>7. \A h \in CartIds, x \in Items : lines'[h][x] = IF h = k /\ x = i THEN j.quantity ELSE 0
  BY <1>2, <1>3 DEF NoLines
<1>8. CartTypes'
  <2>1. cartOf' \in [CartIds -> Restaurants \cup {"NONE", "GONE"}]
    BY <1>2, <1>4 DEF CartInv, CartTypes
  <2>2. lines' \in [CartIds -> [Items -> 0..MaxQuantity]]
    BY <1>2, <1>3, CartsAssumption DEF NoLines
  <2> QED
    BY <1>1, <2>1, <2>2 DEF CartInv, CartTypes
<1>9. OneCart' /\ CartsKept' /\ CartsAge
  <2>1. RestaurantOfItem(i) # "NONE"
    BY <1>4, CartsAssumption
  <2>2. \A h \in CartIds : cartOf[h] # "NONE" => cartOf'[h] # "NONE"
    BY <1>2, <2>1
  <2> QED
    BY <1>2, <1>4, <1>5, <1>6, <2>2 DEF OneCart, CartsKept, CartsAge, Exists
<1>10. LinesKept'
  <2>1. \A h \in CartIds : InCart(h)' \subseteq IF h = k THEN {i} ELSE {}
    BY <1>7 DEF InCart
  <2> QED
    BY <1>1, <1>5, <1>6, <2>1 DEF LinesKept, RestaurantOfItem
<1>11. OrdersKept' /\ Ordered' = Ordered
  BY <1>1, <1>5, OrdersStay
<1>12. ASSUME NEW t \in Sessions PROVE StillTrue(job[t])'
  <2>1. \/ job'[t].op \in {"idle", "gone", "remove"}
        \/ /\ job'[t] = job[t]
           /\ job[t].op = "reduce" => <<job[t].cart, job[t].item>> \notin Live \X Items
    BY <1>1, JobsOfGone
  <2>2. CASE job'[t].op \in {"idle", "gone", "remove"}
    BY <2>2, NothingHeld DEF CartReads
  <2>3. CASE /\ job'[t] = job[t]
             /\ job[t].op = "reduce" => <<job[t].cart, job[t].item>> \notin Live \X Items
    <3>1. job[t].op = "reduce" => job[t].cart \in CartIds /\ job[t].item \in InCart(job[t].cart)
      BY DEF CartInv, StillTrue
    <3>2. job[t].op = "reduce" => job[t].cart \in Live
      BY <3>1 DEF CartInv, LinesKept
    <3>3. job[t].op # "reduce"
      BY <2>3, <3>1, <3>2 DEF InCart
    <3> QED
      BY <1>9, <1>11, <2>3, <3>3, StaysTrue
  <2> QED
    BY <2>1, <2>2, <2>3
<1> QED
  BY <1>8, <1>9, <1>10, <1>11, <1>12 DEF CartInv

-----------------------------------------------------------------------------
(* Taking away. *)
LEMMA TakeKeeps ==
    ASSUME CartInv, MenuInv, NEW s \in Sessions,
           \/ reduce_cart_item_quantity(s) \/ remove_cart_item(s)
           \/ RemoveCommit(s) \/ clear_cart(s)
    PROVE  CartInv'
<1> DEFINE j == job[s]
<1>1. CASE reduce_cart_item_quantity(s)
  <2>1. /\ j.op = "reduce" /\ LineWritten(j.cart, j.item, j.left)
        /\ End(s) /\ UNCHANGED <<cartOf, order, shopVars>>
    BY <1>1 DEF reduce_cart_item_quantity, LineWritten
  <2>2. j.cart \in CartIds /\ j.item \in InCart(j.cart) /\ j.left \in 1..MaxQuantity
    BY <2>1 DEF CartInv, StillTrue
  <2>3. j.cart \in Live /\ itemState[j.item] # "NONE" /\ RestaurantOfItem(j.item) = cartOf[j.cart]
    BY <2>2 DEF CartInv, LinesKept
  <2>4. job'[s] = Idle /\ \A t \in Sessions \ {s} : job'[t] = job[t]
    BY <2>1 DEF End, MenuInv, MenuFunctions
  <2>5. j.left \in 0..MaxQuantity /\ j.left > 0
    BY <2>2, CartsAssumption
  <2> QED
    BY <2>1, <2>3, <2>4, <2>5, LineKeeps
<1>2. CASE remove_cart_item(s)
  <2>1. StillTrue([op |-> "removed", cart |-> j.cart, item |-> j.item,
                   last |-> InCart(j.cart) \subseteq {j.item}])
    BY DEF StillTrue
  <2> QED
    BY <1>2, <2>1, LoadKeeps DEF remove_cart_item, Continue
<1>3. CASE RemoveCommit(s) /\ j.last
  <2>1. Dropped(s, {j.cart}) /\ UNCHANGED <<order, shopVars>>
    BY <1>3 DEF RemoveCommit
  <2>2. UNCHANGED itemState
    BY <2>1 DEF shopVars, menuVars, itemVars
  <2> QED
    BY <2>1, <2>2, OrdersStay, DropKeeps
<1>4. CASE RemoveCommit(s) /\ ~j.last
  <2>1. /\ lines' = [lines EXCEPT ![j.cart] = [i \in Items |-> IF i = j.item THEN 0 ELSE @[i]]]
        /\ LinesGone(s, {<<j.cart, j.item>>})
        /\ UNCHANGED <<cartOf, order, shopVars>>
    BY <1>4 DEF RemoveCommit
  <2>2. LineWritten(j.cart, j.item, 0)
    BY <2>1 DEF LineWritten, CartInv, CartTypes
  <2>3. job'[s] = Idle
    BY <2>1 DEF LinesGone
  <2>4. \A t \in Sessions \ {s} :
            \/ job'[t].op \notin CartReads
            \/ job'[t] = job[t] /\ ~(job[t].op = "reduce" /\ job[t].cart = j.cart /\ job[t].item = j.item)
    BY <2>1, JobsOfGone DEF CartReads
  <2>5. 0 \in 0..MaxQuantity
    BY CartsAssumption
  <2> QED
    BY <2>1, <2>2, <2>3, <2>4, <2>5, LineKeeps
<1>5. CASE clear_cart(s)
  <2>1. Dropped(s, j.had) /\ UNCHANGED <<order, shopVars>>
    BY <1>5 DEF clear_cart
  <2>2. UNCHANGED itemState
    BY <2>1 DEF shopVars, menuVars, itemVars
  <2> QED
    BY <2>1, <2>2, OrdersStay, DropKeeps
<1> QED
  BY <1>1, <1>2, <1>3, <1>4, <1>5

-----------------------------------------------------------------------------
(* Ordering.  An order is made from what the checkout read; the items it   *)
(* names are there when it commits.                                        *)
LEMMA OrderMade ==
    ASSUME CartInv, NEW s \in Sessions, checkout(s)
    PROVE  OrdersKept' /\ Ordered \subseteq Ordered' /\ order' = [o \in OrderIds |-> order'[o]]
<1> DEFINE j == job[s]
<1>1. /\ j.op = "checkout" /\ \A i \in Bought(j) : itemState[i] # "NONE"
      /\ UNCHANGED shopVars
  BY DEF checkout
<1>2. PICK o \in OrderIds \ Ordered, now \in {"PLACED", "AWAITING_PAYMENT"} :
          order' = [order EXCEPT ![o] = [status |-> now, of |-> j.r, items |-> Bought(j),
                                         subtotal |-> j.subtotal,
                                         total |-> LineTotals(j.lines, j.price)]]
  BY DEF checkout
<1>3. /\ \A i \in Bought(j) : RestaurantOfItem(i) = j.r
      /\ j.subtotal = SumOf(LineTotals(j.lines, j.price))
  BY <1>1 DEF CartInv, StillTrue
<1>4. DOMAIN LineTotals(j.lines, j.price) = Bought(j)
  BY DEF LineTotals, Bought
<1>5. itemState' = itemState
  BY <1>1 DEF shopVars, menuVars, itemVars
<1>6. order' = [x \in OrderIds |-> order'[x]] /\ (\A x \in OrderIds \ {o} : order'[x] = order[x])
      /\ order'[o] = [status |-> now, of |-> j.r, items |-> Bought(j), subtotal |-> j.subtotal,
                      total |-> LineTotals(j.lines, j.price)]
  BY <1>2 DEF CartInv, CartTypes
<1>7. Ordered' = Ordered \cup {o}
  BY <1>6 DEF Ordered
<1> DEFINE rec == order'[o]
<1>8. /\ rec = [status |-> rec.status, of |-> rec.of, items |-> rec.items,
                subtotal |-> rec.subtotal, total |-> rec.total]
      /\ rec.items = Bought(j) /\ rec.of = j.r /\ rec.subtotal = j.subtotal
      /\ rec.total = LineTotals(j.lines, j.price)
  BY <1>6
<1>9. \A i \in Bought(j) : i \in Items
  BY DEF Bought
<1>10. ASSUME NEW x \in Ordered' PROVE
          /\ order'[x] = [status |-> order'[x].status, of |-> order'[x].of, items |-> order'[x].items,
                          subtotal |-> order'[x].subtotal, total |-> order'[x].total]
          /\ \A i \in order'[x].items : i \in Items /\ itemState[i] # "NONE"
                                       /\ RestaurantOfItem(i) = order'[x].of
          /\ order'[x].subtotal = SumOf(order'[x].total)
          /\ DOMAIN order'[x].total = order'[x].items
  <2>1. CASE x = o
    BY <1>1, <1>3, <1>4, <1>8, <1>9, <2>1
  <2>2. CASE x # o
    <3>1. x \in Ordered /\ order'[x] = order[x]
      BY <1>6, <1>7, <2>2 DEF Ordered
    <3> QED
      BY <3>1 DEF CartInv, OrdersKept
  <2> QED
    BY <2>1, <2>2
<1>11. OrdersKept'
  BY <1>5, <1>10 DEF OrdersKept, RestaurantOfItem
<1> QED
  BY <1>6, <1>7, <1>11

LEMMA OrderCaptured ==
    ASSUME CartInv, NEW s \in Sessions, handle_payment_captured(s)
    PROVE  OrdersKept' /\ Ordered \subseteq Ordered' /\ order' = [o \in OrderIds |-> order'[o]]
<1> DEFINE j == job[s]
<1>1. /\ j.op = "capture" /\ order' = [order EXCEPT ![j.order].status = "PLACED"]
      /\ UNCHANGED shopVars
  BY DEF handle_payment_captured
<1>2. j.order \in Ordered
  BY <1>1 DEF CartInv, StillTrue
<1>3. itemState' = itemState
  BY <1>1 DEF shopVars, menuVars, itemVars
<1>4. \A o \in OrderIds : order'[o] = IF o = j.order THEN [order[o] EXCEPT !.status = "PLACED"] ELSE order[o]
  BY <1>1 DEF CartInv, CartTypes
<1>5. order' = [o \in OrderIds |-> order'[o]]
  BY <1>1 DEF CartInv, CartTypes
<1>6. ASSUME NEW o \in Ordered
      PROVE  /\ order'[o] = [status |-> order'[o].status, of |-> order'[o].of, items |-> order'[o].items,
                             subtotal |-> order'[o].subtotal, total |-> order'[o].total]
             /\ order'[o].of = order[o].of /\ order'[o].items = order[o].items
             /\ order'[o].subtotal = order[o].subtotal /\ order'[o].total = order[o].total
             /\ order'[o].status # "NONE"
  <2>1. o \in OrderIds /\ order[o].status # "NONE"
    BY DEF Ordered
  <2>2. order[o] = [status |-> order[o].status, of |-> order[o].of, items |-> order[o].items,
                    subtotal |-> order[o].subtotal, total |-> order[o].total]
    BY DEF CartInv, OrdersKept
  <2>3. CASE o # j.order
    BY <1>4, <2>1, <2>2, <2>3
  <2>4. CASE o = j.order
    <3>1. order'[o] = [[status |-> order[o].status, of |-> order[o].of, items |-> order[o].items,
                        subtotal |-> order[o].subtotal, total |-> order[o].total]
                          EXCEPT !.status = "PLACED"]
      BY <1>4, <2>1, <2>2, <2>4
    <3>2. order'[o] = [status |-> "PLACED", of |-> order[o].of, items |-> order[o].items,
                       subtotal |-> order[o].subtotal, total |-> order[o].total]
      BY <3>1
    <3> QED
      BY <3>2
  <2> QED
    BY <2>3, <2>4
<1>7. Ordered' = Ordered
  <2>1. \A o \in OrderIds \ Ordered : order'[o] = order[o]
    BY <1>2, <1>4
  <2> QED
    BY <1>6, <2>1 DEF Ordered
<1>8. OrdersKept'
  BY <1>3, <1>6, <1>7 DEF CartInv, OrdersKept, RestaurantOfItem
<1> QED
  BY <1>5, <1>7, <1>8

LEMMA OrderingKeeps ==
    ASSUME CartInv, MenuInv, NEW s \in Sessions, checkout(s) \/ handle_payment_captured(s)
    PROVE  CartInv'
<1>1. OrdersKept' /\ Ordered \subseteq Ordered' /\ order' = [o \in OrderIds |-> order'[o]]
  BY OrderMade, OrderCaptured
<1>2. UNCHANGED shopVars
  BY DEF checkout, handle_payment_captured
<1>3. ASSUME NEW K, Dropped(s, K) PROVE CartInv'
  BY <1>1, <1>2, <1>3, DropKeeps
<1>4. CASE End(s) /\ UNCHANGED cartVars
  <2>1. stage' = stage /\ itemState' = itemState
    BY <1>2 DEF shopVars, restaurantVars, menuVars, itemVars
  <2>2. Live' = Live /\ (\A k : InCart(k)' = InCart(k)) /\ cartOf' = cartOf
    BY <1>4 DEF cartVars, Live, InCart
  <2>3. CartTypes' /\ OneCart' /\ CartsAge /\ CartsKept' /\ LinesKept'
    BY <1>1, <1>4, <2>1, <2>2 DEF cartVars, CartInv, CartTypes, OneCart, CartsAge, CartsKept, LinesKept,
       Exists, RestaurantOfItem
  <2>4. ASSUME NEW t \in Sessions PROVE StillTrue(job[t])'
    <3>1. job'[t] = job[t] \/ job'[t] = Idle
      BY <1>4 DEF End, MenuInv, MenuFunctions
    <3>2. CASE job'[t] = Idle
      BY <3>2, NothingHeld DEF Idle, CartReads
    <3>3. CASE job'[t] = job[t]
      <4>1. job[t].op = "reduce" => job[t].item \in InCart(job[t].cart)
        BY DEF CartInv, StillTrue
      <4> QED
        BY <1>1, <2>2, <2>3, <3>3, <4>1, StaysTrue
    <3> QED
      BY <3>1, <3>2, <3>3
  <2> QED
    BY <1>1, <2>3, <2>4 DEF CartInv
<1> QED
  BY <1>3, <1>4 DEF checkout, handle_payment_captured

(* Every step of a customer's request. *)
LEMMA CartStepKeeps ==
    ASSUME CartInv, MenuInv, NEW s \in Sessions, CartStep(s)
    PROVE  CartInv'
<1>1. AddFails(s) \/ CheckoutFails(s) => CartRefused(s)
  BY DEF AddFails, CheckoutFails
<1> QED
  BY <1>1, AddKeeps, ReplaceKeeps, TakeKeeps, OrderingKeeps, RefusedKeeps DEF CartStep

(* And what a customer's request does to the sessions: none of them comes  *)
(* to hold a row of an owner.                                              *)
LEMMA CustomerJobs ==
    ASSUME MenuInv, NEW s \in Sessions,
           CartRequest(s, Items, 1..MaxQuantity) \/ OrderRequest(s) \/ CartStep(s)
    PROVE  /\ UNCHANGED shopVars /\ job' = [t \in Sessions |-> job'[t]]
           /\ \A t \in Sessions : job'[t] = job[t] \/ job'[t].op \in CartOps
<1> DEFINE OK == /\ UNCHANGED shopVars /\ job' = [t \in Sessions |-> job'[t]]
                 /\ \A t \in Sessions : job'[t] = job[t] \/ job'[t].op \in CartOps
<1>1. ASSUME NEW j, job' = [job EXCEPT ![s] = j], j.op \in CartOps, UNCHANGED shopVars PROVE OK
  BY <1>1 DEF MenuInv, MenuFunctions
<1>2. ASSUME NEW L, LinesGone(s, L), UNCHANGED shopVars PROVE OK
  <2>1. /\ job' = [t \in Sessions |-> job'[t]]
        /\ \A t \in Sessions : job'[t].op \in {"idle", "gone", "remove"} \/ job'[t] = job[t]
    BY <1>2, JobsOfGone
  <2> QED
    BY <1>2, <2>1 DEF CartOps
<1>3. CASE End(s) /\ UNCHANGED shopVars
  BY <1>1, <1>3 DEF End, Idle, CartOps
<1>4. ASSUME NEW j, CartLoad(s, j), j.op \in CartOps PROVE OK
  BY <1>1, <1>4 DEF CartLoad, Begin
<1>5. CASE CartRequest(s, Items, 1..MaxQuantity)
  <2>1. ASSUME NEW i \in Items, NEW q \in 1..MaxQuantity, AddRead(s, i, q) PROVE OK
    <3>1. PICK j : CartLoad(s, j) /\ j.op = "add"
      BY <2>1 DEF AddRead
    <3> QED
      BY <1>4, <3>1 DEF CartOps, CartReads
  <2>2. ASSUME NEW k \in Live, NEW i \in Items, LineRead(s, k, i) PROVE OK
    <3>1. PICK j : CartLoad(s, j) /\ j.op \in {"remove", "reduce"}
      <4>1. PICK n : CartLoad(s, [op |-> IF n = lines[k][i] THEN "remove" ELSE "reduce",
                                  cart |-> k, item |-> i, left |-> lines[k][i] - n])
        BY <2>2 DEF LineRead
      <4>2. [op |-> IF n = lines[k][i] THEN "remove" ELSE "reduce",
             cart |-> k, item |-> i, left |-> lines[k][i] - n].op \in {"remove", "reduce"}
        OBVIOUS
      <4> QED
        BY <4>1, <4>2
    <3> QED
      BY <1>4, <3>1 DEF CartOps, CartReads
  <2>3. CASE ClearRead(s)
    BY <1>4, <2>3 DEF ClearRead, CartOps
  <2> QED
    BY <1>5, <2>1, <2>2, <2>3 DEF CartRequest
<1>6. CASE OrderRequest(s)
  <2>1. PICK j : CartLoad(s, j) /\ j.op \in {"checkout", "capture"}
    <3>1. ASSUME NEW k \in Live, CheckoutRead(s, k)
          PROVE  \E j : CartLoad(s, j) /\ j.op \in {"checkout", "capture"}
      <4>1. PICK method : CartLoad(s, [op |-> "checkout", cart |-> k, method |-> method, r |-> cartOf[k],
                                       lines |-> lines[k], price |-> price,
                                       subtotal |-> SumOf(LineTotals(lines[k], price))])
        BY <3>1 DEF CheckoutRead
      <4>2. [op |-> "checkout", cart |-> k, method |-> method, r |-> cartOf[k],
             lines |-> lines[k], price |-> price,
             subtotal |-> SumOf(LineTotals(lines[k], price))].op \in {"checkout", "capture"}
        OBVIOUS
      <4> QED
        BY <4>1, <4>2
    <3>2. ASSUME NEW o \in OrderIds, CaptureRead(s, o)
          PROVE  \E j : CartLoad(s, j) /\ j.op \in {"checkout", "capture"}
      BY <3>2 DEF CaptureRead
    <3> QED
      BY <1>6, <3>1, <3>2 DEF OrderRequest
  <2> QED
    BY <1>4, <2>1 DEF CartOps, CartReads
<1>7. CASE CartStep(s)
  <2>1. CASE AddToSame(s) \/ reduce_cart_item_quantity(s) \/ AddFails(s) \/ CheckoutFails(s)
    BY <1>3, <2>1 DEF AddToSame, reduce_cart_item_quantity, AddFails, CheckoutFails, CartRefused
  <2>2. CASE AddToNew(s) \/ RemoveCommit(s) \/ clear_cart(s) \/ handle_payment_captured(s)
    BY <1>2, <2>2 DEF AddToNew, RemoveCommit, clear_cart, handle_payment_captured, Dropped
  <2>3. CASE checkout(s)
    BY <1>2, <1>3, <2>3 DEF checkout, Dropped
  <2>4. CASE remove_cart_item(s)
    <3>1. PICK b : job' = [job EXCEPT ![s] = [op |-> "removed", cart |-> job[s].cart, item |-> job[s].item,
                                              last |-> b]]
      BY <2>4 DEF remove_cart_item, Continue
    <3> QED
      BY <1>1, <2>4, <3>1 DEF remove_cart_item, CartOps
  <2> QED
    BY <1>7, <2>1, <2>2, <2>3, <2>4 DEF CartStep
<1> QED
  BY <1>5, <1>6, <1>7

-----------------------------------------------------------------------------
(* The owners' requests arrive. *)
LEMMA OwnerJobs ==
    ASSUME NEW s \in Sessions, OwnerArrives(s)
    PROVE  UNCHANGED shopVars /\ \E j : Begin(s, j) /\ j.op \notin CartReads
<1> USE DEF CartReads
<1> DEFINE OK == UNCHANGED shopVars /\ \E j : Begin(s, j) /\ j.op \notin CartReads
<1>1. ASSUME NEW r \in Restaurants, RestaurantRequest(s, r), UNCHANGED menuVars PROVE OK
  <2>1. ASSUME NEW op \in {"documents", "activate", "pause", "resume", "closure", "delete"}, Load(s, op, r)
        PROVE  OK
    BY <1>1, <2>1 DEF Load, shopVars
  <2>2. CASE DraftRead(s, r)
    BY <1>1, <2>2 DEF DraftRead, shopVars
  <2>3. ASSUME NEW h, HoursRead(s, r, h) \/ DayHoursRead(s, r, h) PROVE OK
    BY <1>1, <2>3 DEF HoursRead, DayHoursRead, shopVars
  <2>4. CASE ReopenRead(s, r)
    BY <1>1, <2>4 DEF ReopenRead, shopVars
  <2> QED
    BY <1>1, <2>1, <2>2, <2>3, <2>4 DEF RestaurantRequest, DocumentsRead, ActivateRead, PauseRead,
       ResumeRead, ClosureRead, DeleteRead
<1>2. ASSUME NEW c \in Categories, CategoryRequest(s, c) PROVE OK
  <2>1. CASE CategoryRead(s, c)
    BY <2>1 DEF CategoryRead, shopVars
  <2>2. CASE ReorderCategoriesRead(s, RestaurantOf[c])
    BY <2>2 DEF ReorderCategoriesRead, shopVars
  <2>3. ASSUME NEW op \in DOMAIN CategoryOp, CategoryLoad(s, op, c) PROVE OK
    <3>1. op \in {"archiveCat", "unarchiveCat", "deleteCat"}
      BY DEF CategoryOp
    <3> QED
      BY <2>3, <3>1 DEF CategoryLoad, shopVars
  <2> QED
    BY <1>2, <2>1, <2>2, <2>3 DEF CategoryRequest
<1>3. ASSUME NEW i \in Items, NEW op \in ItemOps, NEW more, ItemLoad(s, op, i, more) PROVE OK
  BY <1>3 DEF ItemLoad, ItemOps, shopVars
<1>4. ASSUME NEW i \in Items, ItemRequest(s, i) PROVE OK
  <2>1. ASSUME NEW p, NEW d, NEW a, ItemRead(s, i, p, d, a) PROVE OK
    BY <2>1 DEF ItemRead, shopVars
  <2>2. CASE ReorderItemsRead(s, HomeOf[i])
    BY <2>2 DEF ReorderItemsRead, shopVars
  <2> QED
    BY <1>3, <1>4, <2>1, <2>2 DEF ItemRequest, ToggleRead, ArchiveRead, UnarchiveRead, DeleteItemRead, ItemOps
<1>5. ASSUME NEW i \in Items, NEW p, NEW d, UpdateRead(s, i, p, d) PROVE OK
  BY <1>3, <1>5 DEF UpdateRead, ItemOps
<1> QED
  BY <1>1, <1>2, <1>4, <1>5 DEF OwnerArrives

(* No row that a cart or an order refers to goes. *)
HeldRemain ==
    /\ \A k \in Live : stage[cartOf[k]] # "NONE" => stage'[cartOf[k]] # "NONE"
    /\ \A i \in HeldItems : itemState[i] # "NONE" => itemState'[i] # "NONE"

LEMMA JobsEnd ==
    ASSUME MenuInv, NEW s \in Sessions, NEW j, job' = [job EXCEPT ![s] = j], j.op \notin CartReads
    PROVE  \A t \in Sessions : job'[t] = job[t] \/ job'[t].op \notin CartReads
BY DEF MenuInv, MenuFunctions

(* Whatever a request of an owner does that leaves those rows alone. *)
LEMMA OwnerMoveKeeps ==
    ASSUME CartInv, HeldRemain, UNCHANGED <<cartVars, order>>,
           \A t \in Sessions : job'[t] = job[t] \/ job'[t].op \notin CartReads
    PROVE  CartInv'
<1>1. \A t \in Sessions : job'[t] = job[t] \/ StillTrue(job[t])'
  BY NothingHeld
<1> QED
  BY <1>1, CartsUntouched DEF HeldRemain

LEMMA HeldAreItems ==
    ASSUME CartInv
    PROVE  /\ HeldItems \subseteq Items
           /\ \A i \in HeldItems : RestaurantOfItem(i) \in HeldRestaurants
<1> SUFFICES ASSUME NEW i \in HeldItems
             PROVE  i \in Items /\ RestaurantOfItem(i) \in HeldRestaurants
  OBVIOUS
<1>1. ASSUME NEW k \in Live, i \in InCart(k) PROVE i \in Items /\ RestaurantOfItem(i) \in HeldRestaurants
  <2>1. i \in Items /\ RestaurantOfItem(i) = cartOf[k]
    BY <1>1 DEF CartInv, LinesKept, Live, InCart
  <2> QED
    BY <2>1 DEF HeldRestaurants
<1>2. ASSUME NEW o \in Ordered, i \in order[o].items
      PROVE  i \in Items /\ RestaurantOfItem(i) \in HeldRestaurants
  <2>1. i \in Items /\ RestaurantOfItem(i) = order[o].of
    BY <1>2 DEF CartInv, OrdersKept
  <2> QED
    BY <2>1 DEF HeldRestaurants
<1> QED
  BY <1>1, <1>2 DEF HeldItems

(* The owner's commits on the menu. *)
LEMMA MenuMovesKeep ==
    ASSUME CartInv, MenuInv, NEW s \in Sessions, UNCHANGED <<cartVars, order>>,
           CategoryStep(s) \/ ItemStep(s, HeldItems) \/ MenuRowGone(s)
    PROVE  CartInv'
<1> USE DEF restaurantVars, catVars, itemVars
<1> DEFINE JobsOK == \A t \in Sessions : job'[t] = job[t] \/ job'[t].op \notin CartReads
<1>1. ASSUME End(s) PROVE JobsOK
  BY <1>1, JobsEnd DEF End, Idle, CartReads
<1>2. CASE End(s) /\ UNCHANGED <<stage, itemState>>
  BY <1>1, <1>2, OwnerMoveKeeps DEF HeldRemain
<1>3. CASE delete_menu_category(s)
  <2>1. job' = [t \in Sessions |-> IF t = s THEN Idle
                                   ELSE IF WritesCategory(job[t], job[s].cat) THEN [op |-> "gone"] ELSE job[t]]
    BY <1>3 DEF delete_menu_category, Orphan
  <2>2. JobsOK
    BY <2>1 DEF Idle, CartReads
  <2> QED
    BY <1>3, <2>2, OwnerMoveKeeps DEF delete_menu_category, HeldRemain
<1>4. CASE create_menu_item(s)
  <2>1. /\ End(s) /\ itemState' = [itemState EXCEPT ![job[s].item] = "ACTIVE"]
        /\ \E new \in {stage[job[s].r], "MENU_ADDED"} : stage' = [stage EXCEPT ![job[s].r] = new]
    BY <1>4 DEF create_menu_item
  <2>2. /\ \A r \in Restaurants : stage[r] # "NONE" => stage'[r] # "NONE"
        /\ \A i \in Items : itemState[i] # "NONE" => itemState'[i] # "NONE"
    BY <2>1 DEF MenuInv, MenuFunctions
  <2>3. HeldRemain
    BY <2>2, HeldAreItems DEF HeldRemain, Live
  <2> QED
    BY <1>1, <2>1, <2>3, OwnerMoveKeeps
<1>5. CASE archive_menu_item(s) \/ unarchive_menu_item(s)
  <2>1. /\ End(s) /\ stage' = stage
        /\ \E new \in {"ACTIVE", "ARCHIVED"} : itemState' = [itemState EXCEPT ![job[s].item] = new]
    BY <1>5 DEF archive_menu_item, unarchive_menu_item
  <2>2. \A i \in Items : itemState[i] # "NONE" => itemState'[i] # "NONE"
    BY <2>1 DEF MenuInv, MenuFunctions
  <2>3. HeldRemain
    BY <2>1, <2>2, HeldAreItems DEF HeldRemain
  <2> QED
    BY <1>1, <2>1, <2>3, OwnerMoveKeeps
<1>6. CASE delete_menu_item(s, HeldItems)
  <2> DEFINE i == job[s].item
  <2>1. /\ i \notin HeldItems /\ itemState' = [itemState EXCEPT ![i] = "NONE"]
        /\ stage' = stage
    BY <1>6 DEF delete_menu_item
  <2>2. job' = [t \in Sessions |->
                   IF t = s THEN Idle
                   ELSE IF \/ job[t].op \in ItemOps /\ job[t].item = i
                           \/ Moves(job[t], "sortItems", i)
                        THEN [op |-> "gone"] ELSE job[t]]
    BY <1>6 DEF delete_menu_item, Orphan
  <2>3. JobsOK
    BY <2>2 DEF Idle, CartReads
  <2>4. \A x \in Items \ {i} : itemState'[x] = itemState[x]
    BY <2>1 DEF MenuInv, MenuFunctions
  <2>5. HeldRemain
    BY <2>1, <2>4, HeldAreItems DEF HeldRemain
  <2> QED
    BY <2>3, <2>5, OwnerMoveKeeps
<1>7. CategoryStep(s) /\ ~delete_menu_category(s) => End(s) /\ UNCHANGED <<stage, itemState>>
  BY DEF CategoryStep, create_menu_category, CategoryTaken, reorder_menu_categories, ReorderCategoriesFails,
     archive_menu_category, unarchive_menu_category, DeleteCategoryFails, Refused, menuVars
<1>8. ItemStep(s, HeldItems) => \/ End(s) /\ UNCHANGED <<stage, itemState>>
                                \/ create_menu_item(s) \/ archive_menu_item(s) \/ unarchive_menu_item(s)
                                \/ delete_menu_item(s, HeldItems)
  BY DEF ItemStep, ItemTaken, reorder_menu_items_for_category, ReorderItemsFails, update_menu_item,
     toggle_menu_item_availability, DeleteItemFails, Refused, menuVars
<1>9. MenuRowGone(s) => End(s) /\ UNCHANGED <<stage, itemState>>
  BY DEF MenuRowGone, Refused, menuVars
<1> QED
  BY <1>2, <1>3, <1>4, <1>5, <1>6, <1>7, <1>8, <1>9

(* The owner's commits on the restaurant; a deletion meets no cart and no  *)
(* order of it.                                                            *)
LEMMA RestaurantMovesKeep ==
    ASSUME CartInv, MenuInv, NEW s \in Sessions, RestaurantMoves(s)
    PROVE  CartInv'
<1> USE DEF restaurantVars, menuVars, catVars, itemVars
<1> DEFINE JobsOK == \A t \in Sessions : job'[t] = job[t] \/ job'[t].op \notin CartReads
           r == job[s].r
<1>1. UNCHANGED <<cartVars, order>>
  BY DEF RestaurantMoves
<1>2. ASSUME End(s) PROVE JobsOK
  BY <1>2, JobsEnd DEF End, Idle, CartReads
<1>3. CASE End(s) /\ UNCHANGED <<stage, itemState>>
  BY <1>1, <1>2, <1>3, OwnerMoveKeeps DEF HeldRemain
<1>4. ASSUME End(s), NEW new, new # "NONE", stage' = [stage EXCEPT ![r] = new], itemState' = itemState
      PROVE  CartInv'
  <2>1. \A x \in Restaurants : stage[x] # "NONE" => stage'[x] # "NONE"
    BY <1>4 DEF MenuInv, MenuFunctions
  <2>2. HeldRemain
    BY <1>4, <2>1 DEF HeldRemain, Live
  <2> QED
    BY <1>1, <1>2, <1>4, <2>2, OwnerMoveKeeps
<1>5. CASE OwnerStep(s) /\ delete_restaurant(s) /\ r \notin HeldRestaurants
  <2>1. /\ r \notin HeldRestaurants /\ MenuGoesWith(s)
        /\ stage' = [stage EXCEPT ![r] = "NONE"]
        /\ job' = [t \in Sessions |-> IF t = s THEN Idle
                                      ELSE IF Holds(t, r) THEN [op |-> "gone"] ELSE job[t]]
    BY <1>5 DEF OwnerStep, delete_restaurant
  <2>2. JobsOK
    BY <2>1 DEF Idle, CartReads
  <2>3. /\ \A x \in Restaurants \ {r} : stage'[x] = stage[x]
        /\ \A i \in Items : RestaurantOfItem(i) # r => itemState'[i] = itemState[i]
    BY <2>1 DEF MenuInv, MenuFunctions, MenuGoesWith
  <2>4. \A k \in Live : cartOf[k] \in Restaurants \ {r}
    BY <2>1 DEF Live, HeldRestaurants
  <2>5. \A i \in HeldItems : i \in Items /\ RestaurantOfItem(i) # r
    BY <2>1, HeldAreItems
  <2>6. HeldRemain
    BY <2>3, <2>4, <2>5 DEF HeldRemain
  <2> QED
    BY <1>1, <2>2, <2>6, OwnerMoveKeeps
<1>6. CASE OwnerStep(s) /\ ~delete_restaurant(s)
  <2>1. RestaurantStep(s) /\ itemState' = itemState
    <3>1. job[s].op # "delete"
      BY <1>6 DEF OwnerStep, RestaurantStep, create_restaurant_draft, DraftExists,
         upload_restaurant_documents, activate_restaurant, create_restaurant_hours, update_day_hours,
         HoursClash, pause_restaurant, resume_restaurant, create_closure, delete_closure, RowGone
    <3> QED
      BY <1>6, <3>1 DEF OwnerStep
  <2>2. CASE create_restaurant_draft(s) \/ activate_restaurant(s)
    BY <1>4, <2>1, <2>2 DEF create_restaurant_draft, activate_restaurant
  <2>3. ASSUME End(s), NEW new \in {stage[r], "DOCUMENTS_ADDED", "TIMINGS_ADDED"},
               stage' = [stage EXCEPT ![r] = new]
        PROVE  CartInv'
    <3>1. CASE new = stage[r]
      <4>1. stage' = stage
        BY <2>3, <3>1 DEF MenuInv, MenuFunctions
      <4> QED
        BY <1>3, <2>1, <2>3, <4>1
    <3>2. CASE new # stage[r]
      BY <1>4, <2>1, <2>3, <3>2
    <3> QED
      BY <3>1, <3>2
  <2>4. CASE upload_restaurant_documents(s) \/ create_restaurant_hours(s)
    <3>1. End(s) /\ \E new \in {stage[r], "DOCUMENTS_ADDED", "TIMINGS_ADDED"} :
                       stage' = [stage EXCEPT ![r] = new]
      BY <2>4 DEF upload_restaurant_documents, create_restaurant_hours, Flushed
    <3> QED
      BY <2>3, <3>1
  <2>5. CASE \/ DraftExists(s) \/ HoursClash(s) \/ RowGone(s) \/ update_day_hours(s)
             \/ pause_restaurant(s) \/ resume_restaurant(s) \/ create_closure(s) \/ delete_closure(s)
    BY <1>3, <2>1, <2>5 DEF DraftExists, HoursClash, RowGone, update_day_hours, pause_restaurant,
       resume_restaurant, create_closure, delete_closure
  <2> QED
    BY <1>6, <2>1, <2>2, <2>4, <2>5 DEF RestaurantStep
<1>7. CASE DeleteRestaurantFails(s)
  BY <1>3, <1>7 DEF DeleteRestaurantFails, Refused
<1> QED
  BY <1>5, <1>6, <1>7 DEF RestaurantMoves, delete_restaurant

-----------------------------------------------------------------------------
(* The whole shop. *)
ShopInv == OwnerInv /\ MenuInv /\ CartInv

LEMMA InitShop == ShopInit => ShopInv
<1> SUFFICES ASSUME ShopInit PROVE CartInv
  BY InitOwner, InitMenu DEF ShopInit, ShopInv
<1>1. Live = {} /\ Ordered = {} /\ \A k \in CartIds : InCart(k) = {}
  BY CartsAssumption DEF ShopInit, NoCart, NoLines, NoOrder, Live, Ordered, InCart
<1>2. CartTypes
  BY CartsAssumption DEF ShopInit, NoCart, NoLines, CartTypes
<1>3. \A s \in Sessions : StillTrue(job[s])
  BY DEF ShopInit, MenusInit, Idle, StillTrue
<1> QED
  BY <1>1, <1>2, <1>3 DEF CartInv, OneCart, CartsKept, LinesKept, OrdersKept

LEMMA NextKeepsShop == ShopInv /\ [ShopNext]_<<job, shopVars, cartVars, order>> => ShopInv'
<1> SUFFICES ASSUME ShopInv, [ShopNext]_<<job, shopVars, cartVars, order>> PROVE ShopInv'
  OBVIOUS
<1> USE DEF ShopInv
<1>1. ASSUME MenusNext, CartInv' PROVE ShopInv'
  BY <1>1, NextKeepsOwner, NextKeepsMenu
<1>2. ASSUME NEW s \in Sessions,
             CartRequest(s, Items, 1..MaxQuantity) \/ OrderRequest(s) \/ CartStep(s)
      PROVE  ShopInv'
  BY <1>2, CustomerAsks, CartStepKeeps, CustomerJobs, OwnersUntouched
<1>3. ASSUME NEW s \in Sessions, ItemMoves(s) PROVE ShopInv'
  <2>1. CartInv'
    BY <1>3, MenuMovesKeep DEF ItemMoves
  <2>2. HeldItems \in SUBSET Items
    BY HeldAreItems
  <2> QED
    BY <1>1, <1>3, <2>1, <2>2 DEF ItemMoves, MenusNext
<1>4. ASSUME NEW s \in Sessions, RestaurantMoves(s) PROVE ShopInv'
  <2>1. CartInv'
    BY <1>4, RestaurantMovesKeep
  <2>2. CASE OwnerStep(s)
    BY <1>1, <2>1, <2>2 DEF MenusNext
  <2>3. CASE DeleteRestaurantFails(s)
    <3>1. End(s) /\ UNCHANGED <<restaurantVars, menuVars>>
      BY <2>3 DEF DeleteRestaurantFails, Refused
    <3>2. OwnerInv'
      BY <3>1, EndStays
    <3>3. MenuInv'
      BY <3>1, MenuEnds DEF restaurantVars, menuVars, catVars, itemVars
    <3> QED
      BY <2>1, <3>2, <3>3
  <2> QED
    BY <1>4, <2>2, <2>3 DEF RestaurantMoves
<1>5. ASSUME NEW s \in Sessions, CategoryStep(s), UNCHANGED <<cartVars, order>> PROVE ShopInv'
  <2>1. CartInv'
    BY <1>5, MenuMovesKeep
  <2> QED
    BY <1>1, <1>5, <2>1 DEF MenusNext
<1>6. ASSUME NEW s \in Sessions, OwnerArrives(s), UNCHANGED <<cartVars, order>> PROVE ShopInv'
  <2>1. PICK j : job' = [job EXCEPT ![s] = j] /\ j.op \notin CartReads
    BY <1>6, OwnerJobs DEF Begin
  <2>2. UNCHANGED <<stage, itemState>>
    BY <1>6, OwnerJobs DEF shopVars, restaurantVars, menuVars, itemVars
  <2>3. CartInv'
    BY <1>6, <2>1, <2>2, JobsEnd, OwnerMoveKeeps DEF HeldRemain
  <2> QED
    BY <1>1, <1>6, <2>3 DEF MenusNext
<1>7. ASSUME NEW c \in Closures, ClosureEnds(c), UNCHANGED <<menuVars, cartVars, order>> PROVE ShopInv'
  <2>1. UNCHANGED <<job, stage, itemState>>
    BY <1>7 DEF ClosureEnds, menuVars, itemVars
  <2>2. CartInv'
    BY <1>7, <2>1, OwnerMoveKeeps DEF HeldRemain
  <2> QED
    BY <1>1, <1>7, <2>2 DEF MenusNext
<1>8. CASE UNCHANGED <<job, shopVars, cartVars, order>>
  <2>1. UNCHANGED <<job, restaurantVars, menuVars>>
    BY <1>8 DEF shopVars
  <2>2. UNCHANGED <<stage, itemState>>
    BY <2>1 DEF restaurantVars, menuVars, itemVars
  <2>3. CartInv'
    BY <1>8, <2>2, OwnerMoveKeeps DEF HeldRemain
  <2> QED
    BY <2>1, <2>3, NextKeepsOwner, NextKeepsMenu
<1> QED
  BY <1>2, <1>3, <1>4, <1>5, <1>6, <1>7, <1>8 DEF ShopNext

LEMMA ShopKeeps == ShopSpec => []ShopInv
BY InitShop, NextKeepsShop, PTL DEF ShopSpec

-----------------------------------------------------------------------------
LEMMA OneCartCounted == CartInv => CartOfOneRestaurant
<1> SUFFICES ASSUME CartInv PROVE Cardinality(Live) <= 1
  BY DEF CartInv, CartOfOneRestaurant, CartsKept, LinesKept
<1>1. CASE Live = {}
  BY <1>1, FS_EmptySet
<1>2. ASSUME NEW k \in Live PROVE Cardinality(Live) <= 1
  <2>1. Live = {k}
    BY DEF CartInv, OneCart
  <2> QED
    BY <2>1, FS_Singleton
<1> QED
  BY <1>1, <1>2

(* For any carts, menus and requests in flight: a customer has one cart,   *)
(* every line of it is an existing item of the cart's restaurant, and that *)
(* restaurant exists (add_to_cart, remove_cart_item, checkout and the      *)
(* owner's delete_menu_item and delete_restaurant).                        *)
THEOREM CartStaysWhole == ShopSpec => []CartOfOneRestaurant
BY OneCartCounted, ShopKeeps, PTL DEF ShopInv

(* Every order is of one restaurant, names items that exist and charges    *)
(* the sum of its lines, however prices and menus change between the read  *)
(* and the commit of the checkout (checkout, handle_payment_captured).     *)
THEOREM OrdersAddUp == ShopSpec => []OrderAddsUp
<1>1. CartInv => OrderAddsUp
  BY DEF CartInv, OrdersKept, OrderAddsUp
<1> QED
  BY <1>1, ShopKeeps, PTL DEF ShopInv

(* Customers do not disturb the owners: what MenusSpec promises of a menu, *)
(* of an activation and of the weekly hours holds in the whole shop.       *)
THEOREM ShopKeepsMenus ==
    ShopSpec => [](MenuIsOrdered /\ ActivationComesFirst /\ ScheduleStaysComplete)
<1>1. ShopInv => MenuIsOrdered /\ ActivationComesFirst /\ ScheduleStaysComplete
  BY DEF ShopInv, MenuInv, OwnerInv, ClosedWasActive, ActivationComesFirst, ActiveClosures
<1> QED
  BY <1>1, ShopKeeps, PTL
-----------------------------------------------------------------------------
(* Types.  A snapshot is the price some request has read on the menu.      *)
Price == Prices \cup {0}

Priced(j) == j.op = "add" => j.price \in Price

SnapshotsPriced ==
    /\ snapshot \in [CartIds -> [Items -> Price]]
    /\ \A s \in Sessions : Priced(job[s])

LEMMA JobsPriced ==
    ASSUME SnapshotsPriced, \A t \in Sessions : job'[t] = job[t] \/ job'[t].op # "add"
    PROVE  \A t \in Sessions : Priced(job'[t])
BY DEF SnapshotsPriced, Priced

(* A customer's request arrives. *)
LEMMA AsksPriced ==
    ASSUME SnapshotsPriced, MenuInv, MenuTypes, NEW s \in Sessions,
           CartRequest(s, Items, 1..MaxQuantity) \/ OrderRequest(s)
    PROVE  SnapshotsPriced'
<1>1. ASSUME NEW j, CartLoad(s, j), Priced(j) PROVE SnapshotsPriced'
  <2>1. UNCHANGED snapshot /\ \A t \in Sessions : job'[t] = job[t] \/ job'[t] = j
    BY <1>1 DEF CartLoad, Begin, cartVars, MenuInv, MenuFunctions
  <2> QED
    BY <1>1, <2>1 DEF SnapshotsPriced
<1>2. ASSUME NEW i \in Items, NEW q, AddRead(s, i, q) PROVE SnapshotsPriced'
  <2> DEFINE j == [op |-> "add", item |-> i, quantity |-> q, price |-> price[i], had |-> Live,
                   same |-> \E k \in Live : cartOf[k] = RestaurantOfItem(i),
                   lines |-> [k \in Live |-> lines[k][i]],
                   paid |-> [k \in Live |-> snapshot[k][i]]]
  <2>1. price[i] \in Price
    BY DEF MenuTypes, RowTypes, MenusTypeOK, Price
  <2>2. j.op = "add" /\ j.price = price[i]
    OBVIOUS
  <2>3. Priced(j)
    BY <2>1, <2>2 DEF Priced
  <2> QED
    BY <1>1, <1>2, <2>3 DEF AddRead
<1>3. ASSUME NEW k, NEW i, LineRead(s, k, i) PROVE SnapshotsPriced'
  <2>1. PICK n : CartLoad(s, [op |-> IF n = lines[k][i] THEN "remove" ELSE "reduce",
                              cart |-> k, item |-> i, left |-> lines[k][i] - n])
    BY <1>3 DEF LineRead
  <2>2. Priced([op |-> IF n = lines[k][i] THEN "remove" ELSE "reduce",
                cart |-> k, item |-> i, left |-> lines[k][i] - n])
    BY DEF Priced
  <2> QED
    BY <1>1, <2>1, <2>2
<1>4. CASE ClearRead(s)
  <2>1. Priced([op |-> "clear", had |-> Live])
    BY DEF Priced
  <2> QED
    BY <1>1, <1>4, <2>1 DEF ClearRead
<1>5. ASSUME NEW k, CheckoutRead(s, k) PROVE SnapshotsPriced'
  <2>1. PICK method : CartLoad(s, [op |-> "checkout", cart |-> k, method |-> method, r |-> cartOf[k],
                                   lines |-> lines[k], price |-> price,
                                   subtotal |-> SumOf(LineTotals(lines[k], price))])
    BY <1>5 DEF CheckoutRead
  <2>2. Priced([op |-> "checkout", cart |-> k, method |-> method, r |-> cartOf[k],
                lines |-> lines[k], price |-> price, subtotal |-> SumOf(LineTotals(lines[k], price))])
    BY DEF Priced
  <2> QED
    BY <1>1, <2>1, <2>2
<1>6. ASSUME NEW o, CaptureRead(s, o) PROVE SnapshotsPriced'
  <2>1. Priced([op |-> "capture", order |-> o, had |-> Live])
    BY DEF Priced
  <2> QED
    BY <1>1, <1>6, <2>1 DEF CaptureRead
<1> QED
  BY <1>2, <1>3, <1>4, <1>5, <1>6 DEF CartRequest, OrderRequest

(* And goes on or ends. *)
LEMMA StepPriced ==
    ASSUME SnapshotsPriced, MenuInv, NEW s \in Sessions, CartStep(s)
    PROVE  SnapshotsPriced'
<1> DEFINE j == job[s]
           i == j.item
           JobsOK == \A t \in Sessions : job'[t] = job[t] \/ job'[t].op # "add"
           SnapOK == snapshot' \in [CartIds -> [Items -> Price]]
<1>0. snapshot \in [CartIds -> [Items -> Price]] /\ Priced(j) /\ 0 \in Price
  BY DEF SnapshotsPriced, Price
<1>1. End(s) => JobsOK
  BY DEF End, Idle, MenuInv, MenuFunctions
<1>2. \A L : LinesGone(s, L) => JobsOK
  BY JobsOfGone
<1>3. ASSUME NEW K, Dropped(s, K) PROVE JobsOK /\ SnapOK
  BY <1>0, <1>2, <1>3 DEF Dropped, NoLines
<1>4. CASE AddToSame(s)
  <2>1. j.price \in Price
    BY <1>0, <1>4 DEF AddToSame, Priced
  <2>2. PICK k \in Live : snapshot' = [snapshot EXCEPT ![k][i] = Flushed(@, j.paid[k], j.price)]
    BY <1>4 DEF AddToSame
  <2>3. PICK p \in {snapshot[k][i], j.price} : snapshot' = [snapshot EXCEPT ![k][i] = p]
    BY <1>0, <2>2 DEF Flushed
  <2>4. ASSUME k \in CartIds, i \in Items PROVE p \in Price
    BY <1>0, <2>1, <2>3, <2>4
  <2>5. SnapOK
    BY <1>0, <2>3, <2>4
  <2> QED
    BY <1>1, <1>4, <2>5, JobsPriced DEF AddToSame, SnapshotsPriced
<1>5. CASE AddToNew(s)
  <2>1. j.price \in Price
    BY <1>0, <1>5 DEF AddToNew, Priced
  <2>2. PICK k \in CartIds :
          snapshot' = [h \in CartIds |-> [NoLines EXCEPT ![i] = IF h = k THEN j.price ELSE 0]]
    BY <1>5 DEF AddToNew
  <2>3. SnapOK
    BY <1>0, <2>1, <2>2 DEF NoLines
  <2>4. LinesGone(s, Live \X Items)
    BY <1>5 DEF AddToNew
  <2> QED
    BY <1>2, <2>3, <2>4, JobsPriced DEF SnapshotsPriced
<1>6. CASE AddFails(s) \/ CheckoutFails(s) \/ reduce_cart_item_quantity(s)
  <2>1. End(s) /\ UNCHANGED snapshot
    BY <1>6 DEF AddFails, CheckoutFails, CartRefused, reduce_cart_item_quantity, cartVars
  <2> QED
    BY <1>0, <1>1, <2>1, JobsPriced DEF SnapshotsPriced
<1>7. CASE remove_cart_item(s)
  <2>1. UNCHANGED snapshot /\ JobsOK
    BY <1>7 DEF remove_cart_item, Continue, cartVars, MenuInv, MenuFunctions
  <2> QED
    BY <1>0, <2>1, JobsPriced DEF SnapshotsPriced
<1>8. CASE RemoveCommit(s) /\ ~j.last
  <2>1. /\ snapshot' = [snapshot EXCEPT ![j.cart] = [x \in Items |-> IF x = i THEN 0 ELSE @[x]]]
        /\ LinesGone(s, {<<j.cart, i>>})
    BY <1>8 DEF RemoveCommit
  <2>2. SnapOK
    BY <1>0, <2>1
  <2> QED
    BY <1>2, <2>1, <2>2, JobsPriced DEF SnapshotsPriced
<1>9. CASE (RemoveCommit(s) /\ j.last) \/ clear_cart(s) \/ handle_payment_captured(s)
  <2>1. \E K : Dropped(s, K)
    BY <1>9 DEF RemoveCommit, clear_cart, handle_payment_captured
  <2> QED
    BY <1>3, <2>1, JobsPriced DEF SnapshotsPriced
<1>10. CASE checkout(s)
  <2>1. (\E K : Dropped(s, K)) \/ (End(s) /\ UNCHANGED snapshot)
    BY <1>10 DEF checkout, cartVars
  <2> QED
    BY <1>0, <1>1, <1>3, <2>1, JobsPriced DEF SnapshotsPriced
<1> QED
  BY <1>4, <1>5, <1>6, <1>7, <1>8, <1>9, <1>10 DEF CartStep

(* A request of an owner that commits or fails ends, and may leave others  *)
(* without their row; none of them turns into a customer's.                *)
LEMMA OwnersEnd ==
    ASSUME MenuInv, NEW s \in Sessions, NEW held,
           OwnerStep(s) \/ CategoryStep(s) \/ ItemStep(s, held) \/ MenuRowGone(s)
    PROVE  \A t \in Sessions : job'[t] = job[t] \/ job'[t].op # "add"
<1> DEFINE JobsOK == \A t \in Sessions : job'[t] = job[t] \/ job'[t].op # "add"
<1>1. End(s) => JobsOK
  BY DEF End, Idle, MenuInv, MenuFunctions
<1>2. ASSUME delete_restaurant(s) \/ delete_menu_category(s) \/ delete_menu_item(s, held) PROVE JobsOK
  BY <1>2 DEF delete_restaurant, delete_menu_category, delete_menu_item, Orphan, Idle
<1>3. ASSUME OwnerStep(s), ~delete_restaurant(s) PROVE End(s)
  BY <1>3 DEF OwnerStep, RestaurantStep, create_restaurant_draft, DraftExists, upload_restaurant_documents,
     activate_restaurant, create_restaurant_hours, update_day_hours, HoursClash, pause_restaurant,
     resume_restaurant, create_closure, delete_closure, RowGone
<1>4. ASSUME CategoryStep(s), ~delete_menu_category(s) PROVE End(s)
  BY <1>4 DEF CategoryStep, create_menu_category, CategoryTaken, reorder_menu_categories,
     ReorderCategoriesFails, archive_menu_category, unarchive_menu_category, DeleteCategoryFails, Refused
<1>5. ASSUME ItemStep(s, held), ~delete_menu_item(s, held) PROVE End(s)
  BY <1>5 DEF ItemStep, create_menu_item, ItemTaken, reorder_menu_items_for_category, ReorderItemsFails,
     update_menu_item, toggle_menu_item_availability, archive_menu_item, unarchive_menu_item,
     DeleteItemFails, Refused
<1>6. MenuRowGone(s) => End(s)
  BY DEF MenuRowGone, Refused
<1> QED
  BY <1>1, <1>2, <1>3, <1>4, <1>5, <1>6

(* The types of the whole shop. *)
LEMMA ShopKeepsTypes ==
    ASSUME ShopInv, MenuTypes, SnapshotsPriced, [ShopNext]_<<job, shopVars, cartVars, order>>
    PROVE  MenuTypes' /\ SnapshotsPriced'
<1> USE DEF ShopInv
<1> DEFINE Owners == <<job, restaurantVars, menuVars>>
           Done == MenuTypes' /\ SnapshotsPriced'
<1>1. ASSUME [MenusNext]_Owners, UNCHANGED cartVars,
             \A t \in Sessions : job'[t] = job[t] \/ job'[t].op # "add"
      PROVE  Done
  BY <1>1, NextKeepsMenuTypes, JobsPriced DEF SnapshotsPriced, cartVars
<1>2. ASSUME NEW s \in Sessions,
             CartRequest(s, Items, 1..MaxQuantity) \/ OrderRequest(s) \/ CartStep(s)
      PROVE  Done
  <2>1. /\ UNCHANGED <<restaurantVars, menuVars>>
        /\ \A t \in Sessions : job'[t] = job[t] \/ job'[t].op \in CartOps
    BY <1>2, CustomerJobs DEF shopVars
  <2>2. \A op \in CartOps : op \notin TypedOps
    BY DEF CartOps, CartReads, TypedOps
  <2>3. MenuTypes'
    BY <2>1, <2>2, JobsTyped, RowTypesStay DEF MenuTypes
  <2> QED
    BY <1>2, <2>3, AsksPriced, StepPriced
<1>3. ASSUME NEW s \in Sessions, ItemMoves(s) PROVE Done
  <2>1. MenusNext
    BY <1>3, HeldAreItems DEF ItemMoves, MenusNext
  <2> QED
    BY <1>1, <1>3, <2>1, OwnersEnd DEF ItemMoves
<1>4. ASSUME NEW s \in Sessions, RestaurantMoves(s) PROVE Done
  <2>1. CASE OwnerStep(s)
    BY <1>1, <1>4, <2>1, OwnersEnd DEF RestaurantMoves, MenusNext
  <2>2. CASE DeleteRestaurantFails(s)
    <3>1. End(s) /\ UNCHANGED <<restaurantVars, menuVars>> /\ UNCHANGED cartVars
      BY <1>4, <2>2 DEF DeleteRestaurantFails, Refused, RestaurantMoves
    <3>2. MenuTypes'
      BY <3>1, EndTyped, RowTypesStay DEF MenuTypes
    <3>3. \A t \in Sessions : job'[t] = job[t] \/ job'[t].op # "add"
      BY <3>1 DEF End, Idle, MenuInv, MenuFunctions
    <3> QED
      BY <3>1, <3>2, <3>3, JobsPriced DEF SnapshotsPriced, cartVars
  <2> QED
    BY <1>4, <2>1, <2>2 DEF RestaurantMoves
<1>5. ASSUME NEW s \in Sessions, CategoryStep(s), UNCHANGED <<cartVars, order>> PROVE Done
  BY <1>1, <1>5, OwnersEnd DEF MenusNext
<1>6. ASSUME NEW s \in Sessions, OwnerArrives(s), UNCHANGED <<cartVars, order>> PROVE Done
  <2>1. PICK j : job' = [job EXCEPT ![s] = j] /\ j.op # "add"
    BY <1>6, OwnerJobs DEF Begin, CartReads
  <2>2. \A t \in Sessions : job'[t] = job[t] \/ job'[t].op # "add"
    BY <2>1 DEF MenuInv, MenuFunctions
  <2> QED
    BY <1>1, <1>6, <2>2 DEF MenusNext
<1>7. ASSUME NEW c \in Closures, ClosureEnds(c), UNCHANGED <<menuVars, cartVars, order>> PROVE Done
  <2>1. job' = job
    BY <1>7 DEF ClosureEnds
  <2> QED
    BY <1>1, <1>7, <2>1 DEF MenusNext
<1>8. CASE UNCHANGED <<job, shopVars, cartVars, order>>
  BY <1>1, <1>8 DEF shopVars
<1> QED
  BY <1>2, <1>3, <1>4, <1>5, <1>6, <1>7, <1>8 DEF ShopNext

LEMMA CartsFit == CartInv /\ SnapshotsPriced => CartsTypeOK
BY DEF CartInv, CartTypes, SnapshotsPriced, CartsTypeOK, Price

-----------------------------------------------------------------------------
(* The scenes together.  In each of them the parts that stand still keep   *)
(* what Init gave them, and the rest is the shop's, or the pictures', Next.*)
Pictured ==
    IF scene = "images" THEN ImagesInv /\ owners \subseteq {"restaurant", "item"} /\ NoRestaurants /\ NoMenu
    ELSE NoImages

Owned == scene # "images" => OwnerInv /\ MenuInv /\ MenuTypes

Carted == IF scene \in {"lines", "cart"} THEN CartInv /\ SnapshotsPriced ELSE NoCart

StorefrontInv == Pictured /\ Owned /\ Carted

Owners == <<job, restaurantVars, menuVars>>

LEMMA StorefrontFits ==
    ASSUME StorefrontInv
    PROVE  /\ TypeOK
           /\ ActivationComesFirst /\ ScheduleStaysComplete /\ MenuIsOrdered
           /\ CartOfOneRestaurant /\ OrderAddsUp /\ RowsHaveObjects
<1>1. RestaurantsTypeOK /\ MenusTypeOK /\ ActivationComesFirst /\ ScheduleStaysComplete /\ MenuIsOrdered
  <2>1. CASE scene = "images"
    <3>1. NoRestaurants /\ NoMenu
      BY <2>1 DEF StorefrontInv, Pictured
    <3>2. RestaurantsTypeOK /\ MenusTypeOK
      BY <3>1, MenuAssumption DEF NoRestaurants, NoMenu, RestaurantsTypeOK, MenusTypeOK
    <3>3. ActivationComesFirst /\ ScheduleStaysComplete
      BY <3>1, RestaurantsAssumption DEF NoRestaurants, ActivationComesFirst, ActiveClosures, ScheduleStaysComplete
    <3>4. MenuIsOrdered
      BY <3>1 DEF NoMenu, MenuIsOrdered, UniqueOver, CategoriesOf, ItemsOf
    <3> QED
      BY <3>2, <3>3, <3>4
  <2>2. CASE scene # "images"
    BY <2>2 DEF StorefrontInv, Owned, MenuTypes, RowTypes, MenuInv, OwnerInv, ClosedWasActive,
       ActivationComesFirst, ActiveClosures
  <2> QED
    BY <2>1, <2>2
<1>2. CartsTypeOK /\ CartOfOneRestaurant /\ OrderAddsUp
  <2>1. CASE scene \in {"lines", "cart"}
    BY <2>1, CartsFit, OneCartCounted DEF StorefrontInv, Carted, CartInv, OrdersKept, OrderAddsUp
  <2>2. CASE scene \notin {"lines", "cart"}
    <3>1. NoCart
      BY <2>2 DEF StorefrontInv, Carted
    <3>2. Live = {} /\ Ordered = {} /\ \A k \in CartIds : InCart(k) = {}
      BY <3>1, CartsAssumption DEF NoCart, NoLines, NoOrder, Live, Ordered, InCart
    <3>3. CartsTypeOK
      BY <3>1, CartsAssumption, MenuAssumption DEF NoCart, NoLines, CartsTypeOK
    <3> QED
      BY <3>2, <3>3, FS_EmptySet DEF CartOfOneRestaurant, OrderAddsUp
  <2> QED
    BY <2>1, <2>2
<1>3. ImagesTypeOK /\ RowsHaveObjects
  <2>1. CASE scene = "images"
    BY <2>1, PicturesFit DEF StorefrontInv, Pictured, ImagesInv, KeysOK, RowsHaveObjects
  <2>2. CASE scene # "images"
    <3>1. NoImages
      BY <2>2 DEF StorefrontInv, Pictured
    <3>2. RowKeys = {}
      BY <3>1 DEF NoImages, RowKeys, RestaurantRows, GalleryKeys, Held
    <3>3. ImagesTypeOK
      BY <3>1 DEF NoImages, ImagesTypeOK, NoKey
    <3> QED
      BY <3>2, <3>3 DEF RowsHaveObjects
  <2> QED
    BY <2>1, <2>2
<1> QED
  BY <1>1, <1>2, <1>3 DEF TypeOK

(* A scene that opens with the restaurants R active, the hours of H set,   *)
(* and a menu C, I with one category to a restaurant.                      *)
LEMMA SceneOpens ==
    ASSUME NEW R \in SUBSET Restaurants, NEW H \in SUBSET R,
           NEW C \in SUBSET Categories, NEW I \in SUBSET Items,
           \A c \in C : RestaurantOf[c] \in R, \A i \in I : HomeOf[i] \in C,
           \A c, d \in C : RestaurantOf[c] = RestaurantOf[d] => c = d,
           \A i, k \in I : HomeOf[i] = HomeOf[k] /\ (i = i2 <=> k = i2) => i = k,
           OpenShop(R, H), Menu(C, I), job = [s \in Sessions |-> Idle]
    PROVE  OwnerInv /\ MenuInv /\ MenuTypes
<1>1. OwnerInv
  <2>1. OwnerFunctions
    BY DEF OpenShop, OwnerFunctions
  <2>2. /\ StageReached /\ ScheduleStaysComplete
        /\ \A r \in Restaurants : (activated[r] => menuMade[r]) /\ (paused[r] => activated[r])
    BY DEF OpenShop, StageReached, ScheduleStaysComplete
  <2>3. ClosedWasActive
    BY RestaurantsAssumption DEF OpenShop, ClosedWasActive
  <2>4. \A s \in Sessions : Saw(job[s], activated, menuMade)
    BY IdleSaw
  <2> QED
    BY <2>1, <2>2, <2>3, <2>4 DEF OwnerInv
<1>2. MenuInv
  <2>1. MenuFunctions
    BY DEF OpenShop, Menu, MenuFunctions
  <2>2. \A c \in Categories : catState[c] # "NONE" <=> c \in C
    BY DEF Menu
  <2>3. \A i \in Items : itemState[i] # "NONE" <=> i \in I
    BY DEF Menu
  <2>4. MenuIsOrdered
    <3>1. \A r \in Restaurants : UniqueOver(CategoriesOf(r), catPos)
      BY <2>2 DEF CategoriesOf, UniqueOver
    <3>2. \A i, k \in I : itemPos[i] = itemPos[k] => (i = i2 <=> k = i2)
      BY DEF Menu
    <3>3. \A c \in Categories : UniqueOver(ItemsOf(c), itemPos)
      BY <2>3, <3>2 DEF ItemsOf, UniqueOver
    <3>4. \A i \in Items : itemState[i] # "NONE" => catState[HomeOf[i]] # "NONE"
      BY <2>2, <2>3
    <3>5. \A c \in Categories : catState[c] # "NONE" => Exists(RestaurantOf[c])
      BY <2>2 DEF OpenShop, Exists
    <3> QED
      BY <3>1, <3>3, <3>4, <3>5 DEF MenuIsOrdered
  <2>5. \A s \in Sessions : Relies(job[s], stage, catState, itemState)
    BY IdleRelies
  <2> QED
    BY <2>1, <2>4, <2>5 DEF MenuInv
<1>3. MenuTypes
  <2>1. RestaurantsTypeOK
    BY SceneAssumption DEF OpenShop, RestaurantsTypeOK, RestaurantStatus
  <2>2. MenusTypeOK /\ Numbered
    BY SceneAssumption, MenuAssumption DEF Menu, MenusTypeOK, Numbered, MenuStatus, None
  <2>3. \A s \in Sessions : Typed(job[s])
    BY DEF Typed, Idle
  <2> QED
    BY <2>1, <2>2, <2>3 DEF MenuTypes, RowTypes
<1> QED
  BY <1>1, <1>2, <1>3

LEMMA InitStorefront == Init => StorefrontInv
<1> SUFFICES ASSUME Init PROVE StorefrontInv
  OBVIOUS
<1>1. /\ job = [s \in Sessions |-> Idle] /\ NoCart /\ NoImages
      /\ \/ scene \in {"onboarding", "images"} /\ NoRestaurants /\ NoMenu
         \/ scene = "trading" /\ OpenShop({r1}, {r1}) /\ Menu({}, {})
         \/ scene = "categories" /\ OpenShop({r1}, {}) /\ Menu({}, {})
         \/ scene = "items" /\ OpenShop({r1}, {}) /\ Menu({c1}, {})
         \/ scene = "cache" /\ OpenShop({r1}, {r1}) /\ Menu({c1}, {})
         \/ scene \in {"lines", "cart"} /\ OpenShop({r1, r2}, {}) /\ Menu({c1, c3}, {i1, i2, i3})
  BY DEF Init
<1>2. Pictured
  BY <1>1, InitImages, SceneAssumption DEF Pictured, ImagesInit, NoImages
<1>3. Carted
  <2>1. Live = {} /\ Ordered = {} /\ \A k \in CartIds : InCart(k) = {}
    BY <1>1, CartsAssumption DEF NoCart, NoLines, NoOrder, Live, Ordered, InCart
  <2>2. CartTypes
    BY <1>1, CartsAssumption DEF NoCart, NoLines, CartTypes
  <2>3. \A s \in Sessions : StillTrue(job[s]) /\ Priced(job[s])
    BY <1>1 DEF Idle, StillTrue, Priced
  <2>4. CartInv
    BY <2>1, <2>2, <2>3 DEF CartInv, OneCart, CartsKept, LinesKept, OrdersKept
  <2>5. SnapshotsPriced
    BY <1>1, <2>3 DEF NoCart, NoLines, SnapshotsPriced, Price
  <2> QED
    BY <1>1, <2>4, <2>5 DEF Carted
<1>4. Owned
  <2>1. CASE scene = "onboarding" /\ NoRestaurants /\ NoMenu
    BY <1>1, <2>1, InitOwner, InitMenu, InitMenuTypes DEF Owned, MenusInit
  <2>2. CASE OpenShop({r1}, {r1}) /\ Menu({}, {})
    BY <1>1, <2>2, SceneOpens, SceneAssumption DEF Owned
  <2>3. CASE OpenShop({r1}, {}) /\ Menu({}, {})
    BY <1>1, <2>3, SceneOpens, SceneAssumption DEF Owned
  <2>4. CASE OpenShop({r1}, {}) /\ Menu({c1}, {})
    BY <1>1, <2>4, SceneOpens, SceneAssumption DEF Owned
  <2>5. CASE OpenShop({r1}, {r1}) /\ Menu({c1}, {})
    BY <1>1, <2>5, SceneOpens, SceneAssumption DEF Owned
  <2>6. CASE OpenShop({r1, r2}, {}) /\ Menu({c1, c3}, {i1, i2, i3})
    <3> DEFINE C == {c1, c3}
               I == {i1, i2, i3}
    <3>1. \A c \in C : RestaurantOf[c] \in {r1, r2}
      BY SceneAssumption
    <3>2. \A i \in I : HomeOf[i] \in C
      BY SceneAssumption
    <3>3. \A c, d \in C : RestaurantOf[c] = RestaurantOf[d] => c = d
      BY SceneAssumption
    <3>4. \A i, k \in I : HomeOf[i] = HomeOf[k] /\ (i = i2 <=> k = i2) => i = k
      BY SceneAssumption
    <3>5. C \subseteq Categories /\ I \subseteq Items /\ {r1, r2} \subseteq Restaurants
      BY SceneAssumption
    <3> QED
      BY <1>1, <2>6, <3>1, <3>2, <3>3, <3>4, <3>5, SceneOpens DEF Owned
  <2>7. CASE scene = "images"
    BY <2>7 DEF Owned
  <2> QED
    BY <1>1, <2>1, <2>2, <2>3, <2>4, <2>5, <2>6, <2>7
<1> QED
  BY <1>2, <1>3, <1>4 DEF StorefrontInv

(* What a scene may do.  The owners on their own. *)
LEMMA OwnersPlay ==
    ASSUME StorefrontInv, scene \notin {"images", "lines", "cart"}, [MenusNext]_Owners,
           UNCHANGED <<cartVars, order, imageVars, scene>>
    PROVE  StorefrontInv'
<1>1. OwnerInv' /\ MenuInv' /\ MenuTypes'
  BY NextKeepsOwner, NextKeepsMenu, NextKeepsMenuTypes DEF StorefrontInv, Owned, Owners
<1>2. NoCart' /\ NoImages'
  BY DEF StorefrontInv, Pictured, Carted, NoCart, NoImages, cartVars, imageVars
<1> QED
  BY <1>1, <1>2 DEF StorefrontInv, Pictured, Owned, Carted

(* The owners and the customer. *)
LEMMA ShopPlays ==
    ASSUME StorefrontInv, scene \in {"lines", "cart"}, [ShopNext]_<<job, shopVars, cartVars, order>>,
           UNCHANGED <<imageVars, scene>>
    PROVE  StorefrontInv'
<1>1. ShopInv' /\ MenuTypes' /\ SnapshotsPriced'
  BY NextKeepsShop, ShopKeepsTypes DEF StorefrontInv, Owned, Carted, ShopInv
<1>2. NoImages'
  BY DEF StorefrontInv, Pictured, NoImages, imageVars
<1> QED
  BY <1>1, <1>2 DEF StorefrontInv, Pictured, Owned, Carted, ShopInv

(* Uploads and deletions of pictures. *)
LEMMA PicturesPlay ==
    ASSUME StorefrontInv, scene = "images", [ImagesNext]_<<job, imageVars>>,
           UNCHANGED <<restaurantVars, menuVars, cartVars, order, scene>>
    PROVE  StorefrontInv'
<1>1. ImagesInv' /\ owners' \subseteq {"restaurant", "item"}
  BY NextKeepsImages, OwnersShrink DEF StorefrontInv, Pictured
<1>2. NoRestaurants' /\ NoMenu' /\ NoCart'
  BY DEF StorefrontInv, Pictured, Carted, NoRestaurants, NoMenu, NoCart, restaurantVars, menuVars,
     catVars, itemVars, cartVars
<1> QED
  BY <1>1, <1>2 DEF StorefrontInv, Pictured, Owned, Carted

(* A reader of the cache holds no row and writes none. *)
LEMMA ReadersPlay ==
    ASSUME StorefrontInv, scene = "cache", NEW s \in Sessions, NEW j, j.op \in {"fill", "idle"},
           Begin(s, j) \/ (j = Idle /\ End(s)),
           UNCHANGED <<restaurantVars, menuVars, cartVars, order, imageVars, scene>>
    PROVE  StorefrontInv'
<1>1. OwnerInv /\ MenuInv /\ MenuTypes /\ job' = [job EXCEPT ![s] = j]
  BY DEF StorefrontInv, Owned, Begin, End
<1>2. OwnerInv'
  <2>1. Saw(j, activated, menuMade)
    BY DEF Saw, RowRequests
  <2> QED
    BY <1>1, <2>1, OneSession
<1>3. MenuInv'
  <2>1. Relies(j, stage, catState, itemState)
    BY NothingRelied DEF MenuOps, CategoryOps, ItemOps
  <2> QED
    BY <1>1, <2>1, MenuRowsStay DEF restaurantVars, menuVars, catVars, itemVars
<1>4. MenuTypes'
  <2>1. Typed(j)
    BY Untyped DEF TypedOps
  <2>2. \A t \in Sessions : Typed(job'[t])
    BY <1>1, <2>1, JobTyped DEF MenuInv, MenuFunctions
  <2> QED
    BY <1>1, <2>2, RowTypesStay DEF MenuTypes
<1>5. NoCart' /\ NoImages'
  BY DEF StorefrontInv, Pictured, Carted, NoCart, NoImages, cartVars, imageVars
<1> QED
  BY <1>2, <1>3, <1>4, <1>5 DEF StorefrontInv, Pictured, Owned, Carted

(* Where neither rows nor requests change: Redis alone, or nothing. *)
LEMMA NobodyPlays ==
    ASSUME StorefrontInv, UNCHANGED <<job, restaurantVars, menuVars, cartVars, order, imageVars, scene>>
    PROVE  StorefrontInv'
<1>1. CASE scene = "images"
  BY <1>1, PicturesPlay
<1>2. CASE scene \in {"lines", "cart"}
  BY <1>2, ShopPlays DEF shopVars
<1>3. CASE scene \notin {"images", "lines", "cart"}
  BY <1>3, OwnersPlay DEF Owners
<1> QED
  BY <1>1, <1>2, <1>3

(* The scene of the cache. *)
LEMMA CachePlays ==
    ASSUME StorefrontInv, scene = "cache", NEW s \in Sessions, NEW k \in Keys,
           OwnerRequest(s, i1) \/ CacheMiss(s, k) \/ CacheStep(s),
           UNCHANGED <<cartVars, order, imageVars, scene>>
    PROVE  StorefrontInv'
<1>1. CASE OwnerRequest(s, i1)
  <2>1. i1 \in Items /\ RestaurantOfItem(i1) \in Restaurants
    BY SceneAssumption, MenuAssumption DEF RestaurantOfItem
  <2>2. OwnerArrives(s)
    BY <1>1, <2>1 DEF OwnerRequest, OwnerArrives, RestaurantRequest
  <2> QED
    BY <2>2, OwnersPlay DEF MenusNext
<1>2. CASE CacheMiss(s, k)
  <2> DEFINE j == [op |-> "fill", r |-> k[2], key |-> k, value |-> Current(k)]
  <2>1. Begin(s, j) /\ UNCHANGED <<restaurantVars, menuVars>>
    BY <1>2 DEF CacheMiss
  <2>2. j.op \in {"fill", "idle"}
    OBVIOUS
  <2> HIDE DEF j
  <2> QED
    BY <2>1, <2>2, ReadersPlay
<1>3. CASE cache_set(s) \/ StoreFails(s)
  <2>1. End(s) /\ UNCHANGED <<restaurantVars, menuVars>>
    BY <1>3 DEF cache_set, StoreFails
  <2>2. Idle.op \in {"fill", "idle"}
    BY DEF Idle
  <2> QED
    BY <2>1, <2>2, ReadersPlay
<1>4. CASE CommitThenInvalidate(s)
  <2>1. ItemStep(s, {}) \/ OwnerStep(s)
    BY <1>4 DEF CommitThenInvalidate, ItemStep, OwnerStep, RestaurantStep
  <2> QED
    BY <2>1, OwnersPlay DEF MenusNext
<1>5. CASE CommitWithoutInvalidate(s)
  BY <1>5, OwnersPlay DEF CommitWithoutInvalidate, MenusNext
<1>6. CASE invalidate_restaurant_caches(s)
  BY <1>6, NobodyPlays DEF invalidate_restaurant_caches
<1> QED
  BY <1>1, <1>2, <1>3, <1>4, <1>5, <1>6 DEF CacheStep

(* The scenes in which only owners act, and the two with a customer. *)
LEMMA OwnerScenes ==
    ASSUME StorefrontInv, UNCHANGED <<imageVars, scene>>, NEW s \in Sessions,
           \/ scene \in {"onboarding", "trading"} /\ OwnerStep(s) /\ UNCHANGED rest
           \/ scene \in {"onboarding", "items"} /\ ItemStep(s, {}) /\ UNCHANGED rest
           \/ scene \in {"onboarding", "categories"} /\ CategoryStep(s) /\ UNCHANGED rest
           \/ scene \in {"categories", "items"} /\ MenuRowGone(s) /\ UNCHANGED rest
           \/ scene = "onboarding" /\ Onboarding(s) /\ UNCHANGED <<menuVars, rest>>
           \/ scene = "trading" /\ RestaurantRequest(s, r1) /\ UNCHANGED <<menuVars, rest>>
           \/ scene = "categories" /\ UNCHANGED rest
                /\ \/ \E c \in {c1, c2} : CategoryRequest(s, c)
                   \/ ItemRead(s, i1, Highest(Prices), None, TRUE) \/ create_menu_item(s) \/ ItemTaken(s)
           \/ scene = "items" /\ UNCHANGED rest /\ \E i \in {i1, i2} : ItemRequest(s, i)
    PROVE  StorefrontInv'
<1>0. /\ r1 \in Restaurants /\ {c1, c2} \subseteq Categories /\ {i1, i2} \subseteq Items
      /\ (CHOOSE x \in Shifts : TRUE) \in Shifts
  BY SceneAssumption
<1>1. UNCHANGED <<cartVars, order>> /\ scene \notin {"images", "lines", "cart"}
  BY DEF rest
<1>2. OwnerStep(s) \/ ItemStep(s, {}) \/ CategoryStep(s) \/ MenuRowGone(s) \/ OwnerArrives(s)
  <2>1. \A i \in Items : ItemRead(s, i, Highest(Prices), None, TRUE) => ItemRequest(s, i)
    BY DEF ItemRequest
  <2>2. CASE Onboarding(s) /\ UNCHANGED menuVars
    <3>1. CASE \/ CategoryRead(s, c1) \/ ItemRead(s, i1, Highest(Prices), None, TRUE)
               \/ ArchiveRead(s, i1) \/ DeleteItemRead(s, i1)
      BY <1>0, <2>1, <3>1 DEF OwnerArrives, CategoryRequest, ItemRequest
    <3>2. CASE HoursRead(s, r1, {CHOOSE x \in Shifts : TRUE})
      BY <1>0, <2>2, <3>2 DEF OwnerArrives, RestaurantRequest, HoursRead
    <3>3. CASE DraftRead(s, r1) \/ DocumentsRead(s, r1) \/ ActivateRead(s, r1) \/ DeleteRead(s, r1)
      BY <1>0, <2>2, <3>3 DEF OwnerArrives, RestaurantRequest
    <3> QED
      BY <2>2, <3>1, <3>2, <3>3 DEF Onboarding
  <2>3. CASE RestaurantRequest(s, r1) /\ UNCHANGED menuVars
    BY <1>0, <2>3 DEF OwnerArrives
  <2>4. CASE \/ \E c \in {c1, c2} : CategoryRequest(s, c)
             \/ ItemRead(s, i1, Highest(Prices), None, TRUE) \/ create_menu_item(s) \/ ItemTaken(s)
    BY <1>0, <2>1, <2>4 DEF OwnerArrives, ItemStep
  <2>5. CASE \E i \in {i1, i2} : ItemRequest(s, i)
    BY <1>0, <2>5 DEF OwnerArrives
  <2> QED
    BY <2>2, <2>3, <2>4, <2>5
<1>3. MenusNext
  BY <1>2 DEF MenusNext
<1> QED
  BY <1>1, <1>3, OwnersPlay

LEMMA CustomerScenes ==
    ASSUME StorefrontInv, UNCHANGED <<imageVars, scene>>, NEW s \in Sessions,
           \/ scene \in {"lines", "cart"} /\ CartStep(s)
           \/ scene = "lines" /\ CartRequest(s, {i1, i2}, 1..MaxQuantity)
           \/ scene = "cart" /\ (ItemMoves(s) \/ RestaurantMoves(s) \/ Shopping(s))
    PROVE  StorefrontInv'
<1>0. r1 \in Restaurants /\ {i1, i2, i3} \subseteq Items /\ {1} \subseteq 1..MaxQuantity
  BY SceneAssumption, CartsAssumption
<1>1. ASSUME NEW J, NEW Q, J \subseteq Items, Q \subseteq 1..MaxQuantity, CartRequest(s, J, Q)
      PROVE  CartRequest(s, Items, 1..MaxQuantity)
  BY <1>1 DEF CartRequest
<1>2. ASSUME \/ \E p \in Prices : UpdateRead(s, i1, p, None)
             \/ ArchiveRead(s, i1) \/ DeleteItemRead(s, i1)
             \/ DeleteRead(s, r1) /\ UNCHANGED menuVars
      PROVE  OwnerArrives(s)
  <2>1. None \in Prices \cup {None}
    OBVIOUS
  <2> QED
    BY <1>0, <1>2, <2>1 DEF OwnerArrives, ItemRequest, RestaurantRequest
<1>3. Shopping(s) => \/ CartRequest(s, Items, 1..MaxQuantity) \/ OrderRequest(s)
                     \/ OwnerArrives(s) /\ UNCHANGED <<cartVars, order>>
  BY <1>0, <1>1, <1>2 DEF Shopping
<1>4. ShopNext
  BY <1>0, <1>1, <1>3 DEF ShopNext
<1> QED
  BY <1>4, ShopPlays

LEMMA NextKeepsStorefront == StorefrontInv /\ [SceneNext]_vars => StorefrontInv'
<1> SUFFICES ASSUME StorefrontInv, [SceneNext]_vars PROVE StorefrontInv'
  OBVIOUS
<1>1. CASE Next /\ UNCHANGED imageVars /\ UNCHANGED scene
  <2>1. ASSUME NEW k \in Keys, Expire(k), UNCHANGED <<cartVars, order>> PROVE StorefrontInv'
    BY <1>1, <2>1, NobodyPlays DEF Expire
  <2>2. ASSUME NEW c \in Closures, scene = "trading", ClosureEnds(c), UNCHANGED <<menuVars, rest>>
        PROVE  StorefrontInv'
    <3>1. MenusNext /\ UNCHANGED <<cartVars, order>>
      BY <2>2 DEF MenusNext, rest
    <3> QED
      BY <1>1, <2>2, <3>1, OwnersPlay
  <2>3. ASSUME NEW s \in Sessions, scene = "cache", UNCHANGED <<cartVars, order>>,
               \/ OwnerRequest(s, i1) \/ CacheMiss(s, <<"detail", r1>>) \/ CacheMiss(s, <<"feed", r1>>)
               \/ CacheStep(s)
        PROVE  StorefrontInv'
    <3>1. <<"detail", r1>> \in Keys /\ <<"feed", r1>> \in Keys
      BY SceneAssumption DEF Keys
    <3> QED
      BY <1>1, <2>3, <3>1, CachePlays
  <2> QED
    BY <1>1, <2>1, <2>2, <2>3, OwnerScenes, CustomerScenes DEF Next
<1>2. CASE Pictures /\ UNCHANGED scene
  <2>1. ImagesNext /\ scene = "images" /\ UNCHANGED <<restaurantVars, menuVars, cartVars, order>>
    BY <1>2 DEF Pictures, ImagesNext, rest
  <2> QED
    BY <1>2, <2>1, PicturesPlay
<1>3. CASE UNCHANGED vars
  BY <1>3, NobodyPlays DEF vars
<1> QED
  BY <1>1, <1>2, <1>3 DEF SceneNext

LEMMA StorefrontKeeps == Spec => []StorefrontInv
BY InitStorefront, NextKeepsStorefront, PTL DEF Spec

(* Every column of the restaurants, menus, carts and pictures holds what   *)
(* its type allows, in every scene: a position is between 1 and the last,  *)
(* a snapshot is a price some menu has had (add_to_cart), a row names an   *)
(* image that was handed out.                                              *)
THEOREM StorefrontTypes == Spec => []TypeOK
BY StorefrontKeeps, StorefrontFits, PTL

(* The composition that is model-checked keeps what its parts promise, for *)
(* any cast that SceneAssumption allows: the reader of the cache and the   *)
(* expiring keys disturb no row.                                           *)
THEOREM StorefrontHolds ==
    Spec => [](/\ ActivationComesFirst /\ ScheduleStaysComplete /\ MenuIsOrdered
               /\ CartOfOneRestaurant /\ OrderAddsUp /\ RowsHaveObjects)
BY StorefrontKeeps, StorefrontFits, PTL

-----------------------------------------------------------------------------
(* Redis: every writer of a key gives it a time to live, every deletion    *)
(* takes both.                                                             *)
CacheInv ==
    /\ cached = [k \in Keys |-> cached[k]]
    /\ \A k \in Keys : cached[k] # Missing => k \in expiring

LEMMA NextKeepsCache == CacheInv /\ [SceneNext]_vars => CacheInv'
<1> SUFFICES ASSUME CacheInv, [SceneNext]_vars PROVE CacheInv'
  OBVIOUS
<1>1. CASE UNCHANGED cacheVars
  BY <1>1 DEF cacheVars, CacheInv
<1>2. ASSUME NEW k \in Keys, Expire(k) PROVE CacheInv'
  BY <1>2 DEF Expire, CacheInv
<1>3. ASSUME NEW s \in Sessions, cache_set(s) PROVE CacheInv'
  <2> DEFINE k == job[s].key
  <2>1. PICK v : cached' = [cached EXCEPT ![k] = v]
    BY <1>3 DEF cache_set
  <2>2. expiring' = expiring \cup {k}
    BY <1>3 DEF cache_set
  <2> QED
    BY <2>1, <2>2 DEF CacheInv
<1>4. ASSUME NEW s \in Sessions, CommitThenInvalidate(s) PROVE CacheInv'
  BY <1>4 DEF CommitThenInvalidate, CacheInv
<1>5. ASSUME NEW s \in Sessions, invalidate_restaurant_caches(s) PROVE CacheInv'
  <2>1. PICK D : /\ cached' = [k \in Keys |-> IF k \in D THEN Missing ELSE cached[k]]
                 /\ expiring' = expiring \ D
    BY <1>5 DEF invalidate_restaurant_caches
  <2> QED
    BY <2>1 DEF CacheInv
<1>6. ASSUME Next
      PROVE  \/ UNCHANGED cacheVars
             \/ \E k \in Keys : Expire(k)
             \/ \E s \in Sessions : \/ cache_set(s) \/ CommitThenInvalidate(s)
                                    \/ invalidate_restaurant_caches(s)
  BY <1>6 DEF Next, rest, OwnerRequest, CacheMiss, CacheStep, StoreFails, CommitWithoutInvalidate
<1>7. CASE Pictures
  BY <1>1, <1>7 DEF Pictures, rest
<1>8. CASE UNCHANGED vars
  BY <1>1, <1>8 DEF vars
<1> QED
  BY <1>1, <1>2, <1>3, <1>4, <1>5, <1>6, <1>7, <1>8 DEF SceneNext

(* The safety half of StaleEnds.  A value in the cache that is not what    *)
(* the database says, because a slow reader stored it after the deletion,  *)
(* because the deletion failed, or because nothing was deleted, always has *)
(* a time to live (cache_set in core/cache.py).                            *)
THEOREM StaleExpires == Spec => [](\A k \in Keys : Stale(k) => k \in expiring)
<1>1. Init => CacheInv
  BY DEF Init, EmptyCache, CacheInv, Missing
<1>2. CacheInv => \A k \in Keys : Stale(k) => k \in expiring
  BY DEF CacheInv, Stale
<1> QED
  BY <1>1, <1>2, NextKeepsCache, PTL DEF Spec

=============================================================================
