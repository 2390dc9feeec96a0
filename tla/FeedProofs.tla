----------------------------- MODULE FeedProofs -----------------------------
(***************************************************************************)
(* What the public side shows, for any sets of sessions, rows and sockets: *)
(* a walk misses no steady restaurant, the delivery fee never falls with   *)
(* the distance, a rating was earned, a push reaches its listeners, and a  *)
(* customer keeps the default address.  The types of each part are proved  *)
(* with it.                                                                *)
(***************************************************************************)
EXTENDS Discovery, Pricing, Addresses, Reviews, Realtime, FiniteSetTheorems, TLAPS

-----------------------------------------------------------------------------
(* The fee.  Rounding to the even neighbour is monotonic, and so is each   *)
(* of the three tariffs and the passage from one to the next.              *)

LEMMA QuantizedMonotonic ==
    ASSUME NEW x \in Nat, NEW y \in Nat, x <= y
    PROVE  Quantized(x) \in Nat /\ Quantized(x) <= Quantized(y)
<1>1. ASSUME NEW z \in Nat
      PROVE  /\ z \div 1000 \in Nat /\ z % 1000 \in 0..999
             /\ z = 1000 * (z \div 1000) + (z % 1000)
  OBVIOUS
<1>2. ASSUME NEW z \in Nat
      PROVE  Quantized(z) \in Nat /\ z \div 1000 <= Quantized(z) /\ Quantized(z) <= z \div 1000 + 1
  BY <1>1 DEF Quantized
<1>3. CASE x \div 1000 = y \div 1000
  <2>1. x % 1000 <= y % 1000
    BY <1>1, <1>3
  <2> QED
    BY <1>1, <1>2, <1>3, <2>1 DEF Quantized
<1>4. CASE x \div 1000 < y \div 1000
  <2>1. x \div 1000 \in Nat /\ y \div 1000 \in Nat
    BY <1>1
  <2>2. x \div 1000 + 1 <= y \div 1000
    BY <1>4, <2>1
  <2>3. /\ Quantized(x) \in Nat /\ Quantized(x) <= x \div 1000 + 1
        /\ Quantized(y) \in Nat /\ y \div 1000 <= Quantized(y)
    BY <1>2
  <2> QED
    BY <2>1, <2>2, <2>3
<1>5. x \div 1000 <= y \div 1000
  BY <1>1
<1>6. x \div 1000 \in Nat /\ y \div 1000 \in Nat
  BY <1>1
<1> QED
  BY <1>2, <1>3, <1>4, <1>5, <1>6

(* A kilometre more costs its rate more. *)
LEMMA Tariff ==
    ASSUME NEW r \in Nat, NEW a \in Nat
    PROVE  /\ a * r \in Nat
           /\ (a + 1) * r = a * r + r
OBVIOUS

LEMMA UncappedGrows ==
    ASSUME NEW d \in Nat
    PROVE  Uncapped(d) \in Nat /\ Uncapped(d) <= Uncapped(d + 1)
<1> USE PricingAssumption
<1> DEFINE near == FarThreshold - FreeRadius
<1>1. near \in Nat /\ near * NearRate \in Nat
  BY Tariff
<1>2. CASE d + 1 <= FreeRadius
  BY <1>2 DEF Uncapped
<1>3. CASE d = FreeRadius /\ d + 1 <= FarThreshold
  <2>1. (d + 1 - FreeRadius) * NearRate = NearRate
    BY <1>3
  <2> QED
    BY <1>3, <2>1 DEF Uncapped
<1>4. CASE FreeRadius < d /\ d + 1 <= FarThreshold
  <2> DEFINE a == d - FreeRadius
  <2>1. a \in Nat /\ d + 1 - FreeRadius = a + 1
    BY <1>4
  <2>2. a * NearRate \in Nat /\ (a + 1) * NearRate = a * NearRate + NearRate
    BY <2>1, Tariff
  <2>3. Uncapped(d) = a * NearRate /\ Uncapped(d + 1) = (a + 1) * NearRate
    BY <1>4, <2>1 DEF Uncapped
  <2> QED
    BY <2>2, <2>3
<1>5. CASE d = FarThreshold
  <2>1. Uncapped(d) = near * NearRate
    BY <1>5 DEF Uncapped
  <2>2. Uncapped(d + 1) = near * NearRate + FarRate
    <3>1. (d + 1 - FarThreshold) * FarRate = FarRate
      BY <1>5
    <3> QED
      BY <1>5, <3>1 DEF Uncapped
  <2> QED
    BY <1>1, <2>1, <2>2
<1>6. CASE FarThreshold < d
  <2> DEFINE a == d - FarThreshold
  <2>1. a \in Nat /\ d + 1 - FarThreshold = a + 1
    BY <1>6
  <2>2. a * FarRate \in Nat /\ (a + 1) * FarRate = a * FarRate + FarRate
    BY <2>1, Tariff
  <2>3. /\ Uncapped(d) = near * NearRate + a * FarRate
        /\ Uncapped(d + 1) = near * NearRate + (a + 1) * FarRate
    BY <1>6, <2>1 DEF Uncapped
  <2> QED
    BY <1>1, <2>2, <2>3
<1> QED
  BY <1>2, <1>3, <1>4, <1>5, <1>6

LEMMA InitFee == PricingInit => distance \in Nat
BY DEF PricingInit

LEMMA NextKeepsFee == distance \in Nat /\ [Farther]_distance => (distance \in Nat)'
BY DEF Farther

LEMMA FeeRises == distance \in Nat => FeeGrowsWithDistance
<1> USE PricingAssumption
<1> SUFFICES ASSUME distance \in Nat PROVE FeeGrowsWithDistance
  OBVIOUS
<1>1. /\ Uncapped(distance) \in Nat /\ Uncapped(distance + 1) \in Nat
      /\ Uncapped(distance) <= Uncapped(distance + 1)
  BY UncappedGrows
<1>2. /\ Quantized(Uncapped(distance)) \in Nat /\ Quantized(Uncapped(distance + 1)) \in Nat
      /\ Quantized(Uncapped(distance)) <= Quantized(Uncapped(distance + 1))
  BY <1>1, QuantizedMonotonic
<1> QED
  BY <1>2 DEF FeeGrowsWithDistance, calculate_delivery_fee

(* For any thresholds, rates and cap, at every distance: one more metre    *)
(* never makes the delivery cheaper, and no fee exceeds the cap            *)
(* (calculate_delivery_fee in orders/pricing.py).                          *)
THEOREM FeeGrows == PricingSpec => []FeeGrowsWithDistance
BY InitFee, NextKeepsFee, FeeRises, PTL DEF PricingSpec

-----------------------------------------------------------------------------
(* The walk.  DiscoveryInv is inductive: a page is the first rows of what  *)
(* is behind its cursor, so the last one separates the rows on the page    *)
(* from the rows to come, whatever ratings the other rows have meanwhile.  *)

(* What a page has of the restaurants steady for it. *)
Spans(page) ==
    \A x \in DOMAIN page.holds :
        /\ Behind(x, page.next) => Behind(x, page.after)
        /\ page.holds[x] \in IF Behind(x, page.after) /\ ~Behind(x, page.next)
                             THEN 1..shifts[x] ELSE {0}

DiscoveryInv == DiscoveryTypeOK /\ SteadyShown /\ \A page \in stored : Spans(page)

(* A page as Redis may hold it. *)
PageFits(page) ==
    /\ {page.after, page.next} \subseteq Cursors
    /\ DOMAIN page.holds \subseteq Listed /\ page.holds \in [DOMAIN page.holds -> 0..MaxShifts]

LEMMA Ranking ==
    ASSUME DiscoveryTypeOK, NEW x \in Shops, NEW y \in Shops, NEW z \in Shops
    PROVE  /\ rating[x] \in Int /\ x \in Int
           /\ ~Before(x, x)
           /\ Before(x, y) => ~Before(y, x)
           /\ Before(x, y) \/ Before(y, x) \/ x = y
           /\ Before(x, y) /\ Before(y, z) => Before(x, z)
<1>1. \A w \in Shops : rating[w] \in Int /\ w \in Int
  <2> SUFFICES ASSUME NEW w \in Shops PROVE rating[w] \in Int /\ w \in Int
    OBVIOUS
  <2>1. rating[w] \in Stars
    BY DEF DiscoveryTypeOK
  <2>2. w \in Nat
    BY DiscoveryAssumption
  <2>3. w \in Int
    BY <2>2
  <2>4. Stars \subseteq Int
    BY DiscoveryAssumption
  <2> QED
    BY <2>1, <2>3, <2>4
<1>2. ~Before(x, x) /\ (Before(x, y) => ~Before(y, x))
  BY <1>1 DEF Before
<1>3. Before(x, y) \/ Before(y, x) \/ x = y
  BY <1>1 DEF Before
<1>4. Before(x, y) /\ Before(y, z) => Before(x, z)
  BY <1>1 DEF Before
<1> QED
  BY <1>1, <1>2, <1>3, <1>4

LEMMA RowRanking ==
    ASSUME DiscoveryTypeOK, NEW p \in Joined, NEW q \in Joined, NEW r \in Joined
    PROVE  /\ RowBefore(p, q) => ~RowBefore(q, p)
           /\ RowBefore(p, q) \/ RowBefore(q, p) \/ p = q
           /\ RowBefore(p, q) /\ RowBefore(q, r) => RowBefore(p, r)
<1>1. \A t \in Joined : t[1] \in Shops /\ t[2] \in Int /\ t = <<t[1], t[2]>>
  BY DiscoveryAssumption DEF Joined
<1>2. RowBefore(p, q) => ~RowBefore(q, p)
  BY <1>1, Ranking DEF RowBefore
<1>3. RowBefore(p, q) \/ RowBefore(q, p) \/ p = q
  <2>1. Before(p[1], q[1]) \/ Before(q[1], p[1]) \/ p[1] = q[1]
    BY <1>1, Ranking
  <2>2. p[2] < q[2] \/ q[2] < p[2] \/ p[2] = q[2]
    BY <1>1
  <2>3. p[1] = q[1] /\ p[2] = q[2] => p = q
    BY <1>1
  <2> QED
    BY <2>1, <2>2, <2>3 DEF RowBefore
<1>4. RowBefore(p, q) /\ RowBefore(q, r) => RowBefore(p, r)
  <2>1. Before(p[1], q[1]) /\ Before(q[1], r[1]) => Before(p[1], r[1])
    BY <1>1, Ranking
  <2>2. p[2] < q[2] /\ q[2] < r[2] => p[2] < r[2]
    BY <1>1
  <2> QED
    BY <2>1, <2>2 DEF RowBefore
<1> QED
  BY <1>2, <1>3, <1>4

LEMMA RowsAreFinite == ASSUME NEW rest \in SUBSET Joined PROVE IsFiniteSet(rest)
<1>1. IsFiniteSet(1..MaxShifts)
  BY DiscoveryAssumption, FS_Interval
<1>2. IsFiniteSet(Joined)
  BY <1>1, DiscoveryAssumption, FS_Product DEF Joined
<1> QED
  BY <1>2, FS_Subset

(* A row of the page comes before every other row that is left. *)
LEMMA FirstComesFirst ==
    ASSUME DiscoveryTypeOK, NEW rest \in SUBSET Joined,
           NEW q \in First(rest), NEW r \in rest \ First(rest)
    PROVE  RowBefore(q, r)
<1> DEFINE Above(z) == {w \in rest : RowBefore(w, z)}
<1>1. q \in rest /\ q \in Joined /\ r \in Joined /\ Cardinality(Above(q)) < Limit /\ ~(Cardinality(Above(r)) < Limit)
  BY DEF First
<1> SUFFICES ASSUME ~RowBefore(q, r) PROVE FALSE
  OBVIOUS
<1>2. RowBefore(r, q)
  BY <1>1, RowRanking
<1>3. Above(r) \subseteq Above(q)
  BY <1>1, <1>2, RowRanking
<1>4. IsFiniteSet(Above(q))
  BY RowsAreFinite
<1>5. /\ Cardinality(Above(r)) <= Cardinality(Above(q))
      /\ Cardinality(Above(q)) \in Nat /\ Cardinality(Above(r)) \in Nat
  BY <1>3, <1>4, FS_Subset, FS_CardinalityType
<1> QED
  BY <1>1, <1>5, DiscoveryAssumption

(* Which rows are behind a row of the walk. *)
LEMMA BehindRow ==
    ASSUME DiscoveryTypeOK, NEW x \in Shops, NEW y \in Shops
    PROVE  Behind(y, At(x)) <=> Before(x, y)
BY DiscoveryAssumption, Ranking DEF Behind, At, Before

(* What a cursor has passed comes before what it has not. *)
LEMMA CursorSplits ==
    ASSUME DiscoveryTypeOK, NEW c \in Cursors, NEW x \in Shops, NEW y \in Shops,
           Behind(x, c), ~Behind(y, c)
    PROVE  Before(y, x)
<1>1. rating[x] \in Int /\ rating[y] \in Int /\ x \in Int /\ y \in Int
  BY Ranking
<1>2. c # Start
  BY DEF Behind, Start
<1>3. c # Bottom
  BY DEF Behind, Bottom
<1>4. PICK n \in Stars, w \in Shops : c = [at |-> "row", rating |-> n, id |-> w]
  BY <1>2, <1>3 DEF Cursors
<1>5. c.at = "row" /\ c.rating = n /\ c.id = w /\ n \in Int /\ w \in Int
  BY <1>4, DiscoveryAssumption
<1> QED
  BY <1>1, <1>5 DEF Behind, Before

(* As many as there are shifts, and one at least if there is a row. *)
LEMMA CountsShifts ==
    ASSUME DiscoveryTypeOK, NEW x \in Shops, NEW S \in SUBSET (1..shifts[x])
    PROVE  /\ Cardinality(S) \in 0..MaxShifts
           /\ S # {} => Cardinality(S) \in 1..shifts[x]
           /\ S = {} => Cardinality(S) = 0
<1> DEFINE n == shifts[x]
<1>1. n \in Nat /\ n <= MaxShifts /\ MaxShifts \in Nat
  BY DiscoveryAssumption DEF DiscoveryTypeOK
<1> HIDE DEF n
<1>2. IsFiniteSet(1..n) /\ Cardinality(1..n) = IF 1 > n THEN 0 ELSE n-1+1
  <2>1. 1 \in Int /\ n \in Int
    BY <1>1
  <2> QED
    BY <2>1, FS_Interval
<1>3. Cardinality(1..n) = n
  BY <1>1, <1>2
<1>4. S \in SUBSET (1..n)
  BY DEF n
<1>5. IsFiniteSet(S) /\ Cardinality(S) <= Cardinality(1..n)
  BY <1>2, <1>4, FS_Subset
<1>6. Cardinality(S) \in Nat /\ (Cardinality(S) = 0 <=> S = {})
  BY <1>5, FS_CardinalityType, FS_EmptySet
<1>7. Cardinality(S) <= n
  BY <1>3, <1>5
<1> DEFINE k == Cardinality(S)
<1>8. k \in Nat /\ k <= n
  BY <1>6, <1>7
<1> HIDE DEF k
<1>9. k \in 0..MaxShifts /\ (k # 0 => k \in 1..n)
  BY <1>1, <1>8
<1> QED
  BY <1>6, <1>9 DEF n, k

(* A page has the rows between its two cursors. *)
LEMMA PageSpans ==
    ASSUME DiscoveryTypeOK, NEW c \in Cursors, NEW page \in discover_restaurants_service(c)
    PROVE  PageFits(page) /\ Spans(page) /\ page.after = c
<1> DEFINE rest == Rest(c)
           rows == First(rest)
           of(x) == {i \in 1..MaxShifts : <<x, i>> \in rows}
<1>1. rest \in SUBSET Joined /\ rows \subseteq rest
  BY DEF Rest, First
<1>2. \A x \in Listed : x \in Shops /\ shifts[x] \in Nat /\ 1 <= shifts[x] /\ shifts[x] <= MaxShifts
  BY DiscoveryAssumption DEF Listed, DiscoveryTypeOK
<1>3. \A x \in Shops, i \in 1..MaxShifts : <<x, i>> \in rest <=> i <= shifts[x] /\ Behind(x, c)
  BY DEF Rest, Joined
<1>4. \A x \in Listed : of(x) \in SUBSET (1..shifts[x])
  BY <1>1, <1>2, <1>3
<1>5. PICK n : page = Page(rows, c, n) /\ ((n = Bottom /\ rows = rest) \/
                 \E r \in rows : (\A q \in rows \ {r} : RowBefore(q, r)) /\ n = At(r[1]))
  BY DEF discover_restaurants_service
<1>6. /\ page.after = c /\ page.next = n /\ DOMAIN page.holds = Listed
      /\ \A x \in Listed : page.holds[x] = Cardinality(of(x))
      /\ page.holds = [x \in Listed |-> Cardinality(of(x))]
  BY <1>5 DEF Page
<1> HIDE DEF rest, rows, of
<1>7. page.holds \in [Listed -> 0..MaxShifts]
  BY <1>2, <1>4, <1>6, CountsShifts
<1>8. n \in Cursors
  <2>1. CASE n = Bottom
    BY <2>1 DEF Cursors
  <2>2. ASSUME NEW r \in rows, n = At(r[1]) PROVE n \in Cursors
    BY <1>1, <2>2 DEF At, Cursors, Joined, DiscoveryTypeOK
  <2> QED
    BY <1>5, <2>1, <2>2
<1>9. ASSUME NEW x \in Listed
      PROVE  /\ Behind(x, n) => Behind(x, c)
             /\ of(x) # {} <=> Behind(x, c) /\ ~Behind(x, n)
  <2>1. <<x, 1>> \in Joined /\ x \in Shops
    BY <1>2, DiscoveryAssumption DEF Joined
  <2>2. ~Behind(x, c) => of(x) = {}
    BY <1>1, <1>3, <2>1 DEF of
  <2>3. Behind(x, c) => <<x, 1>> \in rest
    BY <1>2, <1>3, <2>1, DiscoveryAssumption
  <2>4. <<x, 1>> \in rows => of(x) # {}
    BY <1>2, DiscoveryAssumption DEF of
  <2>5. CASE n = Bottom /\ rows = rest
    BY <2>2, <2>3, <2>4, <2>5 DEF Behind, Bottom
  <2>6. ASSUME NEW r \in rows, \A q \in rows \ {r} : RowBefore(q, r), n = At(r[1])
        PROVE  /\ Behind(x, n) => Behind(x, c)
               /\ of(x) # {} <=> Behind(x, c) /\ ~Behind(x, n)
    <3>1. r \in Joined /\ r[1] \in Shops /\ r[2] \in 1..MaxShifts /\ r = <<r[1], r[2]>> /\ Behind(r[1], c)
      BY <1>1 DEF Joined, Rest, rest
    <3>2. Behind(x, n) <=> Before(r[1], x)
      BY <2>1, <2>6, <3>1, BehindRow
    <3>3. Behind(x, n) => Behind(x, c)
      BY <2>1, <3>1, <3>2, CursorSplits, Ranking
    <3>4. ASSUME Behind(x, n) PROVE of(x) = {}
      <4>1. \A i \in 1..MaxShifts : <<x, i>> # r /\ RowBefore(r, <<x, i>>) /\ <<x, i>> \in Joined
        BY <2>1, <3>1, <3>2, <3>4, Ranking DEF RowBefore, Joined
      <4>2. \A i \in 1..MaxShifts : <<x, i>> \notin rows
        BY <2>6, <3>1, <4>1, RowRanking
      <4> QED
        BY <4>2 DEF of
    <3>5. ASSUME Behind(x, c), ~Behind(x, n) PROVE of(x) # {}
      <4>1. CASE x = r[1]
        BY <3>1, <4>1 DEF of
      <4>2. CASE Before(x, r[1])
        <5>1. RowBefore(<<x, 1>>, r)
          BY <4>2 DEF RowBefore
        <5>2. <<x, 1>> \in rows
          BY <1>1, <2>1, <2>3, <3>1, <3>5, <5>1, FirstComesFirst, RowRanking DEF rows
        <5> QED
          BY <2>4, <5>2
      <4> QED
        BY <2>1, <3>1, <3>2, <3>5, <4>1, <4>2, Ranking
    <3> QED
      BY <2>2, <3>3, <3>4, <3>5
  <2> QED
    BY <1>5, <2>5, <2>6
<1>10. Spans(page)
  BY <1>2, <1>4, <1>6, <1>9, CountsShifts DEF Spans
<1> QED
  BY <1>6, <1>7, <1>8, <1>10 DEF PageFits

(* The walk goes on with the next page, whoever made it and when. *)
LEMMA ShownKeeps ==
    ASSUME DiscoveryInv, UNCHANGED shopVars, NEW page, PageFits(page), Spans(page),
           page.after = cursor, Shows(page)
    PROVE  SteadyShown' /\ cursor' \in Cursors /\ DOMAIN shown' \subseteq Listed
           /\ shown' \in [DOMAIN shown' -> 0..MaxShifts]
<1> USE DEF DiscoveryInv
<1> DEFINE X == DOMAIN shown \intersect DOMAIN page.holds
<1>1. /\ rating' = rating /\ shifts' = shifts /\ cursor' = page.next
      /\ shown' = [x \in X |-> shown[x] + page.holds[x]]
  BY DEF Shows, shopVars
<1>2. DOMAIN shown' = X /\ X \subseteq Listed
  BY <1>1 DEF PageFits
<1>3. \A x \in X : Behind(x, cursor)' <=> Behind(x, page.next)
  BY <1>1 DEF Behind
<1>4. ASSUME NEW x \in X
      PROVE  shown'[x] \in IF Behind(x, page.next) THEN {0} ELSE 1..shifts[x]
  <2>1. shown[x] \in (IF Behind(x, cursor) THEN {0} ELSE 1..shifts[x])
        /\ page.holds[x] \in (IF Behind(x, cursor) /\ ~Behind(x, page.next) THEN 1..shifts[x] ELSE {0})
        /\ (Behind(x, page.next) => Behind(x, cursor))
    BY DEF SteadyShown, Spans
  <2>2. shown'[x] = shown[x] + page.holds[x]
    BY <1>1
  <2>3. shifts[x] \in Nat
    BY <1>2, DiscoveryAssumption DEF DiscoveryTypeOK, Listed
  <2> QED
    BY <2>1, <2>2, <2>3
<1>5. SteadyShown'
  BY <1>1, <1>2, <1>3, <1>4 DEF SteadyShown
<1>6. \A x \in X : shown'[x] \in 0..MaxShifts
  <2>1. \A x \in X : shifts[x] \in 0..MaxShifts
    BY <1>2 DEF DiscoveryTypeOK, Listed
  <2> QED
    BY <1>4, <2>1, DiscoveryAssumption
<1>7. shown' \in [X -> 0..MaxShifts]
  BY <1>1, <1>6
<1>8. Listed' = Listed
  BY <1>1 DEF Listed
<1> QED
  BY <1>1, <1>2, <1>5, <1>7 DEF PageFits

(* What Redis holds after a page is stored, or dropped. *)
LEMMA StoreKeeps ==
    ASSUME DiscoveryInv, UNCHANGED shopVars, cursor' \in Cursors, SteadyShown',
           DOMAIN shown' \subseteq Listed, shown' \in [DOMAIN shown' -> 0..MaxShifts],
           \A page \in stored' : page \in stored \/ (PageFits(page) /\ Spans(page))
    PROVE  DiscoveryInv'
<1>1. rating' = rating /\ shifts' = shifts /\ Listed' = Listed
  BY DEF shopVars, Listed
<1>2. \A page \in stored' : PageFits(page) /\ Spans(page)
  BY DEF DiscoveryInv, DiscoveryTypeOK, PageFits
<1>3. \A page \in stored' : Spans(page)'
  BY <1>1, <1>2 DEF Spans, Behind
<1>4. DiscoveryTypeOK'
  BY <1>1, <1>2 DEF DiscoveryInv, DiscoveryTypeOK, PageFits
<1> QED
  BY <1>3, <1>4 DEF DiscoveryInv

(* The restaurants that move stop being steady; the others keep their      *)
(* place.                                                                  *)
LEMMA MovesKeep ==
    ASSUME DiscoveryInv, NEW x \in Shops, Changes(x)
    PROVE  DiscoveryInv'
<1> USE DEF DiscoveryInv
<1>1. /\ rating' \in [Shops -> Stars] /\ shifts' \in [Shops -> 0..MaxShifts]
      /\ \A y \in Shops \ {x} : rating'[y] = rating[y] /\ shifts'[y] = shifts[y]
      /\ cursor' = cursor
  BY DEF Changes, DiscoveryTypeOK
<1>2. Listed \subseteq Shops /\ Listed \ {x} \subseteq Listed'
  BY <1>1 DEF Listed
<1>3. \A y \in Shops \ {x} : \A c : Behind(y, c)' <=> Behind(y, c)
  BY <1>1 DEF Behind
<1>4. ASSUME NEW f, DOMAIN f \subseteq Listed, f \in [DOMAIN f -> 0..MaxShifts]
      PROVE  /\ DOMAIN Without(f, x) \subseteq Listed'
             /\ Without(f, x) \in [DOMAIN Without(f, x) -> 0..MaxShifts]
             /\ \A y \in DOMAIN Without(f, x) : y \in DOMAIN f /\ y \in Shops \ {x} /\ Without(f, x)[y] = f[y]
  <2>1. DOMAIN Without(f, x) = DOMAIN f \ {x} /\ \A y \in DOMAIN f \ {x} : Without(f, x)[y] = f[y]
    BY DEF Without
  <2>2. Without(f, x) \in [DOMAIN f \ {x} -> 0..MaxShifts]
    BY <1>4 DEF Without
  <2> QED
    BY <1>2, <1>4, <2>1, <2>2
<1>5. shown' = Without(shown, x) /\ stored' = {[after |-> p.after, next |-> p.next, holds |-> Without(p.holds, x)] : p \in stored}
  BY DEF Changes
<1>6. SteadyShown'
  BY <1>1, <1>4, <1>5 DEF SteadyShown, DiscoveryTypeOK, Behind
<1>7. ASSUME NEW page \in stored'
      PROVE  {page.after, page.next} \subseteq Cursors /\ DOMAIN page.holds \subseteq Listed'
             /\ page.holds \in [DOMAIN page.holds -> 0..MaxShifts] /\ Spans(page)'
  <2>1. PICK p \in stored : page = [after |-> p.after, next |-> p.next, holds |-> Without(p.holds, x)]
    BY <1>5
  <2>2. PageFits(p) /\ Spans(p)
    BY DEF DiscoveryTypeOK, PageFits
  <2>3. page.after = p.after /\ page.next = p.next /\ page.holds = Without(p.holds, x)
    BY <2>1
  <2>4. /\ DOMAIN page.holds \subseteq Listed' /\ page.holds \in [DOMAIN page.holds -> 0..MaxShifts]
        /\ \A y \in DOMAIN page.holds : y \in DOMAIN p.holds /\ y \in Shops \ {x} /\ page.holds[y] = p.holds[y]
    BY <1>4, <2>2, <2>3 DEF PageFits
  <2>5. Spans(page)'
    BY <1>1, <1>3, <2>2, <2>3, <2>4 DEF Spans
  <2> QED
    BY <2>2, <2>3, <2>4, <2>5 DEF PageFits
<1> QED
  BY <1>1, <1>4, <1>5, <1>6, <1>7 DEF DiscoveryTypeOK

LEMMA InitDiscovery == DiscoveryInit => DiscoveryInv
<1> SUFFICES ASSUME DiscoveryInit PROVE DiscoveryInv
  OBVIOUS
<1>1. \A x \in Listed : x \in Shops /\ Behind(x, cursor) /\ shown[x] = 0
  BY DEF DiscoveryInit, Unshown, Listed, Behind, Start
<1>2. DOMAIN shown = Listed /\ shown \in [Listed -> 0..MaxShifts]
  BY DiscoveryAssumption DEF DiscoveryInit, Unshown
<1>3. Start \in Cursors
  BY DEF Cursors
<1> QED
  BY <1>1, <1>2, <1>3 DEF DiscoveryInit, DiscoveryInv, DiscoveryTypeOK, SteadyShown

LEMMA NextKeepsDiscovery == DiscoveryInv /\ [DiscoveryNext]_discoveryVars => DiscoveryInv'
<1> SUFFICES ASSUME DiscoveryInv, [DiscoveryNext]_discoveryVars PROVE DiscoveryInv'
  OBVIOUS
<1>1. DiscoveryTypeOK /\ SteadyShown /\ \A page \in stored : PageFits(page) /\ Spans(page)
  BY DEF DiscoveryInv, DiscoveryTypeOK, PageFits
<1>2. ASSUME UNCHANGED walkVars, UNCHANGED shopVars
      PROVE  SteadyShown' /\ cursor' \in Cursors /\ DOMAIN shown' \subseteq Listed
             /\ shown' \in [DOMAIN shown' -> 0..MaxShifts]
  BY <1>1, <1>2 DEF walkVars, shopVars, SteadyShown, Behind, DiscoveryTypeOK
<1>3. CASE discover_restaurants
  <2>1. PICK page \in discover_restaurants_service(cursor) :
            Shows(page) /\ (cache_set(page) \/ UNCHANGED stored)
    BY <1>3 DEF discover_restaurants
  <2>2. UNCHANGED shopVars
    BY <1>3 DEF discover_restaurants
  <2>3. PageFits(page) /\ Spans(page) /\ page.after = cursor
    BY <1>1, PageSpans DEF DiscoveryTypeOK
  <2>4. SteadyShown' /\ cursor' \in Cursors /\ DOMAIN shown' \subseteq Listed
        /\ shown' \in [DOMAIN shown' -> 0..MaxShifts]
    BY <2>1, <2>2, <2>3, ShownKeeps
  <2>5. \A p \in stored' : p \in stored \/ (PageFits(p) /\ Spans(p))
    BY <2>1, <2>3 DEF cache_set
  <2> QED
    BY <2>2, <2>4, <2>5, StoreKeeps
<1>4. CASE discover_restaurants_cached
  <2>1. PICK page \in stored : page.after = cursor /\ Shows(page)
    BY <1>4 DEF discover_restaurants_cached
  <2>2. UNCHANGED shopVars /\ UNCHANGED stored
    BY <1>4 DEF discover_restaurants_cached
  <2>3. SteadyShown' /\ cursor' \in Cursors /\ DOMAIN shown' \subseteq Listed
        /\ shown' \in [DOMAIN shown' -> 0..MaxShifts]
    BY <1>1, <2>1, <2>2, ShownKeeps
  <2> QED
    BY <2>2, <2>3, StoreKeeps
<1>5. CASE PageExpires
  <2>1. UNCHANGED walkVars /\ UNCHANGED shopVars /\ stored' \subseteq stored
    BY <1>5 DEF PageExpires
  <2> QED
    BY <1>2, <2>1, StoreKeeps
<1>6. CASE Reload
  <2>1. UNCHANGED shopVars /\ stored' = stored /\ cursor' = Start /\ shown' = Unshown
    BY <1>6 DEF Reload
  <2>2. DOMAIN shown' = Listed /\ \A x \in Listed : shown'[x] = 0 /\ Behind(x, cursor)'
    BY <2>1 DEF Unshown, Behind, Start
  <2>3. SteadyShown' /\ shown' \in [DOMAIN shown' -> 0..MaxShifts]
    BY <2>1, <2>2, DiscoveryAssumption DEF SteadyShown, Unshown
  <2>4. cursor' \in Cursors
    BY <2>1 DEF Cursors
  <2> QED
    BY <2>1, <2>2, <2>3, <2>4, StoreKeeps
<1>7. ASSUME NEW c \in Cursors \ {Bottom}, OthersScroll(c) PROVE DiscoveryInv'
  <2>1. PICK page \in discover_restaurants_service(c) : cache_set(page)
    BY <1>7 DEF OthersScroll
  <2>2. UNCHANGED walkVars /\ UNCHANGED shopVars
    BY <1>7 DEF OthersScroll
  <2>3. PageFits(page) /\ Spans(page)
    BY <1>1, PageSpans
  <2>4. \A p \in stored' : p \in stored \/ (PageFits(p) /\ Spans(p))
    BY <2>1, <2>3 DEF cache_set
  <2> QED
    BY <1>2, <2>2, <2>4, StoreKeeps
<1>8. CASE UNCHANGED discoveryVars
  <2>1. UNCHANGED walkVars /\ UNCHANGED shopVars /\ UNCHANGED stored
    BY <1>8 DEF discoveryVars
  <2> QED
    BY <1>2, <2>1, StoreKeeps
<1> QED
  BY <1>3, <1>4, <1>5, <1>6, <1>7, <1>8, MovesKeep DEF DiscoveryNext

(* A walk through the restaurants of a city misses none that stays as it   *)
(* was since the oldest of its pages was made, and shows it on one page    *)
(* only, as often as it has open shifts at most.                           *)
THEOREM WalkShowsSteady == DiscoverySpec => []SteadyShown
<1>1. DiscoveryInv => SteadyShown
  BY DEF DiscoveryInv
<1> QED
  BY <1>1, InitDiscovery, NextKeepsDiscovery, PTL DEF DiscoverySpec

-----------------------------------------------------------------------------
(* The handlers of the remaining parts run in sessions. *)
JobsAreFunction == job = [s \in Sessions |-> job[s]]

LEMMA Turns ==
    ASSUME JobsAreFunction, NEW s \in Sessions, NEW j, job' = [job EXCEPT ![s] = j]
    PROVE  JobsAreFunction' /\ job'[s] = j /\ \A t \in Sessions \ {s} : job'[t] = job[t]
BY DEF JobsAreFunction

LEMMA EveryoneIdle ==
    ASSUME job = [s \in Sessions |-> Idle]
    PROVE  JobsAreFunction /\ \A s \in Sessions : job[s] = Idle
<1>1. \A s \in Sessions : job[s] = Idle
  OBVIOUS
<1> QED
  BY <1>1 DEF JobsAreFunction

-----------------------------------------------------------------------------
(* The default address.  A handler clears flags only when it sets one.     *)
ClearsToSet(j) == j.op \in {"add address", "change address"} => j.default \/ j.cleared = {}

AddressesInv == JobsAreFunction /\ \A s \in Sessions : ClearsToSet(job[s])

LEMMA AddressStepKeeps ==
    ASSUME AddressesInv, NEW s \in Sessions, AddressStep(s)
    PROVE  AddressesInv' /\ (default # {} /\ default' = {} => default \ saved' # {})
<1>1. ASSUME NEW j, job' = [job EXCEPT ![s] = j], ClearsToSet(j)
      PROVE  AddressesInv'
  BY <1>1, Turns DEF AddressesInv
<1>2. ClearsToSet(Idle)
  BY DEF ClearsToSet, Idle
<1>3. ASSUME NEW d \in BOOLEAN, AddAddressRead(s, d)
      PROVE  AddressesInv' /\ default' = default
  <2> DEFINE j == [op |-> "add address", cleared |-> IF d THEN saved ELSE {}, default |-> d]
  <2>1. job' = [job EXCEPT ![s] = j] /\ default' = default
    BY <1>3 DEF AddAddressRead, Begin, addressVars
  <2>2. ClearsToSet(j)
    BY DEF ClearsToSet
  <2> QED
    BY <1>1, <2>1, <2>2
<1>4. ASSUME NEW d \in BOOLEAN, NEW a \in Places, UpdateAddressRead(s, a, d)
      PROVE  AddressesInv' /\ default' = default
  <2> DEFINE sets == d /\ a \notin default
             j == [op |-> "change address", address |-> a, cleared |-> IF sets THEN saved ELSE {},
                   default |-> sets]
  <2>1. job' = [job EXCEPT ![s] = j] /\ default' = default
    BY <1>4 DEF UpdateAddressRead, Begin, addressVars
  <2>2. ClearsToSet(j)
    BY DEF ClearsToSet
  <2> QED
    BY <1>1, <2>1, <2>2
<1>5. ASSUME NEW a \in Places, add_address(s, a)
      PROVE  AddressesInv' /\ (default # {} => default' # {})
  <2>1. AddressesInv'
    BY <1>1, <1>2, <1>5 DEF add_address, End
  <2>2. ClearsToSet(job[s])
    BY DEF AddressesInv
  <2> QED
    BY <1>5, <2>1, <2>2 DEF add_address, ClearsToSet
<1>6. ASSUME NEW a \in Places, DeleteAddressRead(s, a)
      PROVE  AddressesInv' /\ default' = default
  <2>1. ClearsToSet([op |-> "drop address", address |-> a])
    BY DEF ClearsToSet
  <2> QED
    BY <1>1, <1>6, <2>1 DEF DeleteAddressRead, Begin, addressVars
<1>7. ASSUME update_address(s)
      PROVE  AddressesInv' /\ (default # {} => default' # {})
  <2>1. AddressesInv'
    BY <1>1, <1>2, <1>7 DEF update_address, End
  <2>2. ClearsToSet(job[s])
    BY DEF AddressesInv
  <2> QED
    BY <1>7, <2>1, <2>2 DEF update_address, ClearsToSet
<1>8. ASSUME delete_address(s)
      PROVE  AddressesInv' /\ (default # {} /\ default' = {} => default \ saved' # {})
  BY <1>1, <1>2, <1>8 DEF delete_address, End
<1>9. ASSUME AddressGone(s)
      PROVE  AddressesInv' /\ default' = default
  BY <1>1, <1>2, <1>9 DEF AddressGone, End, addressVars
<1> QED
  BY <1>3, <1>4, <1>5, <1>6, <1>7, <1>8, <1>9 DEF AddressStep

LEMMA InitAddresses == AddressesInit => AddressesInv
<1>1. ClearsToSet(Idle)
  BY DEF ClearsToSet, Idle
<1> QED
  BY <1>1, EveryoneIdle DEF AddressesInit, AddressesInv

LEMMA NextKeepsAddresses ==
    AddressesInv /\ [AddressesNext]_<<job, addressVars>> =>
    /\ AddressesInv'
    /\ [default # {} /\ default' = {} => default \ saved' # {}]_<<job, addressVars>>
BY AddressStepKeeps DEF AddressesNext, AddressesInv, addressVars, JobsAreFunction, ClearsToSet

(* For any number of requests that overlap and any addresses: changing the *)
(* default address never leaves a customer without one, only deleting it   *)
(* does (add_address, update_address, delete_address).                     *)
THEOREM DefaultStays == AddressesSpec => DefaultRemains
BY InitAddresses, NextKeepsAddresses, PTL DEF AddressesSpec, DefaultRemains

LEMMA NextTypesAddresses ==
    AddressesTypeOK /\ AddressesInv /\ [AddressesNext]_<<job, addressVars>> => AddressesTypeOK'
<1> SUFFICES ASSUME AddressesTypeOK, AddressesInv, AddressesNext PROVE AddressesTypeOK'
  BY DEF AddressesTypeOK, addressVars
<1> USE DEF AddressesTypeOK, addressVars
<1>1. PICK s \in Sessions : AddressStep(s)
  BY DEF AddressesNext
<1>2. ASSUME NEW d \in BOOLEAN, AddAddressRead(s, d) PROVE AddressesTypeOK'
  BY <1>2 DEF AddAddressRead
<1>3. ASSUME NEW d \in BOOLEAN, NEW a \in Places, UpdateAddressRead(s, a, d) PROVE AddressesTypeOK'
  BY <1>3 DEF UpdateAddressRead
<1>4. ASSUME NEW a \in Places, add_address(s, a) PROVE AddressesTypeOK'
  BY <1>4 DEF add_address
<1>5. ASSUME NEW a \in Places, DeleteAddressRead(s, a) PROVE AddressesTypeOK'
  BY <1>5 DEF DeleteAddressRead
<1>6. CASE update_address(s)
  BY <1>6 DEF update_address
<1>7. CASE delete_address(s)
  BY <1>7 DEF delete_address
<1>8. CASE AddressGone(s)
  BY <1>8 DEF AddressGone
<1> QED
  BY <1>1, <1>2, <1>3, <1>4, <1>5, <1>6, <1>7, <1>8 DEF AddressStep

-----------------------------------------------------------------------------
(* The rating.  Whatever a review has read of count and average was earned *)
(* by rows that are still there, for no review is ever taken back.         *)
Rows == [order : Delivered, by : {"CUSTOMER", "RIDER"}, about : RevieweeTypes, rating : Ratings]

(* A count and an average that the rows of R can have led to. *)
Earned(n, a, R) ==
    /\ n \in Nat /\ a \in Nat /\ n <= Cardinality(R)
    /\ n = 0 => a = 0
    /\ n > 0 => \E x, y \in R : 100 * x.rating <= a /\ a <= 100 * y.rating

RatingRead(j) ==
    j.op = "rate" => /\ j.row \in Rows
                     /\ j.row.about \in Rated => Earned(j.total, j.average, About(j.row.about))

RatingsFit ==
    \A t \in Rated : /\ Earned(total[t], average[t], About(t))
                     /\ About(t) # {} => total[t] > 0

ReviewsInv ==
    /\ JobsAreFunction /\ reviews \subseteq Rows /\ IsFiniteSet(reviews)
    /\ total = [t \in Rated |-> total[t]] /\ average = [t \in Rated |-> average[t]]
    /\ RatingsFit
    /\ \A s \in Sessions : RatingRead(job[s])

(* A quotient of x by k that lies between two whole numbers stays between  *)
(* them when it is rounded.                                                *)
LEMMA RoundedBetween ==
    ASSUME NEW x \in Nat, NEW k \in Nat \ {0}, NEW lo \in Nat, NEW hi \in Nat,
           lo * k <= x, x <= hi * k
    PROVE  Rounded(x, k) \in Nat /\ lo <= Rounded(x, k) /\ Rounded(x, k) <= hi
<1> DEFINE q == x \div k
           r == x % k
<1>1. q \in Nat /\ r \in Nat /\ r < k /\ x = q * k + r
  OBVIOUS
<1> HIDE DEF q, r
<1>2. \A a, b \in Nat : a * k < b * k + k => a <= b
  <2> SUFFICES ASSUME NEW a \in Nat, NEW b \in Nat, b + 1 <= a PROVE b * k + k <= a * k
    OBVIOUS
  <2>1. PICK c \in Nat : a = b + 1 + c
    <3>1. a - b - 1 \in Nat /\ a = b + 1 + (a - b - 1)
      OBVIOUS
    <3> QED
      BY <3>1
  <2>2. a * k = b * k + k + c * k /\ c * k \in Nat /\ b * k \in Nat
    BY <2>1
  <2> QED
    BY <2>2
<1>3. lo * k \in Nat /\ q * k \in Nat /\ hi * k \in Nat
  BY <1>1
<1>4. lo <= q
  <2>1. lo * k < q * k + k
    BY <1>1, <1>3
  <2> QED
    BY <1>1, <1>2, <2>1
<1>5. q <= hi
  <2>1. q * k < hi * k + k
    BY <1>1, <1>3
  <2> QED
    BY <1>1, <1>2, <2>1
<1>6. r > 0 => q + 1 <= hi
  <2> SUFFICES ASSUME r > 0 PROVE q + 1 <= hi
    OBVIOUS
  <2>1. (q + 1) * k < hi * k + k
    <3>1. (q + 1) * k = q * k + k
      BY <1>1
    <3> QED
      BY <1>1, <1>3, <3>1
  <2> QED
    BY <1>1, <1>2, <2>1
<1>7. Rounded(x, k) = q \/ (Rounded(x, k) = q + 1 /\ r > 0)
  <2>1. Rounded(x, k) = IF 2 * r > k \/ (2 * r = k /\ q % 2 = 1) THEN q + 1 ELSE q
    BY DEF Rounded, q, r
  <2> QED
    BY <1>1, <2>1
<1> QED
  BY <1>1, <1>4, <1>5, <1>6, <1>7

(* The new average lies between the old one and the new rating. *)
LEMMA AverageBetween ==
    ASSUME NEW a \in Nat, NEW n \in Nat, NEW b \in Nat, NEW lo \in Nat, NEW hi \in Nat,
           lo <= a, a <= hi, lo <= 100 * b, 100 * b <= hi
    PROVE  NewAverage(a, n, b) \in Nat /\ lo <= NewAverage(a, n, b) /\ NewAverage(a, n, b) <= hi
<1>1. a * n \in Nat /\ lo * n \in Nat /\ hi * n \in Nat
  OBVIOUS
<1>2. lo * n <= a * n /\ a * n <= hi * n
  <2>1. \A u, v \in Nat : u <= v => u * n <= v * n
    <3> SUFFICES ASSUME NEW u \in Nat, NEW v \in Nat, u <= v PROVE u * n <= v * n
      OBVIOUS
    <3>1. PICK c \in Nat : v = u + c
      <4>1. v - u \in Nat /\ v = u + (v - u)
        OBVIOUS
      <4> QED
        BY <4>1
    <3>2. v * n = u * n + c * n /\ c * n \in Nat /\ u * n \in Nat
      BY <3>1
    <3> QED
      BY <3>2
  <2> QED
    BY <2>1
<1>3. lo * (n + 1) = lo * n + lo /\ hi * (n + 1) = hi * n + hi
  OBVIOUS
<1>4. /\ lo * (n + 1) <= a * n + 100 * b /\ a * n + 100 * b <= hi * (n + 1)
      /\ a * n + 100 * b \in Nat /\ n + 1 \in Nat \ {0}
  BY <1>1, <1>2, <1>3
<1> QED
  BY <1>4, RoundedBetween DEF NewAverage

LEMMA RatingOfRow ==
    ASSUME NEW x \in Rows
    PROVE  x.rating \in 1..5 /\ 100 * x.rating \in Nat /\ x.about \in RevieweeTypes
<1>1. x.rating \in Ratings /\ x.about \in RevieweeTypes
  BY DEF Rows
<1>2. x.rating \in 1..5
  BY <1>1, ReviewsAssumption
<1> QED
  BY <1>1, <1>2

(* Another row takes nothing from what the others have earned. *)
LEMMA StaysEarned ==
    ASSUME NEW R, IsFiniteSet(R), NEW x, NEW n, NEW a, Earned(n, a, R)
    PROVE  Earned(n, a, R \union {x})
<1>1. /\ Cardinality(R) \in Nat /\ Cardinality(R \union {x}) \in Nat
      /\ Cardinality(R) <= Cardinality(R \union {x})
  <2>1. Cardinality(R) \in Nat
    BY FS_CardinalityType
  <2>2. Cardinality(R \union {x}) = IF x \in R THEN Cardinality(R) ELSE Cardinality(R) + 1
    BY FS_AddElement
  <2> QED
    BY <2>1, <2>2
<1>2. n > 0 => \E y, z \in R \union {x} : 100 * y.rating <= a /\ a <= 100 * z.rating
  BY DEF Earned
<1> QED
  BY <1>1, <1>2 DEF Earned

(* The first review sets the average, a later one moves it. *)
LEMMA EarnsMore ==
    ASSUME NEW R \in SUBSET Rows, IsFiniteSet(R), NEW row \in Rows, row \notin R,
           NEW n, NEW a, Earned(n, a, R)
    PROVE  /\ Earned(n + 1, NewAverage(a, n, row.rating), R \union {row})
           /\ n = 0 => NewAverage(a, n, row.rating) = 100 * row.rating
<1> DEFINE b == row.rating
           new == NewAverage(a, n, b)
<1>1. /\ Cardinality(R) \in Nat /\ Cardinality(R \union {row}) = Cardinality(R) + 1
  BY FS_AddElement, FS_CardinalityType
<1>2. n \in Nat /\ a \in Nat /\ n <= Cardinality(R) /\ b \in 1..5 /\ row \in R \union {row}
  BY RatingOfRow DEF Earned
<1>3. CASE n = 0
  <2>1. new = Rounded(100 * b, 1)
    <3>1. a * 0 = 0
      BY <1>2
    <3>2. a * n + 100 * b = 100 * b /\ n + 1 = 1
      BY <1>2, <1>3, <3>1
    <3> QED
      BY <3>2 DEF NewAverage
  <2>2. new \in Nat /\ 100 * b <= new /\ new <= 100 * b
    <3>1. 100 * b \in Nat /\ 1 \in Nat \ {0} /\ (100 * b) * 1 <= 100 * b /\ 100 * b <= (100 * b) * 1
      BY <1>2
    <3> HIDE DEF b
    <3> QED
      BY <2>1, <3>1, RoundedBetween
  <2>3. new = 100 * b
    BY <1>2, <2>2
  <2> QED
    BY <1>1, <1>2, <1>3, <2>2, <2>3 DEF Earned
<1>4. CASE n > 0
  <2>1. PICK x \in R, y \in R : 100 * x.rating <= a /\ a <= 100 * y.rating
    BY <1>4 DEF Earned
  <2>2. x.rating \in 1..5 /\ y.rating \in 1..5
    BY RatingOfRow
  <2>3. PICK low \in R \union {row} : low.rating \in 1..5 /\ low.rating <= x.rating /\ low.rating <= b
    <3>1. CASE x.rating <= b
      BY <1>2, <2>2, <3>1
    <3>2. CASE b <= x.rating
      BY <1>2, <2>2, <3>2
    <3> QED
      BY <1>2, <2>2, <3>1, <3>2
  <2>4. PICK high \in R \union {row} : high.rating \in 1..5 /\ y.rating <= high.rating /\ b <= high.rating
    <3>1. CASE y.rating >= b
      BY <1>2, <2>2, <3>1
    <3>2. CASE b >= y.rating
      BY <1>2, <2>2, <3>2
    <3> QED
      BY <1>2, <2>2, <3>1, <3>2
  <2>5. new \in Nat /\ 100 * low.rating <= new /\ new <= 100 * high.rating
    <3>1. /\ 100 * low.rating \in Nat /\ 100 * high.rating \in Nat /\ b \in Nat
          /\ 100 * low.rating <= a /\ a <= 100 * high.rating
          /\ 100 * low.rating <= 100 * b /\ 100 * b <= 100 * high.rating
      BY <1>2, <2>1, <2>2, <2>3, <2>4
    <3> QED
      BY <1>2, <3>1, AverageBetween
  <2> QED
    BY <1>1, <1>2, <1>4, <2>5 DEF Earned
<1> QED
  BY <1>2, <1>3, <1>4

(* submit_review: the row, and average and count computed from what was    *)
(* read, of which the flush leaves an average alone that does not change.  *)
LEMMA SubmitKeeps ==
    ASSUME ReviewsInv, NEW s \in Sessions, submit_review(s)
    PROVE  ReviewsInv'
<1> DEFINE j == job[s]
           row == j.row
           avg == NewAverage(j.average, j.total, row.rating)
<1> USE DEF ReviewsInv
<1>1. /\ j.op = "rate" /\ row \in Rows /\ row.about \in RevieweeTypes /\ row \notin reviews
      /\ row.about \in Rated => Earned(j.total, j.average, About(row.about))
      /\ reviews' = reviews \union {row}
      /\ row.about \in Rated => /\ total' = [total EXCEPT ![row.about] = j.total + 1]
                                /\ average' = [average EXCEPT ![row.about] = Flushed(@, j.average, avg)]
      /\ row.about \notin Rated => total' = total /\ average' = average
      /\ job' = [job EXCEPT ![s] = IF row.about = "RESTAURANT" THEN [op |-> "forget"] ELSE Idle]
  BY RatingOfRow DEF submit_review, RatingRead, Fresh, Continue, End
<1>2. \A t \in Rated : /\ IsFiniteSet(About(t)) /\ About(t) \subseteq reviews /\ About(t) \subseteq Rows
                       /\ row \notin About(t)
  BY <1>1, FS_Subset DEF About
<1>3. \A t \in Rated : About(t)' = IF t = row.about THEN About(t) \union {row} ELSE About(t)
  BY <1>1 DEF About
<1>4. reviews' \subseteq Rows /\ IsFiniteSet(reviews')
  BY <1>1, FS_AddElement
<1>5. \A t \in Rated : \A n, a : Earned(n, a, About(t)) => Earned(n, a, About(t)')
  <2> SUFFICES ASSUME NEW t \in Rated, NEW n, NEW a, Earned(n, a, About(t))
               PROVE  Earned(n, a, About(t) \union {row})
    BY <1>3
  <2> QED
    BY <1>2, StaysEarned
<1>6. JobsAreFunction' /\ \A t \in Sessions : RatingRead(job[t])'
  <2>1. JobsAreFunction' /\ job'[s].op # "rate" /\ \A t \in Sessions \ {s} : job'[t] = job[t]
    <3>1. [op |-> "forget"].op # "rate" /\ Idle.op # "rate"
      BY DEF Idle
    <3> QED
      BY <1>1, <3>1, Turns
  <2> QED
    BY <1>5, <2>1 DEF RatingRead
<1>7. RatingsFit' /\ total' = [t \in Rated |-> total'[t]] /\ average' = [t \in Rated |-> average'[t]]
  <2>1. CASE row.about \notin Rated
    <3>1. \A t \in Rated : About(t)' = About(t)
      BY <1>3, <2>1
    <3> QED
      BY <1>1, <2>1, <3>1 DEF RatingsFit
  <2>2. CASE row.about \in Rated
    <3>0. PICK t \in Rated : t = row.about
      BY <2>2
    <3>1. /\ total'[t] = j.total + 1 /\ average'[t] = Flushed(average[t], j.average, avg)
          /\ \A u \in Rated \ {t} : total'[u] = total[u] /\ average'[u] = average[u] /\ About(u)' = About(u)
          /\ total' = [u \in Rated |-> total'[u]] /\ average' = [u \in Rated |-> average'[u]]
      BY <1>1, <1>3, <3>0
    <3>2. Earned(j.total + 1, avg, About(t)') /\ (j.total = 0 => avg = 100 * row.rating)
      <4>1. /\ About(t) \in SUBSET Rows /\ IsFiniteSet(About(t)) /\ row \notin About(t)
            /\ Earned(j.total, j.average, About(t)) /\ row \in Rows
        BY <1>1, <1>2, <3>0
      <4>2. /\ Earned(j.total + 1, avg, About(t) \union {row})
            /\ j.total = 0 => avg = 100 * row.rating
        <5> HIDE DEF row, j
        <5> QED
          BY <4>1, EarnsMore
      <4>3. About(t)' = About(t) \union {row}
        BY <1>3, <3>0
      <4> QED
        BY <4>2, <4>3
    <3>3. j.total \in Nat /\ (j.total = 0 => j.average = 0) /\ row.rating \in 1..5
      BY <1>1, <3>0, RatingOfRow DEF Earned
    <3>4. avg = j.average => Earned(j.total + 1, average[t], About(t)')
      <4> SUFFICES ASSUME avg = j.average PROVE Earned(j.total + 1, average[t], About(t)')
        OBVIOUS
      <4>1. j.total > 0
        BY <3>2, <3>3
      <4>2. About(t) # {}
        BY <1>1, <3>0, <4>1 DEF Earned
      <4>3. Earned(total[t], average[t], About(t)') /\ total[t] > 0
        <5>1. Earned(total[t], average[t], About(t)) /\ total[t] > 0
          BY <4>2 DEF RatingsFit
        <5> QED
          BY <1>5, <5>1
      <4> QED
        BY <3>2, <3>3, <4>1, <4>3 DEF Earned
    <3>5. Earned(total'[t], average'[t], About(t)')
      BY <3>1, <3>2, <3>4 DEF Flushed
    <3>6. total'[t] > 0
      BY <3>1, <3>3
    <3>7. \A u \in Rated : /\ Earned(total'[u], average'[u], About(u)')
                           /\ About(u)' # {} => total'[u] > 0
      <4> SUFFICES ASSUME NEW u \in Rated
                   PROVE  /\ Earned(total'[u], average'[u], About(u)')
                          /\ About(u)' # {} => total'[u] > 0
        OBVIOUS
      <4>1. CASE u = t
        BY <3>5, <3>6, <4>1
      <4>2. CASE u # t
        BY <3>1, <4>2 DEF RatingsFit
      <4> QED
        BY <4>1, <4>2
    <3> QED
      BY <3>1, <3>7 DEF RatingsFit
  <2> QED
    BY <2>1, <2>2
<1> QED
  BY <1>4, <1>6, <1>7

(* No other step writes a row, a count or an average. *)
LEMMA RatingStands ==
    ASSUME ReviewsInv, NEW s \in Sessions, NEW j, RatingRead(j), job' = [job EXCEPT ![s] = j],
           UNCHANGED <<reviews, total, average>>
    PROVE  ReviewsInv'
<1>1. JobsAreFunction' /\ job'[s] = j /\ \A t \in Sessions \ {s} : job'[t] = job[t]
  BY Turns DEF ReviewsInv
<1>2. \A t \in Sessions : RatingRead(job[t])'
  <2>1. \A t : About(t)' = About(t)
    BY DEF About
  <2>2. \A t \in Sessions : RatingRead(job'[t])
    BY <1>1 DEF ReviewsInv
  <2> QED
    BY <2>1, <2>2 DEF RatingRead
<1> QED
  BY <1>1, <1>2 DEF ReviewsInv, RatingsFit, About

LEMMA ReviewStepKeeps ==
    ASSUME ReviewsInv, NEW s \in Sessions, ReviewStep(s, RevieweeTypes, Ratings)
    PROVE  ReviewsInv'
<1>1. \A j : j.op # "rate" => RatingRead(j)
  BY DEF RatingRead
<1>2. /\ RatingRead(Idle)
      /\ \A n : RatingRead([op |-> "page", shown |-> n])
  BY <1>1 DEF Idle
<1>3. ASSUME NEW o \in Delivered, NEW t \in RevieweeTypes, NEW r \in Ratings, ReviewRead(s, o, t, r)
      PROVE  ReviewsInv'
  <2> DEFINE by == IF t = "CUSTOMER" THEN "RIDER" ELSE "CUSTOMER"
             row == [order |-> o, by |-> by, about |-> t, rating |-> r]
             j == [op |-> "rate", row |-> row,
                   total |-> IF t \in Rated THEN total[t] ELSE 0,
                   average |-> IF t \in Rated THEN average[t] ELSE 0]
  <2>1. job' = [job EXCEPT ![s] = j] /\ UNCHANGED <<reviews, total, average>>
    BY <1>3 DEF ReviewRead, Begin, reviewVars
  <2>2. row \in Rows
    BY DEF Rows
  <2>3. t \in Rated => Earned(total[t], average[t], About(t))
    BY DEF ReviewsInv, RatingsFit
  <2>4. RatingRead(j)
    BY <2>2, <2>3 DEF RatingRead
  <2> QED
    BY <2>1, <2>4, RatingStands
<1>4. CASE submit_review(s)
  BY <1>4, SubmitKeeps
<1>5. CASE ReviewTwice(s)
  BY <1>2, <1>5, RatingStands DEF ReviewTwice, End, reviewVars
<1>6. CASE ForgetReviews(s)
  BY <1>2, <1>6, RatingStands DEF ForgetReviews, End
<1>7. CASE ReviewPageRead(s)
  BY <1>2, <1>7, RatingStands DEF ReviewPageRead, Begin, reviewVars
<1>8. CASE StoreReviewPage(s)
  BY <1>2, <1>8, RatingStands DEF StoreReviewPage, End
<1> QED
  BY <1>3, <1>4, <1>5, <1>6, <1>7, <1>8 DEF ReviewStep

LEMMA InitReviews == ReviewsInit => ReviewsInv
<1> SUFFICES ASSUME ReviewsInit PROVE ReviewsInv
  OBVIOUS
<1>1. /\ reviews = {} /\ total = [t \in Rated |-> 0] /\ average = [t \in Rated |-> 0]
      /\ JobsAreFunction /\ \A s \in Sessions : job[s] = Idle
  BY EveryoneIdle DEF ReviewsInit, NoReviews
<1>2. \A s \in Sessions : RatingRead(job[s])
  BY <1>1 DEF RatingRead, Idle
<1>3. \A t \in Rated : About(t) = {}
  BY <1>1 DEF About
<1>4. IsFiniteSet(reviews) /\ Cardinality({}) = 0
  BY <1>1, FS_EmptySet
<1>5. RatingsFit
  BY <1>1, <1>3, <1>4 DEF RatingsFit, Earned
<1> QED
  BY <1>1, <1>2, <1>4, <1>5 DEF ReviewsInv

LEMMA NextKeepsReviews == ReviewsInv /\ [ReviewsNext]_<<job, reviewVars>> => ReviewsInv'
<1> SUFFICES ASSUME ReviewsInv, [ReviewsNext]_<<job, reviewVars>> PROVE ReviewsInv'
  OBVIOUS
<1>1. CASE \E s \in Sessions : ReviewStep(s, RevieweeTypes, Ratings)
  BY <1>1, ReviewStepKeeps
<1>2. CASE UNCHANGED <<job, reviews, total, average>>
  BY <1>2 DEF ReviewsInv, RatingsFit, RatingRead, About, JobsAreFunction
<1> QED
  BY <1>1, <1>2 DEF ReviewsNext, ReviewPageExpires, reviewVars

LEMMA EarnedInBounds == ReviewsInv => RatingsAreEarned
<1> SUFFICES ASSUME ReviewsInv, NEW t \in Rated
             PROVE  LET given == {r.rating : r \in About(t)} IN
                    /\ total[t] <= Cardinality(About(t))
                    /\ About(t) # {} => /\ total[t] > 0
                                        /\ 100 * Min(given) <= average[t] /\ average[t] <= 100 * Max(given)
  BY DEF RatingsAreEarned
<1> DEFINE given == {r.rating : r \in About(t)}
<1>1. Earned(total[t], average[t], About(t)) /\ (About(t) # {} => total[t] > 0)
  BY DEF ReviewsInv, RatingsFit
<1>2. given \subseteq 1..5
  BY RatingOfRow DEF ReviewsInv, About
<1>3. \A g \in given : Min(given) \in 1..5 /\ Max(given) \in 1..5 /\ Min(given) <= g /\ g <= Max(given)
  <2> HIDE DEF given
  <2> SUFFICES ASSUME NEW g \in given
               PROVE  Min(given) \in 1..5 /\ Max(given) \in 1..5 /\ Min(given) <= g /\ g <= Max(given)
    OBVIOUS
  <2>1. \E x \in given : \A y \in given : x <= y
    BY <1>2
  <2>2. \E x \in given : \A y \in given : x >= y
    BY <1>2
  <2> QED
    BY <1>2, <2>1, <2>2 DEF Min, Max
<1>4. ASSUME About(t) # {}
      PROVE  100 * Min(given) <= average[t] /\ average[t] <= 100 * Max(given)
  <2>1. PICK x \in About(t), y \in About(t) : 100 * x.rating <= average[t] /\ average[t] <= 100 * y.rating
    BY <1>1, <1>4 DEF Earned
  <2>2. x.rating \in given /\ y.rating \in given
    OBVIOUS
  <2>3. average[t] \in Nat /\ x.rating \in 1..5 /\ y.rating \in 1..5
    BY <1>1, <1>2, <2>2 DEF Earned
  <2>4. Min(given) \in 1..5 /\ Max(given) \in 1..5 /\ Min(given) <= x.rating /\ y.rating <= Max(given)
    BY <1>3, <2>2
  <2> HIDE DEF given
  <2> QED
    BY <2>1, <2>3, <2>4
<1> QED
  BY <1>1, <1>4 DEF Earned

(* For any number of reviews of any orders, written in any overlap: the    *)
(* count shown is at most the number of reviews and not 0 once there is    *)
(* one, and the average lies within the ratings given (submit_review,      *)
(* which computes both from what it read).                                 *)
THEOREM RatingsEarned == ReviewsSpec => []RatingsAreEarned
BY InitReviews, NextKeepsReviews, EarnedInBounds, PTL DEF ReviewsSpec

(* The unique constraint: one review of a kind per order, so there are no  *)
(* more of a kind than orders, now or when a page was read.                *)
OneEach == \A x, y \in reviews : x.order = y.order /\ x.about = y.about => x = y

PagesFit ==
    /\ reviewsCached \subseteq 0..Cardinality(Delivered)
    /\ \A s \in Sessions : job[s].op = "page" => job[s].shown \in 0..Cardinality(Delivered)

LEMMA AboutFits ==
    ASSUME ReviewsInv, OneEach, NEW t
    PROVE  Cardinality(About(t)) \in 0..Cardinality(Delivered)
<1> DEFINE R == About(t)
           f == [x \in R |-> x.order]
<1>1. R \subseteq Rows /\ IsFiniteSet(R) /\ \A x, y \in R : x.order = y.order => x = y
  BY FS_Subset DEF ReviewsInv, OneEach, About
<1>2. \A x \in R : x.order \in Delivered
  BY <1>1 DEF Rows
<1> HIDE DEF R
<1>3. f \in Injection(R, Delivered)
  BY <1>1, <1>2 DEF Injection, IsInjective
<1>4. Cardinality(R) <= Cardinality(Delivered)
  BY <1>3, FS_Injection, ReviewsAssumption
<1> QED
  BY <1>1, <1>4, FS_CardinalityType, ReviewsAssumption DEF R

LEMMA TypesOfReviews == ReviewsInv /\ OneEach /\ PagesFit => ReviewsTypeOK
<1> SUFFICES ASSUME ReviewsInv, OneEach, PagesFit PROVE ReviewsTypeOK
  OBVIOUS
<1>1. ASSUME NEW t \in Rated
      PROVE  total[t] \in 0..Cardinality(Delivered) /\ average[t] \in 0..500
  <2>1. Earned(total[t], average[t], About(t))
    BY DEF ReviewsInv, RatingsFit
  <2>2. Cardinality(About(t)) \in 0..Cardinality(Delivered) /\ Cardinality(Delivered) \in Nat
    BY AboutFits, FS_CardinalityType, ReviewsAssumption
  <2>3. ASSUME total[t] > 0 PROVE average[t] <= 500
    <3>1. PICK y \in About(t) : average[t] <= 100 * y.rating
      BY <2>1, <2>3 DEF Earned
    <3>2. y.rating \in 1..5
      BY RatingOfRow DEF ReviewsInv, About
    <3> QED
      BY <2>1, <3>1, <3>2 DEF Earned
  <2> QED
    BY <2>1, <2>2, <2>3 DEF Earned
<1>2. total \in [Rated -> 0..Cardinality(Delivered)] /\ average \in [Rated -> 0..500]
  BY <1>1 DEF ReviewsInv
<1> QED
  BY <1>2 DEF ReviewsTypeOK, ReviewsInv, PagesFit, Rows

LEMMA NextKeepsPages ==
    ReviewsInv /\ OneEach /\ PagesFit /\ [ReviewsNext]_<<job, reviewVars>> => OneEach' /\ PagesFit'
<1> SUFFICES ASSUME ReviewsInv, OneEach, PagesFit, [ReviewsNext]_<<job, reviewVars>>
             PROVE  OneEach' /\ PagesFit'
  OBVIOUS
<1> USE DEF reviewVars
<1>1. ASSUME UNCHANGED reviews PROVE OneEach'
  BY <1>1 DEF OneEach
<1>2. ASSUME NEW s \in Sessions, NEW j, job' = [job EXCEPT ![s] = j],
             j.op = "page" => j.shown \in 0..Cardinality(Delivered),
             reviewsCached' \subseteq 0..Cardinality(Delivered)
      PROVE  PagesFit'
  BY <1>2, Turns DEF PagesFit, ReviewsInv
<1>3. Idle.op # "page" /\ [op |-> "forget"].op # "page" /\ reviewsCached \subseteq 0..Cardinality(Delivered)
  BY DEF Idle, PagesFit
<1>4. ASSUME NEW s \in Sessions, NEW o \in Delivered, NEW t \in RevieweeTypes, NEW r \in Ratings,
             ReviewRead(s, o, t, r)
      PROVE  OneEach' /\ PagesFit'
  <2> DEFINE j == [op |-> "rate",
                   row |-> [order |-> o, by |-> IF t = "CUSTOMER" THEN "RIDER" ELSE "CUSTOMER",
                            about |-> t, rating |-> r],
                   total |-> IF t \in Rated THEN total[t] ELSE 0,
                   average |-> IF t \in Rated THEN average[t] ELSE 0]
  <2>1. job' = [job EXCEPT ![s] = j] /\ UNCHANGED reviewVars
    BY <1>4 DEF ReviewRead, Begin
  <2>2. j.op # "page"
    OBVIOUS
  <2> HIDE DEF j
  <2> QED
    BY <1>1, <1>2, <1>3, <2>1, <2>2
<1>5. ASSUME NEW s \in Sessions, submit_review(s) PROVE OneEach' /\ PagesFit'
  <2>1. OneEach'
    BY <1>5 DEF submit_review, Fresh, OneEach
  <2> QED
    BY <1>2, <1>3, <1>5, <2>1 DEF submit_review, Continue, End
<1>6. ASSUME NEW s \in Sessions, ReviewTwice(s) \/ ForgetReviews(s) PROVE OneEach' /\ PagesFit'
  BY <1>1, <1>2, <1>3, <1>6 DEF ReviewTwice, ForgetReviews, End
<1>7. ASSUME NEW s \in Sessions, ReviewPageRead(s) PROVE OneEach' /\ PagesFit'
  <2>1. [op |-> "page", shown |-> Cardinality(About("RESTAURANT"))].shown \in 0..Cardinality(Delivered)
    BY AboutFits
  <2> QED
    BY <1>1, <1>2, <1>3, <1>7, <2>1 DEF ReviewPageRead, Begin
<1>8. ASSUME NEW s \in Sessions, StoreReviewPage(s) PROVE OneEach' /\ PagesFit'
  BY <1>1, <1>2, <1>3, <1>8 DEF StoreReviewPage, End, PagesFit
<1>9. CASE ReviewPageExpires \/ UNCHANGED <<job, reviewVars>>
  BY <1>1, <1>9 DEF ReviewPageExpires, PagesFit
<1> QED
  BY <1>4, <1>5, <1>6, <1>7, <1>8, <1>9 DEF ReviewsNext, ReviewStep

-----------------------------------------------------------------------------
(* The push.  While the list it walks is the live one, no socket at or     *)
(* behind its index has the message, and as long as nobody leaves every    *)
(* socket of the audience is behind the index, has it or is dead.          *)
Carrying == {"recorded", "push", "pushed"}

Pushes == [op : {"push", "pushed"}, note : Notes, next : Nat \ {0}, list : Nat, quiet : BOOLEAN,
           audience : SUBSET Sockets]

Unsent(j) == \A i \in DOMAIN active_connections :
                j.next <= i => received[active_connections[i]][j.note] = 0

Served(j) == \A w \in j.audience : \E i \in DOMAIN active_connections :
                /\ active_connections[i] = w
                /\ i < j.next => w \in dead \/ received[w][j.note] > 0

Delivering(j) ==
    /\ j.op \in {"push", "pushed"} => j \in Pushes
    /\ j.op \in Carrying => j.note \in Notes /\ note[j.note] # "NONE"
    /\ j.op = "recorded" => \A w \in Sockets : received[w][j.note] = 0
    /\ j.op = "push" => /\ j.list <= emptied
                        /\ j.list = emptied => Unsent(j)
                        /\ j.quiet => j.list = emptied /\ Served(j)
    /\ j.op = "pushed" /\ j.quiet => \A w \in j.audience \ dead : received[w][j.note] > 0

OneCarrier ==
    \A s, t \in Sessions :
        job[s].op \in Carrying /\ job[t].op \in Carrying /\ job[s].note = job[t].note => s = t

SocketsFit ==
    /\ active_connections \in Seq(Sockets) /\ spent \subseteq Sockets /\ emptied \in Nat
    /\ \A i \in DOMAIN active_connections : active_connections[i] \in spent
    /\ \A i, k \in DOMAIN active_connections : active_connections[i] = active_connections[k] => i = k
    /\ \A w \in spent \ dead : \E i \in DOMAIN active_connections : active_connections[i] = w

MessagesFit ==
    /\ note \in [Notes -> {"NONE", "UNREAD", "READ"}]
    /\ received \in [Sockets -> [Notes -> Nat]]
    /\ \A w \in Sockets, n \in Notes :
        received[w][n] <= 1 /\ (received[w][n] > 0 => w \in spent /\ note[n] # "NONE")

RealtimeInv ==
    /\ JobsAreFunction /\ SocketsFit /\ MessagesFit /\ OneCarrier
    /\ \A s \in Sessions : Delivering(job[s])

(* A session goes on, notifications are written, sockets stand still. *)
LEMMA SessionTurns ==
    ASSUME RealtimeInv, NEW s \in Sessions, NEW j, job' = [job EXCEPT ![s] = j],
           UNCHANGED <<socketVars, received>>,
           note' \in [Notes -> {"NONE", "UNREAD", "READ"}],
           \A n \in Notes : note[n] # "NONE" => note'[n] # "NONE",
           Delivering(j)',
           j.op \in Carrying => \/ job[s].op \in Carrying /\ job[s].note = j.note
                               \/ note[j.note] = "NONE"
    PROVE  RealtimeInv'
<1> USE DEF RealtimeInv
<1>1. JobsAreFunction' /\ job'[s] = j /\ \A t \in Sessions \ {s} : job'[t] = job[t]
  BY Turns
<1>2. UNCHANGED <<active_connections, emptied, spent, dead, received>>
  BY DEF socketVars
<1>3. SocketsFit' /\ MessagesFit'
  BY <1>2 DEF SocketsFit, MessagesFit
<1>4. OneCarrier'
  BY <1>1 DEF OneCarrier, Delivering
<1>5. ASSUME NEW t \in Sessions PROVE Delivering(job[t])'
  <2>1. CASE t = s
    BY <1>1, <2>1 DEF Delivering, Unsent, Served
  <2>2. CASE t # s
    <3>1. job'[t] = job[t] /\ Delivering(job[t])
      BY <1>1, <2>2
    <3> QED
      BY <1>2, <3>1 DEF Delivering, Unsent, Served
  <2> QED
    BY <2>1, <2>2
<1> QED
  BY <1>1, <1>3, <1>4, <1>5

(* A job that carries no message. *)
LEMMA NothingToCarry ==
    ASSUME NEW j, j.op \notin Carrying
    PROVE  Delivering(j)'
BY DEF Delivering, Carrying

(* The handlers that neither push nor are about to. *)
LEMMA PlainTurns ==
    ASSUME RealtimeInv, NEW s \in Sessions, NEW j, job' = [job EXCEPT ![s] = j], j.op \notin Carrying,
           UNCHANGED <<socketVars, received>>,
           note' \in [Notes -> {"NONE", "UNREAD", "READ"}],
           \A n \in Notes : note[n] # "NONE" => note'[n] # "NONE"
    PROVE  RealtimeInv'
BY NothingToCarry, SessionTurns

LEMMA NoteRecorded ==
    ASSUME RealtimeInv, NEW s \in Sessions, NEW n \in Notes, add_order_notification(s, n)
    PROVE  RealtimeInv'
<1>1. PICK j : j = [op |-> "recorded", note |-> n]
  OBVIOUS
<1>2. /\ note[n] = "NONE" /\ job' = [job EXCEPT ![s] = j] /\ note' = [note EXCEPT ![n] = "UNREAD"]
      /\ UNCHANGED <<socketVars, received>> /\ received' = received
  BY <1>1 DEF add_order_notification, Begin
<1>3. /\ note' \in [Notes -> {"NONE", "UNREAD", "READ"}] /\ note'[n] = "UNREAD"
      /\ \A m \in Notes : note[m] # "NONE" => note'[m] # "NONE"
  BY <1>2 DEF RealtimeInv, MessagesFit
<1>4. \A w \in Sockets : received[w][n] = 0
  <2> SUFFICES ASSUME NEW w \in Sockets PROVE received[w][n] = 0
    OBVIOUS
  <2>1. received[w][n] \in Nat
    BY DEF RealtimeInv, MessagesFit
  <2> QED
    BY <1>2, <2>1 DEF RealtimeInv, MessagesFit
<1>5. Delivering(j)'
  BY <1>1, <1>2, <1>3, <1>4 DEF Delivering
<1> QED
  BY <1>1, <1>2, <1>3, <1>5, SessionTurns

LEMMA PushBegins ==
    ASSUME RealtimeInv, NEW s \in Sessions, push_new_order_to_restaurant(s)
    PROVE  RealtimeInv'
<1>1. PICK j : j = [op |-> "push", note |-> job[s].note, next |-> 1, list |-> emptied, quiet |-> TRUE,
                    audience |-> spent \ dead]
  OBVIOUS
<1>2. /\ job[s].op = "recorded" /\ job' = [job EXCEPT ![s] = j]
      /\ UNCHANGED <<socketVars, received>> /\ note' = note /\ received' = received
      /\ emptied' = emptied /\ active_connections' = active_connections
  BY <1>1 DEF push_new_order_to_restaurant, Continue, realtimeVars, socketVars
<1>3. /\ j.op = "push" /\ j.note = job[s].note /\ j.next = 1 /\ j.list = emptied
      /\ j.audience = spent \ dead /\ j.quiet = TRUE
  BY <1>1
<1>4. /\ j.note \in Notes /\ note[j.note] # "NONE" /\ \A w \in Sockets : received[w][j.note] = 0
  BY <1>2, <1>3 DEF RealtimeInv, Delivering, Carrying
<1>5. j \in Pushes
  <2>1. job[s].note \in Notes /\ emptied \in Nat /\ spent \ dead \in SUBSET Sockets
    BY <1>3, <1>4 DEF RealtimeInv, SocketsFit
  <2> QED
    BY <1>1, <2>1 DEF Pushes
<1>6. \A i \in DOMAIN active_connections : active_connections[i] \in Sockets /\ i \in Nat /\ ~(i < 1)
  BY DEF RealtimeInv, SocketsFit
<1>7. Delivering(j)'
  <2>1. emptied <= emptied
    BY DEF RealtimeInv, SocketsFit
  <2>2. Unsent(j)'
    BY <1>2, <1>4, <1>6 DEF Unsent
  <2>3. Served(j)'
    BY <1>2, <1>3, <1>6 DEF Served, RealtimeInv, SocketsFit
  <2> QED
    BY <1>2, <1>3, <1>4, <1>5, <2>1, <2>2, <2>3 DEF Delivering
<1> QED
  <2>1. note' \in [Notes -> {"NONE", "UNREAD", "READ"}]
    BY <1>2 DEF RealtimeInv, MessagesFit
  <2> QED
    BY <1>2, <1>3, <1>7, <2>1, SessionTurns DEF Carrying

LEMMA PushFinishes ==
    ASSUME RealtimeInv, NEW s \in Sessions, PushEnds(s)
    PROVE  RealtimeInv'
<1>1. PICK j : j = [job[s] EXCEPT !.op = "pushed"]
  OBVIOUS
<1>2. /\ job[s].op = "push" /\ AtEnd(job[s]) /\ job' = [job EXCEPT ![s] = j]
      /\ UNCHANGED <<socketVars, received>> /\ note' = note /\ received' = received /\ dead' = dead
  BY <1>1 DEF PushEnds, Continue, realtimeVars, socketVars
<1>3. Delivering(job[s]) /\ job[s] \in Pushes
  BY <1>2 DEF RealtimeInv, Delivering
<1>4. /\ j \in Pushes /\ j.op = "pushed" /\ j.note = job[s].note /\ j.quiet = job[s].quiet
      /\ j.audience = job[s].audience
  BY <1>1, <1>3 DEF Pushes
<1>5. j.quiet => \A w \in j.audience \ dead : received[w][j.note] > 0
  <2> SUFFICES ASSUME j.quiet, NEW w \in j.audience \ dead PROVE received[w][j.note] > 0
    OBVIOUS
  <2>1. job[s].list = emptied /\ Served(job[s])
    BY <1>2, <1>3, <1>4 DEF Delivering
  <2>2. job[s].next > Len(active_connections)
    BY <1>2, <2>1 DEF AtEnd
  <2>3. PICK i \in DOMAIN active_connections : i < job[s].next => w \in dead \/ received[w][j.note] > 0
    BY <1>4, <2>1 DEF Served
  <2>4. i \in 1..Len(active_connections) /\ job[s].next \in Nat /\ Len(active_connections) \in Nat
    BY <1>3 DEF RealtimeInv, SocketsFit, Pushes
  <2> QED
    BY <2>2, <2>3, <2>4
<1>6. Delivering(j)'
  BY <1>2, <1>3, <1>4, <1>5 DEF Delivering, Carrying
<1> QED
  <2>1. note' \in [Notes -> {"NONE", "UNREAD", "READ"}]
    BY <1>2 DEF RealtimeInv, MessagesFit
  <2> QED
    BY <1>2, <1>4, <1>6, <2>1, SessionTurns DEF Carrying

LEMMA MarkKeeps ==
    ASSUME RealtimeInv, NEW s \in Sessions,
           \/ \E op \in {"mark", "mark all"}, N \in SUBSET Notes : MarkLoad(s, op, N)
           \/ \E op \in {"mark", "mark all"} : MarkCommit(s, op)
           \/ Answered(s)
           \/ SendRaises(s)
    PROVE  RealtimeInv'
<1>1. note \in [Notes -> {"NONE", "UNREAD", "READ"}] /\ Idle.op \notin Carrying
  BY DEF RealtimeInv, MessagesFit, Idle, Carrying
<1>2. ASSUME NEW op \in {"mark", "mark all"}, NEW N \in SUBSET Notes, MarkLoad(s, op, N)
      PROVE  RealtimeInv'
  <2>1. PICK j : j = [op |-> op, notes |-> N]
    OBVIOUS
  <2>2. job' = [job EXCEPT ![s] = j] /\ note' = note /\ UNCHANGED <<socketVars, received>>
    BY <1>2, <2>1 DEF MarkLoad, Begin, realtimeVars
  <2>3. j.op \notin Carrying
    BY <2>1 DEF Carrying
  <2> QED
    BY <1>1, <2>2, <2>3, PlainTurns
<1>3. ASSUME NEW op \in {"mark", "mark all"}, MarkCommit(s, op)
      PROVE  RealtimeInv'
  <2>1. /\ job' = [job EXCEPT ![s] = Idle] /\ UNCHANGED <<socketVars, received>>
        /\ note' = [n \in Notes |-> IF n \in job[s].notes THEN "READ" ELSE note[n]]
    BY <1>3 DEF MarkCommit, End
  <2>2. /\ note' \in [Notes -> {"NONE", "UNREAD", "READ"}]
        /\ \A n \in Notes : note[n] # "NONE" => note'[n] # "NONE"
    BY <1>1, <2>1
  <2> QED
    BY <1>1, <2>1, <2>2, PlainTurns
<1>4. ASSUME Answered(s) \/ SendRaises(s)
      PROVE  RealtimeInv'
  <2>1. job' = [job EXCEPT ![s] = Idle] /\ note' = note /\ UNCHANGED <<socketVars, received>>
    BY <1>4 DEF Answered, SendRaises, End, realtimeVars
  <2> QED
    BY <1>1, <2>1, PlainTurns
<1> QED
  BY <1>2, <1>3, <1>4

(* One socket is sent to: it had nothing yet, and only this push carries   *)
(* the message.                                                            *)
LEMMA SendKeeps ==
    ASSUME RealtimeInv, NEW s \in Sessions, send_to(s), active_connections[job[s].next] \notin dead
    PROVE  RealtimeInv'
<1> USE DEF RealtimeInv
<1>1. PICK w : w = active_connections[job[s].next]
  OBVIOUS
<1>2. PICK n : n = job[s].note
  OBVIOUS
<1>3. PICK j : j = [job[s] EXCEPT !.next = @ + 1]
  OBVIOUS
<1>4. /\ job[s].op = "push" /\ job[s].list = emptied /\ ~(job[s].next > Len(active_connections))
      /\ job' = [job EXCEPT ![s] = j] /\ received' = [received EXCEPT ![w][n] = @ + 1]
      /\ note' = note /\ UNCHANGED <<active_connections, emptied, spent, dead>>
  BY <1>1, <1>2, <1>3 DEF send_to, AtEnd, Continue, socketVars
<1>5. JobsAreFunction' /\ job'[s] = j /\ \A t \in Sessions \ {s} : job'[t] = job[t]
  BY <1>4, Turns
<1>6. Delivering(job[s]) /\ job[s] \in Pushes
  BY <1>4 DEF Delivering
<1>7. /\ j \in Pushes /\ j.op = "push" /\ j.note = n /\ j.next = job[s].next + 1 /\ j.list = emptied
      /\ j.quiet = job[s].quiet /\ j.audience = job[s].audience /\ n \in Notes
  BY <1>2, <1>3, <1>4, <1>6 DEF Pushes
<1>8. /\ job[s].next \in Nat \ {0} /\ job[s].next \in DOMAIN active_connections
      /\ w \in spent /\ w \in Sockets /\ emptied \in Nat
  <2>1. job[s].next \in Nat \ {0} /\ Len(active_connections) \in Nat
        /\ DOMAIN active_connections = 1..Len(active_connections)
    BY <1>6 DEF Pushes, SocketsFit
  <2>2. job[s].next \in DOMAIN active_connections
    BY <1>4, <2>1
  <2> QED
    BY <1>1, <2>1, <2>2 DEF SocketsFit
<1>9. received[w][n] = 0 /\ note[n] # "NONE"
  BY <1>1, <1>2, <1>4, <1>6, <1>8 DEF Delivering, Unsent, Carrying
<1>10. /\ received' \in [Sockets -> [Notes -> Nat]] /\ received'[w][n] = 1
       /\ \A v \in Sockets, m \in Notes : v # w \/ m # n => received'[v][m] = received[v][m]
  <2>1. received \in [Sockets -> [Notes -> Nat]]
    BY DEF MessagesFit
  <2> QED
    BY <1>4, <1>7, <1>8, <1>9, <2>1
<1>11. MessagesFit'
  BY <1>4, <1>8, <1>9, <1>10 DEF MessagesFit
<1>12. SocketsFit'
  BY <1>4 DEF SocketsFit
<1>13. OneCarrier'
  BY <1>2, <1>4, <1>5, <1>7 DEF OneCarrier, Carrying
<1>14. ASSUME NEW t \in Sessions \ {s} PROVE Delivering(job[t])'
  <2>1. job'[t] = job[t] /\ Delivering(job[t])
    BY <1>5
  <2>2. job[t].op \in Carrying => job[t].note # n /\ job[t].note \in Notes
    BY <1>2, <1>4, <2>1 DEF OneCarrier, Carrying, Delivering
  <2>3. \A i \in DOMAIN active_connections : active_connections[i] \in Sockets
    BY DEF SocketsFit
  <2>4. job[t].op \in Carrying => \A v \in Sockets : received'[v][job[t].note] = received[v][job[t].note]
    BY <1>10, <2>2
  <2>5. job[t].op \in {"push", "pushed"} => job[t].audience \subseteq Sockets
    BY <2>1 DEF Delivering, Pushes
  <2> QED
    BY <1>4, <2>1, <2>3, <2>4, <2>5 DEF Delivering, Unsent, Served, Carrying
<1>15. Delivering(j)'
  <2>1. Unsent(j)'
    <3> SUFFICES ASSUME NEW i \in DOMAIN active_connections, job[s].next + 1 <= i
                 PROVE  received'[active_connections[i]][n] = 0
      BY <1>4, <1>7 DEF Unsent
    <3>1. i \in Nat
      BY DEF SocketsFit
    <3>2. active_connections[i] # w /\ active_connections[i] \in Sockets /\ job[s].next <= i
      BY <1>1, <1>8, <3>1 DEF SocketsFit
    <3>3. received[active_connections[i]][n] = 0
      BY <1>2, <1>4, <1>6, <3>2 DEF Delivering, Unsent
    <3> QED
      BY <1>7, <1>10, <3>2, <3>3
  <2>2. j.quiet => Served(j)'
    <3> SUFFICES ASSUME j.quiet, NEW v \in j.audience
                 PROVE  \E i \in DOMAIN active_connections :
                            active_connections[i] = v /\ (i < job[s].next + 1 => v \in dead \/ received'[v][n] > 0)
      BY <1>4, <1>7 DEF Served
    <3>1. PICK i \in DOMAIN active_connections :
                active_connections[i] = v /\ (i < job[s].next => v \in dead \/ received[v][n] > 0)
      BY <1>2, <1>4, <1>6, <1>7 DEF Delivering, Served
    <3>2. i \in Nat /\ v \in Sockets
      BY <1>7 DEF SocketsFit, Pushes
    <3>3. CASE i = job[s].next
      BY <1>1, <1>10, <3>1, <3>3
    <3>4. CASE i # job[s].next
      <4>1. i < job[s].next + 1 => (v \in dead \/ received[v][n] > 0) /\ v # w
        BY <1>1, <1>8, <3>1, <3>2, <3>4 DEF SocketsFit
      <4> QED
        BY <1>7, <1>10, <3>1, <3>2, <4>1
    <3> QED
      BY <3>3, <3>4
  <2> QED
    BY <1>4, <1>7, <1>8, <1>9, <2>1, <2>2 DEF Delivering
<1> QED
  BY <1>5, <1>11, <1>12, <1>13, <1>14, <1>15

(* A send that is lost: the socket it was meant for is dead. *)
LEMMA LossKeeps ==
    ASSUME RealtimeInv, NEW s \in Sessions, send_to(s), active_connections[job[s].next] \in dead
    PROVE  RealtimeInv'
<1>1. PICK j : j = [job[s] EXCEPT !.next = @ + 1]
  OBVIOUS
<1>2. /\ job[s].op = "push" /\ job' = [job EXCEPT ![s] = j]
      /\ UNCHANGED <<socketVars, received>> /\ note' = note /\ received' = received
      /\ UNCHANGED <<active_connections, emptied, dead>>
  BY <1>1 DEF send_to, Continue, socketVars
<1>3. Delivering(job[s]) /\ job[s] \in Pushes
  BY <1>2 DEF RealtimeInv, Delivering
<1>4. /\ j \in Pushes /\ j.op = "push" /\ j.note = job[s].note /\ j.next = job[s].next + 1
      /\ j.list = job[s].list /\ j.quiet = job[s].quiet /\ j.audience = job[s].audience
      /\ job[s].next \in Nat
  BY <1>1, <1>2, <1>3 DEF Pushes
<1>5. \A i \in DOMAIN active_connections : i \in Nat
  BY DEF RealtimeInv, SocketsFit
<1>6. Unsent(job[s]) => Unsent(j)'
  BY <1>2, <1>4, <1>5 DEF Unsent
<1>7. Served(job[s]) => Served(j)'
  <2> SUFFICES ASSUME Served(job[s]), NEW v \in job[s].audience
               PROVE  \E i \in DOMAIN active_connections : active_connections[i] = v /\
                          (i < job[s].next + 1 => v \in dead \/ received[v][job[s].note] > 0)
    BY <1>2, <1>4 DEF Served
  <2>1. PICK i \in DOMAIN active_connections : active_connections[i] = v /\
             (i < job[s].next => v \in dead \/ received[v][job[s].note] > 0)
    BY DEF Served
  <2>2. i = job[s].next => v \in dead
    BY <2>1
  <2> QED
    BY <1>4, <1>5, <2>1, <2>2
<1>8. Delivering(j)'
  <2>1. j.list <= emptied /\ (j.list = emptied => Unsent(job[s])) /\ (j.quiet => j.list = emptied /\ Served(job[s]))
    BY <1>2, <1>3, <1>4 DEF Delivering
  <2>2. j.note \in Notes /\ note[j.note] # "NONE"
    BY <1>2, <1>3, <1>4 DEF Delivering, Carrying
  <2>3. Unsent(job[s]) => Unsent(j)'
    BY <1>6
  <2>4. Served(job[s]) => Served(j)'
    BY <1>7
  <2>5. emptied' = emptied /\ note' = note
    BY <1>2
  <2> HIDE DEF Unsent, Served
  <2> QED
    BY <1>4, <2>1, <2>2, <2>3, <2>4, <2>5 DEF Delivering
<1> QED
  <2>1. note' \in [Notes -> {"NONE", "UNREAD", "READ"}]
    BY <1>2 DEF RealtimeInv, MessagesFit
  <2> QED
    BY <1>2, <1>4, <1>8, <2>1, SessionTurns DEF Carrying

(* A new socket joins behind every index. *)
LEMMA ConnectKeeps ==
    ASSUME RealtimeInv, NEW w \in Sockets, connect(w)
    PROVE  RealtimeInv'
<1> USE DEF RealtimeInv
<1> DEFINE L == Len(active_connections)
<1>1. /\ w \notin spent /\ spent' = spent \union {w}
      /\ active_connections' = Append(active_connections, w)
      /\ job' = job /\ emptied' = emptied /\ dead' = dead /\ note' = note /\ received' = received
  BY DEF connect
<1>2. /\ active_connections \in Seq(Sockets) /\ L \in Nat /\ DOMAIN active_connections = 1..L
      /\ active_connections' \in Seq(Sockets) /\ DOMAIN active_connections' = 1..(L + 1)
      /\ active_connections'[L + 1] = w
      /\ \A i \in 1..L : active_connections'[i] = active_connections[i] /\ active_connections[i] # w
  BY <1>1 DEF SocketsFit
<1>3. \A n \in Notes : received[w][n] = 0
  <2> SUFFICES ASSUME NEW n \in Notes PROVE received[w][n] = 0
    OBVIOUS
  <2>1. received[w][n] \in Nat
    BY DEF MessagesFit
  <2> QED
    BY <1>1, <2>1 DEF MessagesFit
<1>4. SocketsFit'
  <2>1. \A v \in spent' \ dead' : \E i \in DOMAIN active_connections' : active_connections'[i] = v
    <3> SUFFICES ASSUME NEW v \in spent' \ dead', v # w
                 PROVE  \E i \in DOMAIN active_connections' : active_connections'[i] = v
      BY <1>2
    <3>1. PICK i \in 1..L : active_connections[i] = v
      BY <1>1, <1>2 DEF SocketsFit
    <3>2. i \in DOMAIN active_connections' /\ active_connections'[i] = v
      BY <1>2, <3>1
    <3> QED
      BY <3>2
  <2> QED
    BY <1>1, <1>2, <2>1 DEF SocketsFit
<1>5. MessagesFit'
  BY <1>1 DEF MessagesFit
<1>6. ASSUME NEW t \in Sessions PROVE Delivering(job[t])'
  <2>1. Delivering(job[t]) /\ job'[t] = job[t]
    BY <1>1
  <2>2. job[t].op = "push" /\ Unsent(job[t]) => Unsent(job[t])'
    <3> SUFFICES ASSUME job[t].op = "push", Unsent(job[t]), NEW i \in DOMAIN active_connections', job[t].next <= i
                 PROVE  received[active_connections'[i]][job[t].note] = 0
      BY <1>1 DEF Unsent
    <3>1. job[t].note \in Notes
      BY <2>1 DEF Delivering, Carrying
    <3>2. CASE i = L + 1
      BY <1>2, <1>3, <3>1, <3>2
    <3>3. CASE i # L + 1
      <4>1. i \in 1..L
        BY <1>2, <3>3
      <4> QED
        BY <1>2, <4>1 DEF Unsent
    <3> QED
      BY <3>2, <3>3
  <2>3. Served(job[t]) => Served(job[t])'
    <3> SUFFICES ASSUME Served(job[t]), NEW v \in job[t].audience
                 PROVE  \E i \in DOMAIN active_connections' :
                          active_connections'[i] = v /\ (i < job[t].next => v \in dead \/ received[v][job[t].note] > 0)
      BY <1>1 DEF Served
    <3>1. PICK i \in 1..L : active_connections[i] = v /\ (i < job[t].next => v \in dead \/ received[v][job[t].note] > 0)
      BY <1>2 DEF Served
    <3>2. i \in DOMAIN active_connections' /\ active_connections'[i] = v
      BY <1>2, <3>1
    <3> QED
      BY <3>1, <3>2
  <2> QED
    BY <1>1, <2>1, <2>2, <2>3 DEF Delivering
<1> QED
  BY <1>1, <1>4, <1>5, <1>6 DEF OneCarrier, JobsAreFunction

(* A socket leaves: those behind it move up by one.                        *)
LEMMA Leaving ==
    ASSUME NEW c \in Seq(Sockets), NEW i \in DOMAIN c
    PROVE  /\ RemoveAt(c, i) \in Seq(Sockets)
           /\ DOMAIN RemoveAt(c, i) = 1..(Len(c) - 1) /\ DOMAIN c = 1..Len(c)
           /\ \A k \in 1..(Len(c) - 1) : RemoveAt(c, i)[k] = IF k < i THEN c[k] ELSE c[k + 1]
<1> DEFINE a == SubSeq(c, 1, i - 1)
           b == SubSeq(c, i + 1, Len(c))
<1>1. i \in 1..Len(c) /\ Len(c) \in Nat /\ DOMAIN c = 1..Len(c)
  OBVIOUS
<1>2. a \in Seq(Sockets) /\ Len(a) = i - 1 /\ \A k \in 1..(i - 1) : a[k] = c[k]
  BY <1>1
<1>3. b \in Seq(Sockets) /\ Len(b) = Len(c) - i /\ \A k \in 1..(Len(c) - i) : b[k] = c[i + k]
  BY <1>1
<1> HIDE DEF a, b
<1>4. a \o b \in Seq(Sockets) /\ Len(a \o b) = Len(c) - 1 /\ DOMAIN (a \o b) = 1..(Len(c) - 1)
  <2>1. a \o b \in Seq(Sockets) /\ Len(a \o b) = Len(a) + Len(b)
    <3>1. a \in Seq(Sockets) /\ b \in Seq(Sockets)
      BY <1>2, <1>3
    <3> QED
      BY <3>1
  <2>2. Len(a \o b) = Len(c) - 1
    BY <1>1, <1>2, <1>3, <2>1
  <2>3. DOMAIN (a \o b) = 1..Len(a \o b)
    BY <2>1
  <2> QED
    BY <2>1, <2>2, <2>3
<1>5. ASSUME NEW k \in 1..(Len(c) - 1) PROVE (a \o b)[k] = IF k < i THEN c[k] ELSE c[k + 1]
  <2>1. CASE k < i
    BY <1>1, <1>2, <1>3, <2>1
  <2>2. CASE ~(k < i)
    <3>1. k - (i - 1) \in 1..(Len(c) - i) /\ i + (k - (i - 1)) = k + 1
      BY <1>1, <2>2
    <3>2. (a \o b)[k] = b[k - (i - 1)]
      BY <1>1, <1>2, <1>3, <2>2
    <3> QED
      BY <1>3, <2>2, <3>1, <3>2
  <2> QED
    BY <2>1, <2>2
<1> QED
  BY <1>1, <1>4, <1>5 DEF RemoveAt, a, b

LEMMA DisconnectKeeps ==
    ASSUME RealtimeInv, NEW w \in Sockets, disconnect(w)
    PROVE  RealtimeInv'
<1> USE DEF RealtimeInv
<1> DEFINE L == Len(active_connections)
           Noticed(j) == IF j.op = "push" THEN [j EXCEPT !.quiet = FALSE] ELSE j
<1>1. PICK i \in DOMAIN active_connections :
        active_connections[i] = w /\ active_connections' = RemoveAt(active_connections, i)
  BY DEF disconnect
<1>2. /\ w \in dead /\ job' = [t \in Sessions |-> Noticed(job[t])]
      /\ emptied' = IF active_connections = <<w>> THEN emptied + 1 ELSE emptied
      /\ spent' = spent /\ dead' = dead /\ note' = note /\ received' = received
  BY DEF disconnect
<1>3. /\ active_connections \in Seq(Sockets) /\ L \in Nat /\ emptied \in Nat /\ i \in 1..L
      /\ active_connections' \in Seq(Sockets)
      /\ DOMAIN active_connections = 1..L /\ DOMAIN active_connections' = 1..(L - 1)
      /\ \A k \in 1..(L - 1) :
            active_connections'[k] = IF k < i THEN active_connections[k] ELSE active_connections[k + 1]
  BY <1>1, Leaving DEF SocketsFit
<1>4. \A k \in 1..(L - 1) : \E m \in 1..L : k <= m /\ active_connections'[k] = active_connections[m]
  <2> SUFFICES ASSUME NEW k \in 1..(L - 1)
               PROVE  \E m \in 1..L : k <= m /\ active_connections'[k] = active_connections[m]
    OBVIOUS
  <2>1. k \in 1..L /\ k + 1 \in 1..L /\ k <= k /\ k <= k + 1
    BY <1>3
  <2> QED
    BY <1>3, <2>1
<1>5. \A m \in 1..L \ {i} : \E k \in 1..(L - 1) : active_connections'[k] = active_connections[m]
  <2> SUFFICES ASSUME NEW m \in 1..L \ {i}
               PROVE  \E k \in 1..(L - 1) : active_connections'[k] = active_connections[m]
    OBVIOUS
  <2>1. CASE m < i
    <3>1. m \in 1..(L - 1)
      BY <1>3, <2>1
    <3> QED
      BY <1>3, <2>1, <3>1
  <2>2. CASE m > i
    <3>1. m - 1 \in 1..(L - 1) /\ ~(m - 1 < i) /\ (m - 1) + 1 = m
      BY <1>3, <2>2
    <3> QED
      BY <1>3, <3>1
  <2> QED
    BY <1>3, <2>1, <2>2
<1>6. SocketsFit'
  <2>1. \A k \in DOMAIN active_connections' : active_connections'[k] \in spent'
    BY <1>2, <1>3, <1>4 DEF SocketsFit
  <2>2. \A k, m \in DOMAIN active_connections' : active_connections'[k] = active_connections'[m] => k = m
    <3> SUFFICES ASSUME NEW k \in 1..(L - 1), NEW m \in 1..(L - 1),
                        active_connections'[k] = active_connections'[m]
                 PROVE  k = m
      BY <1>3
    <3>1. /\ k \in 1..L /\ k + 1 \in 1..L /\ m \in 1..L /\ m + 1 \in 1..L
      BY <1>3
    <3> DEFINE Old(n) == IF n < i THEN n ELSE n + 1
    <3>2. /\ Old(k) \in 1..L /\ active_connections'[k] = active_connections[Old(k)]
          /\ Old(m) \in 1..L /\ active_connections'[m] = active_connections[Old(m)]
      BY <1>3, <3>1
    <3>3. Old(k) = Old(m)
      <4> HIDE DEF Old
      <4> QED
        BY <1>3, <3>2 DEF SocketsFit
    <3> QED
      BY <1>3, <3>3
  <2>3. \A v \in spent' \ dead' : \E k \in DOMAIN active_connections' : active_connections'[k] = v
    <3> SUFFICES ASSUME NEW v \in spent \ dead
                 PROVE  \E k \in 1..(L - 1) : active_connections'[k] = v
      BY <1>2, <1>3
    <3>1. PICK m \in 1..L : active_connections[m] = v
      BY <1>3 DEF SocketsFit
    <3>2. m # i
      BY <1>1, <1>2, <3>1
    <3> QED
      BY <1>5, <3>1, <3>2
  <2> QED
    BY <1>2, <1>3, <2>1, <2>2, <2>3 DEF SocketsFit
<1>7. MessagesFit'
  BY <1>2 DEF MessagesFit
<1>8. \A t \in Sessions : job[t].op # "push" => job'[t] = job[t]
  BY <1>2
<1>9. \A t \in Sessions : job[t].op = "push" =>
        /\ job'[t] \in Pushes /\ job'[t].op = "push" /\ ~job'[t].quiet
        /\ job'[t].note = job[t].note /\ job'[t].next = job[t].next /\ job'[t].list = job[t].list
  <2> SUFFICES ASSUME NEW t \in Sessions, job[t].op = "push"
               PROVE  /\ job'[t] \in Pushes /\ job'[t].op = "push" /\ ~job'[t].quiet
                      /\ job'[t].note = job[t].note /\ job'[t].next = job[t].next
                      /\ job'[t].list = job[t].list
    OBVIOUS
  <2>1. job[t] \in Pushes /\ job'[t] = [job[t] EXCEPT !.quiet = FALSE]
    BY <1>2 DEF Delivering
  <2> QED
    BY <2>1 DEF Pushes
<1>10. OneCarrier' /\ JobsAreFunction'
  <2>1. \A t \in Sessions : /\ job'[t].op \in Carrying => job[t].op \in Carrying
                            /\ job[t].op \in Carrying => job'[t].note = job[t].note
    <3> SUFFICES ASSUME NEW t \in Sessions
                 PROVE  /\ job'[t].op \in Carrying => job[t].op \in Carrying
                        /\ job[t].op \in Carrying => job'[t].note = job[t].note
      OBVIOUS
    <3>1. CASE job[t].op = "push"
      BY <1>9, <3>1 DEF Carrying
    <3>2. CASE job[t].op # "push"
      BY <1>8, <3>2
    <3> QED
      BY <3>1, <3>2
  <2>2. OneCarrier'
    <3> SUFFICES ASSUME NEW t \in Sessions, NEW u \in Sessions, job'[t].op \in Carrying,
                        job'[u].op \in Carrying, job'[t].note = job'[u].note
                 PROVE  t = u
      BY DEF OneCarrier
    <3>1. job[t].op \in Carrying /\ job'[t].note = job[t].note
      BY <2>1
    <3>2. job[u].op \in Carrying /\ job'[u].note = job[u].note
      BY <2>1
    <3> QED
      BY <3>1, <3>2 DEF OneCarrier
  <2>3. JobsAreFunction'
    BY <1>2 DEF JobsAreFunction
  <2> QED
    BY <2>2, <2>3
<1>11. ASSUME NEW t \in Sessions PROVE Delivering(job[t])'
  <2>1. Delivering(job[t])
    OBVIOUS
  <2>2. CASE job[t].op # "push"
    <3>1. job'[t] = job[t]
      BY <1>8, <2>2
    <3> QED
      BY <1>2, <2>1, <2>2, <3>1 DEF Delivering
  <2>3. CASE job[t].op = "push"
    <3>1. /\ job'[t] \in Pushes /\ job'[t].op = "push" /\ ~job'[t].quiet
          /\ job'[t].note = job[t].note /\ job'[t].next = job[t].next
          /\ job'[t].list = job[t].list
      BY <1>9, <2>3
    <3>2. job[t].list <= emptied /\ (job[t].list = emptied => Unsent(job[t])) /\ job[t].list \in Nat
          /\ job[t].next \in Nat /\ job[t].note \in Notes /\ note[job[t].note] # "NONE"
      BY <2>1, <2>3 DEF Delivering, Pushes, Carrying
    <3>3. job[t].list <= emptied' /\ (job[t].list = emptied' => emptied' = emptied)
      BY <1>2, <1>3, <3>2
    <3>4. job[t].list = emptied' => Unsent(job[t])'
      <4> SUFFICES ASSUME job[t].list = emptied', NEW k \in 1..(L - 1), job[t].next <= k
                   PROVE  received[active_connections'[k]][job[t].note] = 0
        BY <1>2, <1>3, <3>1 DEF Unsent
      <4>1. PICK m \in 1..L : k <= m /\ active_connections'[k] = active_connections[m]
        BY <1>4
      <4>2. job[t].next <= m
        BY <3>2, <4>1
      <4> QED
        BY <1>3, <3>2, <3>3, <4>1, <4>2 DEF Unsent
    <3> QED
      BY <1>2, <3>1, <3>2, <3>3, <3>4 DEF Delivering
  <2> QED
    BY <2>2, <2>3
<1> QED
  BY <1>6, <1>7, <1>10, <1>11

LEMMA InitRealtime == RealtimeInit => RealtimeInv
<1> SUFFICES ASSUME RealtimeInit PROVE RealtimeInv
  OBVIOUS
<1>1. JobsAreFunction /\ \A s \in Sessions : job[s] = Idle
  BY EveryoneIdle DEF RealtimeInit
<1>2. Idle.op \notin Carrying
  BY DEF Idle, Carrying
<1>3. OneCarrier /\ \A s \in Sessions : Delivering(job[s])
  BY <1>1, <1>2 DEF OneCarrier, Delivering, Carrying
<1>4. SocketsFit /\ MessagesFit
  BY DEF RealtimeInit, NoSockets, SocketsFit, MessagesFit
<1> QED
  BY <1>1, <1>3, <1>4 DEF RealtimeInv

LEMMA NextKeepsRealtime == RealtimeInv /\ [RealtimeStep]_<<job, realtimeVars>> => RealtimeInv'
<1> SUFFICES ASSUME RealtimeInv, [RealtimeStep]_<<job, realtimeVars>> PROVE RealtimeInv'
  OBVIOUS
<1>1. ASSUME NEW w \in Sockets, connect(w) PROVE RealtimeInv'
  BY <1>1, ConnectKeeps
<1>2. ASSUME NEW w \in Sockets, HangUp(w) PROVE RealtimeInv'
  BY <1>2 DEF HangUp, RealtimeInv, SocketsFit, MessagesFit, OneCarrier, Delivering, Unsent, Served,
     JobsAreFunction
<1>3. ASSUME NEW w \in Sockets, disconnect(w) PROVE RealtimeInv'
  BY <1>3, DisconnectKeeps
<1>4. ASSUME NEW s \in Sessions, NEW n \in Notes, add_order_notification(s, n) \/ MarkRead(s, n)
      PROVE  RealtimeInv'
  <2>1. {n} \in SUBSET Notes
    OBVIOUS
  <2> QED
    BY <1>4, <2>1, NoteRecorded, MarkKeeps DEF MarkRead
<1>5. ASSUME NEW s \in Sessions, push_new_order_to_restaurant(s) \/ send_to(s) \/ PushEnds(s)
      PROVE  RealtimeInv'
  BY <1>5, PushBegins, SendKeeps, LossKeeps, PushFinishes
<1>6. ASSUME NEW s \in Sessions,
             \/ SendRaises(s) \/ Answered(s) \/ mark_notification_as_read(s)
             \/ MarkAllRead(s) \/ mark_all_notification_as_read(s)
      PROVE  RealtimeInv'
  <2>1. {n \in Notes : note[n] = "UNREAD"} \in SUBSET Notes
    OBVIOUS
  <2> QED
    BY <1>6, <2>1, MarkKeeps DEF mark_notification_as_read, MarkAllRead, mark_all_notification_as_read
<1>7. CASE UNCHANGED <<job, realtimeVars>>
  BY <1>7 DEF realtimeVars, socketVars, RealtimeInv, SocketsFit, MessagesFit, OneCarrier, Delivering,
     Unsent, Served, JobsAreFunction
<1> QED
  BY <1>1, <1>2, <1>3, <1>4, <1>5, <1>6, <1>7 DEF RealtimeStep

LEMMA ListenersReached == RealtimeInv => PushReachesListeners
BY DEF RealtimeInv, MessagesFit, Delivering, PushReachesListeners

(* For any sockets, sessions and notifications, with sockets coming and    *)
(* going at every await: a push that was quiet has reached every socket    *)
(* connected since it began, and no socket gets a message twice            *)
(* (ConnectionManager.send_to and disconnect).                             *)
THEOREM PushReaches == RealtimeSpec => []PushReachesListeners
BY InitRealtime, NextKeepsRealtime, ListenersReached, PTL DEF RealtimeSpec

(* Every socket is accepted once, so the list is never longer, nor emptied *)
(* more often, than there are sockets.                                     *)
SocketsSpent ==
    /\ IsFiniteSet(spent) /\ dead \subseteq spent
    /\ emptied + Len(active_connections) <= Cardinality(spent)

LEMMA TypesOfRealtime == RealtimeInv /\ SocketsSpent => RealtimeTypeOK
<1> SUFFICES ASSUME RealtimeInv, SocketsSpent PROVE RealtimeTypeOK
  OBVIOUS
<1>1. /\ active_connections \in Seq(Sockets) /\ emptied \in Nat /\ spent \subseteq Sockets
      /\ \A i \in DOMAIN active_connections : active_connections[i] \in spent
  BY DEF RealtimeInv, SocketsFit
<1>2. Cardinality(spent) \in Nat /\ Cardinality(spent) <= Cardinality(Sockets) /\ Cardinality(Sockets) \in Nat
  BY <1>1, RealtimeAssumption, FS_Subset, FS_CardinalityType DEF SocketsSpent
<1>3. Len(active_connections) \in 0..Cardinality(Sockets) /\ emptied \in 0..Cardinality(Sockets)
  <2>1. Len(active_connections) \in Nat
    BY <1>1
  <2> QED
    BY <1>1, <1>2, <2>1 DEF SocketsSpent
<1>4. active_connections \in [1..Len(active_connections) -> spent]
  <2>1. active_connections = [i \in 1..Len(active_connections) |-> active_connections[i]]
        /\ DOMAIN active_connections = 1..Len(active_connections)
    BY <1>1
  <2> QED
    BY <1>1, <2>1
<1>5. active_connections \in BoundedSeq(spent, Cardinality(Sockets))
  BY <1>3, <1>4 DEF BoundedSeq, SeqOf
<1> QED
  BY <1>1, <1>3, <1>5 DEF RealtimeTypeOK, RealtimeInv, MessagesFit, SocketsSpent

LEMMA NextKeepsSpent ==
    RealtimeInv /\ SocketsSpent /\ [RealtimeStep]_<<job, realtimeVars>> => SocketsSpent'
<1> SUFFICES ASSUME RealtimeInv, SocketsSpent, [RealtimeStep]_<<job, realtimeVars>> PROVE SocketsSpent'
  OBVIOUS
<1> DEFINE L == Len(active_connections)
<1>1. active_connections \in Seq(Sockets) /\ L \in Nat /\ emptied \in Nat /\ Cardinality(spent) \in Nat
  BY FS_CardinalityType DEF RealtimeInv, SocketsFit, SocketsSpent
<1>2. ASSUME NEW w \in Sockets, connect(w) PROVE SocketsSpent'
  <2>1. Len(active_connections') = L + 1 /\ emptied' = emptied /\ dead' = dead
        /\ spent' = spent \union {w} /\ w \notin spent
    BY <1>1, <1>2 DEF connect
  <2>2. IsFiniteSet(spent \union {w}) /\ Cardinality(spent \union {w}) = Cardinality(spent) + 1
    BY <2>1, FS_AddElement DEF SocketsSpent
  <2> QED
    BY <1>1, <2>1, <2>2 DEF SocketsSpent
<1>3. ASSUME NEW w \in Sockets, HangUp(w) PROVE SocketsSpent'
  BY <1>3 DEF HangUp, SocketsSpent
<1>4. ASSUME NEW w \in Sockets, disconnect(w) PROVE SocketsSpent'
  <2>1. PICK i \in DOMAIN active_connections :
            active_connections[i] = w /\ active_connections' = RemoveAt(active_connections, i)
    BY <1>4 DEF disconnect
  <2>2. Len(active_connections') = L - 1
    <3>1. i \in 1..L
      BY <1>1
    <3>2. RemoveAt(active_connections, i) \in Seq(Sockets) /\ DOMAIN RemoveAt(active_connections, i) = 1..(L - 1)
      BY <1>1, Leaving
    <3> QED
      BY <1>1, <2>1, <3>1, <3>2
  <2>3. emptied' <= emptied + 1 /\ emptied' \in Nat /\ dead' = dead /\ spent' = spent
    BY <1>1, <1>4 DEF disconnect
  <2> QED
    BY <1>1, <2>2, <2>3 DEF SocketsSpent
<1>5. CASE UNCHANGED socketVars
  BY <1>5 DEF socketVars, SocketsSpent
<1>6. ASSUME NEW s \in Sessions,
             \/ \E n \in Notes : add_order_notification(s, n) \/ MarkRead(s, n)
             \/ push_new_order_to_restaurant(s) \/ send_to(s) \/ SendRaises(s) \/ PushEnds(s) \/ Answered(s)
             \/ mark_notification_as_read(s) \/ MarkAllRead(s) \/ mark_all_notification_as_read(s)
      PROVE  UNCHANGED socketVars
  BY <1>6 DEF add_order_notification, MarkRead, MarkLoad, push_new_order_to_restaurant, send_to,
     SendRaises, PushEnds, Answered, mark_notification_as_read, MarkAllRead,
     mark_all_notification_as_read, MarkCommit, realtimeVars
<1> QED
  BY <1>2, <1>3, <1>4, <1>5, <1>6 DEF RealtimeStep, realtimeVars
=============================================================================
