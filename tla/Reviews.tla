------------------------------- MODULE Reviews -------------------------------
(***************************************************************************)
(* Reviews of one restaurant and of one rider, written for delivered       *)
(* orders, and the running average and count kept beside them.             *)
(***************************************************************************)
EXTENDS Handlers, FiniteSetsExt

CONSTANTS
    Delivered,      \* delivered orders, of one customer each
    Ratings         \* ratings given, within 1..5

ASSUME ReviewsAssumption == IsFiniteSet(Delivered) /\ Ratings \subseteq 1..5

VARIABLES
    reviews,        \* rows [order, by, about, rating]
    total,          \* total_reviews of "RESTAURANT" and of "RIDER"
    average,        \* avg_rating, in hundredths
    reviewsCached   \* restaurant:reviews:* keys: the numbers of reviews they show

reviewVars == <<reviews, total, average, reviewsCached>>

Rated == {"RESTAURANT", "RIDER"}
RevieweeTypes == Rated \union {"CUSTOMER"}

NoReviews ==
    /\ reviews = {}
    /\ total = [t \in Rated |-> 0] /\ average = [t \in Rated |-> 0]
    /\ reviewsCached = {}

About(t) == {r \in reviews : r.about = t}

ReviewsTypeOK ==
    /\ reviews \subseteq [order : Delivered, by : {"CUSTOMER", "RIDER"}, about : RevieweeTypes, rating : Ratings]
    /\ total \in [Rated -> 0..Cardinality(Delivered)]
    /\ average \in [Rated -> 0..500]
    /\ reviewsCached \subseteq 0..Cardinality(Delivered)

(* round(x / n) to the nearest hundredth, ties to the even one: Decimal.   *)
Rounded(x, n) ==
    LET q == x \div n
        r == 2 * (x % n) IN
    IF r > n \/ (r = n /\ q % 2 = 1) THEN q + 1 ELSE q

(* Mutant: the new rating is added to the average instead of the sum. *)
NewAverageUnweighted(avg, n, rating) == Rounded(avg + 100 * rating, n + 1)

NewAverage(avg, n, rating) == Rounded(avg * n + 100 * rating, n + 1)

(* POST reviews: the order and who may review whom; no earlier review of   *)
(* the same kind; the average and the count as they are now.               *)
ReviewRead(s, o, about, rating) ==
    LET by == IF about = "CUSTOMER" THEN "RIDER" ELSE "CUSTOMER" IN
    /\ ~\E r \in reviews : r.order = o /\ r.about = about
    /\ Begin(s, [op |-> "rate", row |-> [order |-> o, by |-> by, about |-> about, rating |-> rating],
                 total |-> IF about \in Rated THEN total[about] ELSE 0,
                 average |-> IF about \in Rated THEN average[about] ELSE 0])
    /\ UNCHANGED reviewVars

(* uq_review_order_reviewer_target *)
Fresh(row) == ~\E r \in reviews : r.order = row.order /\ r.about = row.about

submit_review(s) ==
    /\ job[s].op = "rate"
    /\ Fresh(job[s].row)
    /\ LET j == job[s]
           t == j.row.about
           avg == NewAverage(j.average, j.total, j.row.rating) IN
        /\ reviews' = reviews \union {j.row}
        /\ IF t \in Rated
             THEN /\ total' = [total EXCEPT ![t] = j.total + 1]
                  /\ average' = [average EXCEPT ![t] = Flushed(@, j.average, avg)]
             ELSE UNCHANGED <<total, average>>
        /\ IF t = "RESTAURANT" THEN Continue(s, [op |-> "forget"]) ELSE End(s)
    /\ UNCHANGED reviewsCached

(* The unique constraint refuses the second one: an unhandled error. *)
ReviewTwice(s) ==
    /\ job[s].op = "rate"
    /\ ~Fresh(job[s].row)
    /\ End(s)
    /\ UNCHANGED reviewVars

(* cache_delete_pattern after the commit; a Redis error is swallowed. *)
ForgetReviews(s) ==
    /\ job[s].op = "forget"
    /\ reviewsCached' \in {reviewsCached, {}}
    /\ End(s)
    /\ UNCHANGED <<reviews, total, average>>

(* GET restaurant reviews on a miss: read, and store later. *)
ReviewPageRead(s) ==
    /\ reviewsCached = {}
    /\ Begin(s, [op |-> "page", shown |-> Cardinality(About("RESTAURANT"))])
    /\ UNCHANGED reviewVars

StoreReviewPage(s) ==
    /\ job[s].op = "page"
    /\ reviewsCached' = {job[s].shown}
    /\ End(s)
    /\ UNCHANGED <<reviews, total, average>>

ReviewPageExpires ==
    /\ reviewsCached # {}
    /\ reviewsCached' = {}
    /\ UNCHANGED <<job, reviews, total, average>>

ReviewStep(s, types, ratings) ==
    \/ \E o \in Delivered, t \in types, r \in ratings : ReviewRead(s, o, t, r)
    \/ submit_review(s) \/ ReviewTwice(s) \/ ForgetReviews(s)
    \/ ReviewPageRead(s) \/ StoreReviewPage(s)

ReviewsInit == NoReviews /\ job = [s \in Sessions |-> Idle]

ReviewsNext == (\E s \in Sessions : ReviewStep(s, RevieweeTypes, Ratings)) \/ ReviewPageExpires

ReviewsSpec == ReviewsInit /\ [][ReviewsNext]_<<job, reviewVars>>

(* Overlapping reviews lose each other's update, but the rating shown is   *)
(* never made up: the count is at most the number of reviews, it is not 0  *)
(* once there is one, and the average stays within the ratings given.      *)
RatingsAreEarned ==
    \A t \in Rated :
        LET given == {r.rating : r \in About(t)} IN
        /\ total[t] <= Cardinality(About(t))
        /\ About(t) # {} => /\ total[t] > 0
                            /\ 100 * Min(given) <= average[t] /\ average[t] <= 100 * Max(given)
=============================================================================
