----------------------------- MODULE Statistics -----------------------------
(***************************************************************************)
(* The statistics of locations and reviews, which no table stores: the     *)
(* annotations of locations_with_stats (src/apps/locations/selectors.py)   *)
(* and of reviews_with_votes (src/apps/reviews/selectors.py), and the      *)
(* filters by rating (src/apps/locations/filters.py).                      *)
(*                                                                         *)
(* A rating is one of five, so all that the averages read of a location's  *)
(* reviews is how many there are of each.  Fractions are kept as numerator *)
(* and denominator: doubles are modelled as the numbers they stand for.    *)
(***************************************************************************)
EXTENDS Integers, FiniteSets

CONSTANTS
    Unit,           \* the settings are multiples of 1/Unit:
    PriorSum,       \* POPULARITY_PRIOR_WEIGHT * POPULARITY_PRIOR_MEAN,
    PriorWeight,    \* POPULARITY_PRIOR_WEIGHT,
    WeightRating,   \* and the three weights of the popularity
    WeightReviews,
    WeightViews,
    Log             \* the logarithm, in units as small as one likes

RATING_MIN == 1
RATING_MAX == 5
Stars == RATING_MIN .. RATING_MAX
Ratings == [Stars -> Nat]

-----------------------------------------------------------------------------
(* Counting rows.                                                          *)

\* COUNT("id") of a correlated subquery, 0 where it returns no row.
CountOf(rows, l) == Cardinality({r \in rows : r.location = l})

\* views_7d
Recent(views, since) == {v \in views : v.created >= since}

\* COUNT("votes", filter=Q(votes__value=...)) over the one join with the votes.
VotesFor(votes, pk, value) == Cardinality({v \in votes : v.review = pk /\ v.value = value})

-----------------------------------------------------------------------------
(* Rating and popularity.                                                  *)

ReviewsCount(h) == h[1] + h[2] + h[3] + h[4] + h[5]
RatingsSum(h) == h[1] + 2 * h[2] + 3 * h[3] + 4 * h[4] + 5 * h[5]

\* avg_rating is RatingsSum / ReviewsCount, NULL when there are no reviews.
IsRated(h) == ReviewsCount(h) # 0

\* bayes_rating: Coalesce(avg_rating, 0) * reviews_count is RatingsSum.
BayesTop(h) == PriorSum + Unit * RatingsSum(h)
BayesBottom(h) == PriorWeight + Unit * ReviewsCount(h)

\* The two terms of the popularity that count.
Activity(h, recent) == WeightReviews * Log[ReviewsCount(h) + 1] + WeightViews * Log[recent + 1]

\* popularity, for a location with these ratings and so many recent views
PopularityTop(h, recent) ==
    WeightRating * BayesTop(h) + RATING_MAX * BayesBottom(h) * Activity(h, recent)
PopularityBottom(h) == RATING_MAX * BayesBottom(h)

LessPopular(h, recent, h2, recent2) ==
    PopularityTop(h, recent) * PopularityBottom(h2) < PopularityTop(h2, recent2) * PopularityBottom(h)

\* avg_rating__gte, avg_rating__lte of p / q: NULL matches neither.
RatedAtLeast(h, p, q) == IsRated(h) /\ RatingsSum(h) * q >= p * ReviewsCount(h)
RatedAtMost(h, p, q) == IsRated(h) /\ RatingsSum(h) * q <= p * ReviewsCount(h)

-----------------------------------------------------------------------------
\* The settings: a weight of the prior that is not positive is refused.
SettingsOK ==
    /\ Unit \in Nat \ {0} /\ PriorWeight \in Nat \ {0} /\ PriorSum \in Nat
    /\ WeightRating \in Nat /\ WeightReviews \in Nat /\ WeightViews \in Nat
    /\ Log \in [Nat -> Nat] /\ \A a, b \in Nat : a < b => Log[a] < Log[b]

\* The prior mean is a rating itself.
PriorIsRating == PriorWeight * RATING_MIN <= PriorSum /\ PriorSum <= PriorWeight * RATING_MAX

\* The ratings after one more review.
Reviewed(h, s) == [h EXCEPT ![s] = @ + 1]
=============================================================================
