-------------------------- MODULE MCOrderSubmission --------------------------
(***************************************************************************)
(* Instances of OrderSubmission for TLC.                                   *)
(***************************************************************************)
EXTENDS OrderSubmissionInvariant, TLC

CONSTANTS ann, ben, sam, k1, t1, t2, t3, shop, carry, w1, w2, w3

Workers == Permutations({w1, w2})

One == [mode |-> shop, units |-> 1]
Two == [mode |-> shop, units |-> 2]
Carried == [mode |-> carry, units |-> 1]
MCTerms == {One, Two, Carried}

From(customer, key, t, terms) ==
    [customer |-> customer, key |-> key, trip |-> t, terms |-> terms]

Published(opens, closes) ==
    [seller |-> sam, status |-> "PUBLISHED", modes |-> {shop},
     opens |-> opens, closes |-> closes]

\* two buyers after the last two units; ann reuses her key for other terms
ContentionRequest ==
    {From(ann, k1, t1, One), From(ann, k1, t1, Two), From(ben, k1, t1, One)}
ContentionOffer == t1 :> Published(0, 1)
TwoUnits == t1 :> 2

\* one buyer, one key, while the completed submission expires
RetentionRequest == {From(ann, k1, t1, One), From(ann, k1, t2, One)}
RetentionOffer == t1 :> Published(0, 3) @@ t2 :> Published(1, 3)
TwoUnitsEach == t1 :> 2 @@ t2 :> 2

\* t1 can be ordered in [1, 3) and has one unit; t2 is not published, t3 does not exist;
\* sam sells all of them
EligibilityRequest ==
    {From(ann, k1, t, One) : t \in {t1, t2, t3}}
        \cup {From(ann, k1, t1, Carried), From(ann, k1, t1, Two), From(sam, k1, t1, One)}
EligibilityOffer ==
    t1 :> Published(1, 3)
      @@ t2 :> [Published(1, 3) EXCEPT !.status = "PENDING_MODERATION"]
      @@ t3 :> [Published(1, 3) EXCEPT !.status = "ABSENT"]
OneUnitEach == [t \in Trip |-> 1]

\* two buyers after one unit
RaceRequest == {From(ann, k1, t1, One), From(ben, k1, t1, One)}
RaceOffer == t1 :> Published(0, 1)
OneUnit == t1 :> 1
=============================================================================
