---------------------------- MODULE MCOAuthLogin ----------------------------
(***************************************************************************)
(* The instance of OAuthLogin for TLC: two logins by two people in two     *)
(* browsers, with callbacks on two instances.                              *)
(***************************************************************************)
EXTENDS OAuthLogin, TLC

CONSTANTS w1, w2, b1, b2, a1, a2, ann, ben

\* attempts, browsers and workers are alike; ann's account may be suspended
Alike ==
    {p @@ q @@ r : p \in Permutations({w1, w2}),
                   q \in Permutations({b1, b2}), r \in Permutations({a1, a2})}

=============================================================================
