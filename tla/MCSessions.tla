----------------------------- MODULE MCSessions -----------------------------
(***************************************************************************)
(* Instances of Sessions for TLC.                                          *)
(***************************************************************************)
EXTENDS SessionsInvariant, TLC

CONSTANTS ann, w1, w2

\* the clock of w2's instance is one unit ahead
OneAhead == w1 :> 0 @@ w2 :> 1
Workers == Permutations({w1, w2})

InStep == w1 :> 0 @@ w2 :> 0
=============================================================================
