------------------------- MODULE MCAbuseProtection -------------------------
(***************************************************************************)
(* The instance of AbuseProtection for TLC: requests of one network and    *)
(* two accounts around the end of a window, windows of unequal length.     *)
(***************************************************************************)
EXTENDS AbuseProtection, AbusePolicies, TLC

CONSTANTS w1, w2, w3, net, ann, ben

Workers == Permutations({w1, w2, w3})

One == [x \in Axis |-> 1]
NetworkShorter == [x \in Axis |-> IF x = "NETWORK" THEN 1 ELSE 2]

On(x, s) == [axis |-> x, subject |-> s]

MCRequest == {{On("NETWORK", net), On("ACCOUNT", a)} : a \in {ann, ben}}

=============================================================================
