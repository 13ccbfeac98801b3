--------------------------- MODULE AttemptWindows ---------------------------
(***************************************************************************)
(* The rows in which attempts are counted: one per axis, subject and fixed *)
(* window of time, for one abuse policy.                                   *)
(***************************************************************************)
EXTENDS Integers

CONSTANTS
    Subject,
    Maximum,    \* maximumAttempts and
    Length,     \* windowMs of the policy's axes
    Request,    \* the limits an evaluation may be asked for, a set each
    MaxTime     \* bound, for model checking

\* the axes, in the order of localeCompare
Rank == [ACCOUNT |-> 1, DEVICE |-> 2, NETWORK |-> 3, SESSION |-> 4, TARGET |-> 5]

Axis == DOMAIN Rank

Limit == [axis : Axis, subject : Subject]

ASSUME PolicyAssumption ==
    /\ Maximum \in [Axis -> Nat \ {0}] /\ Length \in [Axis -> Nat \ {0}]
    /\ Request \subseteq SUBSET Limit
    /\ \A r \in Request : \A l, m \in r : l.axis = m.axis => l = m
    /\ MaxTime \in Nat

\* the window of a limit is known by its start
KeyOf(l, t) ==
    [axis |-> l.axis, subject |-> l.subject,
     start |-> (t \div Length[l.axis]) * Length[l.axis]]

Key == {KeyOf(l, t) : l \in UNION Request, t \in 0 .. MaxTime}

Expires(k) == k.start + Length[k.axis]

=============================================================================
