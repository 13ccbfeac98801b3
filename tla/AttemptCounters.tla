-------------------------- MODULE AttemptCounters --------------------------
(***************************************************************************)
(* What abuse protection promises, without transactions, locks or          *)
(* failures: an evaluation counts its attempt in every row of its limits   *)
(* at once, and admits it if every one of them has room.  A row that is    *)
(* over its maximum has this audited, once.  Rows that have expired may    *)
(* be forgotten.                                                           *)
(***************************************************************************)
EXTENDS AttemptWindows

VARIABLES
    now,
    count,     \* the attempts counted in each row since it was made,
    admitted,  \* those of them that were admitted,
    audits     \* and the denials audited for it

vars == <<now, count, admitted, audits>>

Init ==
    /\ now = 0
    /\ count = [k \in Key |-> 0]
    /\ admitted = [k \in Key |-> 0]
    /\ audits = [k \in Key |-> 0]

RowsOf(r, t) == {KeyOf(l, t) : l \in r}

Full(k) == count[k] >= Maximum[k.axis]

\* the rows that an evaluation which began at t may remove
Expired(t) == {k \in Key : count[k] > 0 /\ Expires(k) <= t}

Counts(k, admits) ==
    /\ count'[k] = count[k] + 1
    /\ admitted'[k] = admitted[k] + admits
    /\ audits'[k] = IF Full(k) THEN 1 ELSE 0

Forgets(k) == count'[k] = 0 /\ admitted'[k] = 0 /\ audits'[k] = 0

Keeps(k) == count'[k] = count[k] /\ admitted'[k] = admitted[k] /\ audits'[k] = audits[k]

\* an evaluation that began at t, and whichever expired rows it removes
Evaluate(r, t) ==
    LET rows == RowsOf(r, t)
        admits == IF \E k \in rows : Full(k) THEN 0 ELSE 1
    IN  /\ \A k \in rows : Counts(k, admits)
        /\ \A k \in Key \ rows : Keeps(k) \/ (k \in Expired(t) /\ Forgets(k))
        /\ {count', admitted', audits'} \subseteq [Key -> Nat]
        /\ UNCHANGED now

Tick == now' = now + 1 /\ UNCHANGED <<count, admitted, audits>>

Next ==
    \/ \E r \in Request, t \in 0 .. now : Evaluate(r, t)
    \/ Tick

Spec == Init /\ [][Next]_vars

=============================================================================
