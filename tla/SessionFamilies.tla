--------------------------- MODULE SessionFamilies ---------------------------
(***************************************************************************)
(* What browser sessions promise, without transactions: a family of        *)
(* sessions has one head, the session whose token is accepted, as long as  *)
(* it lives; it is used and renewed only while it neither idles nor has    *)
(* reached the expiry it was opened with; and once it has ended it never   *)
(* comes back.                                                             *)
(***************************************************************************)
EXTENDS Naturals

CONSTANTS Worker, Skew, IdleTtl, AbsoluteTtl, Identity

VARIABLES now, family

vars == <<now, family>>

Init == now = 0 /\ family = [f \in {} |-> << >>]

\* what some instance's clock reads, or has read
Readings == {at + Skew[w] : at \in 0 .. now, w \in Worker}

Alive(f) == family[f].head # 0

InTime(f, at) == at < family[f].idle /\ at < family[f].endsAt

IdlesAt(at, endsAt) == IF at + IdleTtl < endsAt THEN at + IdleTtl ELSE endsAt

Open(f, at) ==
    /\ f \notin DOMAIN family
    /\ family' = [g \in DOMAIN family \cup {f} |->
          IF g = f
          THEN [endsAt |-> at + AbsoluteTtl, head |-> f,
                idle |-> IdlesAt(at, at + AbsoluteTtl)]
          ELSE family[g]]

Use(f, at) ==
    /\ Alive(f) /\ InTime(f, at)
    /\ family' = [family EXCEPT ![f].idle = IdlesAt(at, family[f].endsAt)]

Renew(f, head, at, again) ==
    /\ Alive(f) /\ InTime(f, at)
    /\ at <= again /\ again < family[f].endsAt
    /\ family[f].head < head
    /\ family' = [family EXCEPT ![f] =
          [endsAt |-> family[f].endsAt, head |-> head,
           idle |-> IdlesAt(again, family[f].endsAt)]]

End(F) ==
    family' = [f \in DOMAIN family |->
                  IF f \in F THEN [endsAt |-> family[f].endsAt, head |-> 0, idle |-> 0]
                            ELSE family[f]]

Tick == now' = now + 1 /\ UNCHANGED family

Change ==
    \/ \E f \in Identity, at \in Readings : Open(f, at)
    \/ \E f \in DOMAIN family, at \in Readings : Use(f, at)
    \/ \E f \in DOMAIN family, head \in Identity, at, again \in Readings :
          Renew(f, head, at, again)
    \/ \E F \in SUBSET DOMAIN family : End(F)

Next == Tick \/ (Change /\ UNCHANGED now)

Spec == Init /\ [][Next]_vars
=============================================================================
