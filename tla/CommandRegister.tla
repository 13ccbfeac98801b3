-------------------------- MODULE CommandRegister ---------------------------
(***************************************************************************)
(* What idempotent commands promise to the calls that give them, without   *)
(* claims, leases or lost callers: a key takes a command when nothing is   *)
(* known of it or owed under it, the command's receipt is answered once    *)
(* and kept for the retention, and is answered again only while it is.     *)
(***************************************************************************)
EXTENDS Naturals, Sequences

CONSTANTS Call, Key, Payload, Retention

VARIABLES
    now,
    performed,   \* the commands that have reached a provider
    kept,        \* the receipt kept under each key: none or one
    answers      \* what each call was answered with: nothing, or one receipt

vars == <<now, performed, kept, answers>>

Init ==
    /\ now = 0
    /\ performed = << >>
    /\ kept = [k \in Key |-> {}]
    /\ answers = [c \in Call |-> {}]

Answered(i) == \E c \in Call : \E a \in answers[c] : a.receipt = i

Give(k, p) ==
    /\ performed' = Append(performed, [key |-> k, fingerprint |-> p, at |-> now])
    /\ kept[k] = {}
    /\ \A i \in DOMAIN performed : performed[i].key = k => Answered(i)
    /\ UNCHANGED <<now, kept, answers>>

Receive(c, k, p, i) ==
    answers' = [answers EXCEPT ![c] = {[key |-> k, fingerprint |-> p, receipt |-> i]}]

Report(c, i) ==
    LET k == performed[i].key
        p == performed[i].fingerprint
    IN  /\ answers[c] = {}
        /\ Receive(c, k, p, i)
        /\ kept[k] = {} /\ ~ Answered(i)
        /\ kept' = [kept EXCEPT ![k] =
              {[fingerprint |-> p, receipt |-> i, until |-> now + Retention]}]
        /\ UNCHANGED <<now, performed>>

Replay(c, k, r) ==
    /\ answers[c] = {} /\ now < r.until
    /\ Receive(c, k, r.fingerprint, r.receipt)
    /\ UNCHANGED <<now, performed, kept>>

Forget(k, r) ==
    /\ r.until <= now
    /\ kept' = [kept EXCEPT ![k] = {}]
    /\ UNCHANGED <<now, performed, answers>>

Tick == now' = now + 1 /\ UNCHANGED <<performed, kept, answers>>

Next ==
    \/ \E k \in Key, p \in Payload : Give(k, p)
    \/ \E i \in DOMAIN performed, c \in Call : Report(c, i)
    \/ \E k \in Key : \E r \in kept[k] : Forget(k, r) \/ \E c \in Call : Replay(c, k, r)
    \/ Tick

Spec == Init /\ [][Next]_vars

=============================================================================
