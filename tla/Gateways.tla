------------------------------ MODULE Gateways ------------------------------
(***************************************************************************)
(* The payment and logistics gateways: every command that reaches a        *)
(* provider goes through the idempotency store, under a key scoped to its  *)
(* order and operation, with a fingerprint of everything else it says.     *)
(*                                                                         *)
(* The mocks in the repository never throw once they are configured; a     *)
(* provider behind the same port may, before or after it did what it was   *)
(* asked, and idempotency-contract.test.ts runs such executions.  They are *)
(* the operations in Uncertain.                                            *)
(***************************************************************************)
EXTENDS IdempotencyStore, Sequences

CONSTANTS Configured,   \* operations the mock has a receipt for
          Uncertain,    \* operations whose execution may throw
          MaxPerformed  \* bound: as many commands as there are calls is enough

ASSUME ResultAssumption ==
    MaxPerformed \in Nat /\ Result = 1 .. MaxPerformed /\ NoResult = 0

VARIABLE performed      \* initiations, releaseRequests, refundRequests and dispatches

vars == <<now, records, leases, call, performed>>

Init == StoreInit /\ performed = << >>

\* the receipt's configuration is checked before the key is claimed
Request(c, key, payload) ==
    /\ IF key.operation \in Configured
       THEN Enter(c, key, payload)
       ELSE /\ At(c, "idle")
            /\ call' = Answered(c, "ERROR", NoResult)
            /\ UNCHANGED <<now, records, leases>>
    /\ UNCHANGED performed

\* a command is told by its scoped key and its payload; at is the time it was given
Command(c) == [key |-> call[c].key, fingerprint |-> call[c].fingerprint, at |-> now]

\* the command reaches the provider; its receipt is known by its place in performed
Perform(c) ==
    /\ At(c, "executing")
    /\ Len(performed) < MaxPerformed
    /\ performed' = Append(performed, Command(c))
    /\ call' = Returned(c, Len(performed) + 1)
    /\ UNCHANGED <<now, records, leases>>

\* the execution throws, whether or not the command reached the provider
Throw(c) ==
    /\ At(c, "executing")
    /\ call[c].key.operation \in Uncertain
    /\ performed' \in {performed, Append(performed, Command(c))}
    /\ call' = Threw(c)
    /\ UNCHANGED <<now, records, leases>>

Next ==
    \/ \E c \in Call, key \in Key, payload \in Payload : Request(c, key, payload)
    \/ \E c \in Call : Perform(c)
    \/ \E c \in Call : Throw(c)
    \/ StoreNext /\ UNCHANGED performed

\* nothing in a call waits for anything but the store and the provider: while there are
\* calls under way, one of them goes on
Goes(c) == Perform(c) \/ (Served(c) /\ UNCHANGED performed)

Spec == Init /\ [][Next]_vars
FairSpec == Spec /\ WF_vars(\E c \in Call : Goes(c))
-----------------------------------------------------------------------------
\* The store's variables and the list of commands keep their types.
TypeOK ==
    /\ StoreTypeOK
    /\ performed \in Seq([key : Key, fingerprint : Payload, at : 0 .. MaxTime])

\* call c reports the receipt of the i-th command
Reports(c, i) == call[c].outcome = "OK" /\ call[c].result = i

\* A command reaches the provider a second time under one key only if the first time was
\* recorded as completed, and its retention is over: an outcome that is unknown, because
\* the provider, the caller or the store failed, is never retried blindly.
NeverBlindlyRepeated ==
    \A i, j \in DOMAIN performed :
        i < j /\ performed[i].key = performed[j].key =>
            /\ performed[i].at + Retention <= performed[j].at
            /\ \E c \in Call : Reports(c, i)

\* A call that is answered, first or by replay, is answered with the receipt of a command
\* with its own key and payload: never of another order's or of a changed command.
AnswersTruthful ==
    \A c \in Call : call[c].outcome = "OK" =>
        \E i \in DOMAIN performed :
            /\ Reports(c, i)
            /\ performed[i].key = call[c].key
            /\ performed[i].fingerprint = call[c].fingerprint

\* A claim does not block its key forever, unless its caller or the store was lost: the
\* calls that were refused with IN_PROGRESS have something to wait for. (No other
\* operations than the configured ones reach a claim.)
ClaimsEnd ==
    \A k \in {x \in Key : x.operation \in Configured} : records[k].state = "PENDING" ~>
        \/ records[k].state # "PENDING"
        \/ \E c \in Call : call[c].outcome = "LOST" /\ call[c].lease = records[k].lease
-----------------------------------------------------------------------------
(***************************************************************************)
(* Calls that race for a key, fail, are lost or come back late are, to     *)
(* whoever gives a command, a register of receipts: a command is given     *)
(* only while nothing is kept or owed under its key, its receipt is kept   *)
(* from its first answer for the retention, and no answer repeats it after *)
(* that (executeIdempotently).                                             *)
(***************************************************************************)
KeptOf(r) ==
    IF r.state = "COMPLETED"
    THEN {[fingerprint |-> r.fingerprint, receipt |-> r.result, until |-> r.expiresAt]}
    ELSE {}
AnswerOf(m) ==
    IF m.outcome = "OK"
    THEN {[key |-> m.key, fingerprint |-> m.fingerprint, receipt |-> m.result]}
    ELSE {}

Kept == [k \in Key |-> KeptOf(records[k])]
Answers == [c \in Call |-> AnswerOf(call[c])]

Register == INSTANCE CommandRegister WITH kept <- Kept, answers <- Answers

ImplementsRegister == Register!Spec
=============================================================================
