-------------------------- MODULE IdempotencyStore --------------------------
(***************************************************************************)
(* Idempotent execution, as idempotency.ts prescribes it and               *)
(* idempotency-support.ts keeps it: a call claims its scoped key, executes *)
(* its effect, and records the outcome.  What is executed is left to the   *)
(* modules that extend this one: the gateways and the evidence lifecycle.  *)
(*                                                                         *)
(* A call is one invocation of executeIdempotently; every await in it is a *)
(* point where other calls run.  The store is an object of its own behind  *)
(* a port that may be shared between processes, so it may fail to answer   *)
(* and a caller may die while the store lives on.                          *)
(***************************************************************************)
EXTENDS Integers

CONSTANTS Call,        \* invocations
          Key,         \* scoped keys: scope, operation and key as one value
          Payload,     \* what is fingerprinted; SHA-256 is taken to be injective
          Result,      \* what an execution may return
          Retention,   \* how long a completed result is kept
          MaxTime      \* bound: the clock stops here

ASSUME RetentionAssumption == Retention \in Nat \ {0} /\ MaxTime \in Nat

VARIABLES now,         \* nowMilliseconds()
          records,     \* InMemoryIdempotencyStore.records
          leases,      \* leaseSequence
          call         \* the calls: where they are and what they hold

storeVars == <<now, records, leases, call>>

CONSTANTS NoKey, NoPayload, NoResult

\* how a call that is not answered with a result ends; LOST is no answer of the code
Refusal == {"CONFLICT", "IN_PROGRESS", "RECOVERY_REQUIRED", "ERROR", "LOST"}

Record == [state : {"FREE", "PENDING", "COMPLETED", "RECOVERY_REQUIRED"},
           fingerprint : Payload \cup {NoPayload}, lease : Nat,
           result : Result \cup {NoResult}, expiresAt : Nat]

CallState == [at : {"idle", "claiming", "executing", "completing", "failing", "done"},
              key : Key \cup {NoKey}, fingerprint : Payload \cup {NoPayload}, lease : Nat,
              outcome : {"NONE", "OK"} \cup Refusal, result : Result \cup {NoResult}]

NoRecord == [state |-> "FREE", fingerprint |-> NoPayload, lease |-> 0,
             result |-> NoResult, expiresAt |-> 0]

StoreTypeOK ==
    /\ now \in 0 .. MaxTime
    /\ records \in [Key -> Record]
    /\ leases \in Nat
    /\ call \in [Call -> CallState]

StoreInit ==
    /\ now = 0
    /\ records = [k \in Key |-> NoRecord]
    /\ leases = 0
    /\ call = [c \in Call |->
          [at |-> "idle", key |-> NoKey, fingerprint |-> NoPayload, lease |-> 0,
           outcome |-> "NONE", result |-> NoResult]]

At(c, place) == call[c].at = place

\* executeIdempotently is entered; what its caller checked first is in the guard
Enter(c, key, fingerprint) ==
    /\ At(c, "idle")
    /\ call' = [call EXCEPT ![c] =
          [at |-> "claiming", key |-> key, fingerprint |-> fingerprint, lease |-> 0,
           outcome |-> "NONE", result |-> NoResult]]
    /\ UNCHANGED <<now, records, leases>>

\* the call ends with an outcome and a result
Answered(c, outcome, result) ==
    [call EXCEPT ![c] =
        [at |-> "done", key |-> call[c].key, fingerprint |-> call[c].fingerprint,
         lease |-> call[c].lease, outcome |-> outcome, result |-> result]]

\* what the store holds against a claim: an expired result is as good as none
ExpiredLate(r) == r.state = "COMPLETED" /\ r.expiresAt < now  \* mutant
Expired(r) == r.state = "COMPLETED" /\ r.expiresAt <= now
ClaimableWhenFailed(r) == r.state \in {"FREE", "RECOVERY_REQUIRED"} \/ Expired(r)  \* mutant
Claimable(r) == r.state = "FREE" \/ Expired(r)

Granted(c) ==
    /\ Claimable(records[call[c].key])
    /\ leases' = leases + 1
    /\ records' = [records EXCEPT ![call[c].key] =
          [state |-> "PENDING", fingerprint |-> call[c].fingerprint, lease |-> leases + 1,
           result |-> NoResult, expiresAt |-> 0]]
    /\ call' = [call EXCEPT ![c] =
          [at |-> "executing", key |-> call[c].key, fingerprint |-> call[c].fingerprint,
           lease |-> leases + 1, outcome |-> "NONE", result |-> NoResult]]

\* the outcome of a claim that is not granted, and a mutant of it
OutcomeWhateverPayload(r, fingerprint) ==
    CASE r.state = "PENDING" -> "IN_PROGRESS"
      [] r.state = "RECOVERY_REQUIRED" -> "RECOVERY_REQUIRED"
      [] OTHER -> "OK"
OutcomeOf(r, fingerprint) ==
    CASE r.fingerprint # fingerprint -> "CONFLICT"
      [] r.fingerprint = fingerprint /\ r.state = "PENDING" -> "IN_PROGRESS"
      [] r.fingerprint = fingerprint /\ r.state = "RECOVERY_REQUIRED" -> "RECOVERY_REQUIRED"
      [] OTHER -> "OK"

NotGranted(c) ==
    LET r == records[call[c].key]
        outcome == OutcomeOf(r, call[c].fingerprint)
    IN  /\ ~Claimable(r)
        /\ call' = Answered(c, outcome, IF outcome = "OK" THEN r.result ELSE NoResult)
        /\ UNCHANGED <<records, leases>>

Claim(c) ==
    /\ At(c, "claiming")
    /\ Granted(c) \/ NotGranted(c)
    /\ UNCHANGED now

\* the effect has returned a result, or has thrown
Returned(c, result) ==
    [call EXCEPT ![c] =
        [at |-> "completing", key |-> call[c].key, fingerprint |-> call[c].fingerprint,
         lease |-> call[c].lease, outcome |-> "NONE", result |-> result]]
ThrewUnrecorded(c) == Answered(c, "ERROR", NoResult)  \* mutant: the error just propagates
Threw(c) ==
    [call EXCEPT ![c] =
        [at |-> "failing", key |-> call[c].key, fingerprint |-> call[c].fingerprint,
         lease |-> call[c].lease, outcome |-> "NONE", result |-> NoResult]]

\* only the owner of the active claim may end it; any other call is rejected, and Broken
Owns(c) ==
    LET r == records[call[c].key]
    IN  r.state = "PENDING" /\ r.fingerprint = call[c].fingerprint /\ r.lease = call[c].lease

\* retention runs from the completion, not from the claim
CompletedRecord(c) ==
    [state |-> "COMPLETED", fingerprint |-> call[c].fingerprint, lease |-> 0,
     result |-> call[c].result, expiresAt |-> now + Retention]

Complete(c) ==
    /\ At(c, "completing")
    /\ Owns(c)
    /\ records' = [records EXCEPT ![call[c].key] = CompletedRecord(c)]
    /\ call' = Answered(c, "OK", call[c].result)
    /\ UNCHANGED <<now, leases>>

\* a thrown effect may have happened: the key is not released
FailedRecord(c) ==
    [state |-> "RECOVERY_REQUIRED", fingerprint |-> call[c].fingerprint, lease |-> 0,
     result |-> NoResult, expiresAt |-> 0]

RequireRecovery(c) ==
    /\ At(c, "failing")
    /\ Owns(c)
    /\ records' = [records EXCEPT ![call[c].key] = FailedRecord(c)]
    /\ call' = Answered(c, "ERROR", NoResult)
    /\ UNCHANGED <<now, leases>>

\* the store rejects or does not answer, or the caller's process dies: the record stays
Broken(c) ==
    /\ \E place \in {"claiming", "executing", "completing", "failing"} : At(c, place)
    /\ call' = Answered(c, "LOST", NoResult)
    /\ UNCHANGED <<now, records, leases>>

Tick ==
    /\ now < MaxTime
    /\ now' = now + 1
    /\ UNCHANGED <<records, leases, call>>

\* the steps that are the same whatever is executed
StoreNext ==
    \/ Tick
    \/ \E c \in Call : Claim(c)
    \/ \E c \in Call : Complete(c)
    \/ \E c \in Call : RequireRecovery(c)
    \/ \E c \in Call : Broken(c)

\* a call that goes on once the store answers
Served(c) == Claim(c) \/ Complete(c) \/ RequireRecovery(c)
=============================================================================
