--------------------------- MODULE GatewaysProofs ---------------------------
(***************************************************************************)
(* For any number of calls, keys, payloads and retentions: no command is   *)
(* given to a provider again while its outcome is unknown or its result is *)
(* retained, and every answer is the receipt of what was asked.  For any   *)
(* observation of a payment: it counts as held if it reconciles.           *)
(***************************************************************************)
EXTENDS Gateways, PaymentProtection, TLAPS

Working == {"executing", "completing", "failing"}

In(c) == call[c].at \in Working

\* n is the receipt of a command under this key with this payload
Receipt(n, key, fingerprint) ==
    /\ n \in DOMAIN performed
    /\ performed[n].key = key
    /\ performed[n].fingerprint = fingerprint

\* Every command under k, but for the n-th, was reported, and its retention is
\* over by t at the latest.
SettledBut(n, k, t) ==
    \A i \in DOMAIN performed :
       i # n /\ performed[i].key = k =>
          performed[i].at + Retention <= t /\ \E c \in Call : Reports(c, i)

\* What a call has established by the place it is at.
CallOK(c) ==
    /\ At(c, "claiming") \/ In(c) => call[c].key \in Key /\ call[c].fingerprint \in Payload
    /\ In(c) => Owns(c)
    /\ At(c, "executing") => SettledBut(0, call[c].key, now)
    /\ At(c, "completing") =>
          /\ Receipt(call[c].result, call[c].key, call[c].fingerprint)
          /\ performed[call[c].result].at <= now
          /\ SettledBut(call[c].result, call[c].key, now)
    /\ call[c].outcome = "OK" =>
          At(c, "done") /\ Receipt(call[c].result, call[c].key, call[c].fingerprint)

CallsOK == \A c \in Call : CallOK(c)

\* The claim of a key is held by one call.
OwnersExclude == \A c, d \in Call : In(c) /\ In(d) /\ call[c].key = call[d].key => c = d

\* What a record that can be claimed, now or later, says of the commands.
RecordOK(k) ==
    /\ records[k].state = "FREE" => records[k].expiresAt = 0
    /\ records[k].state \in {"FREE", "COMPLETED"} => SettledBut(0, k, records[k].expiresAt)
    /\ records[k].state = "COMPLETED" => Receipt(records[k].result, k, records[k].fingerprint)

RecordsOK == \A k \in Key : RecordOK(k)

IInv == TypeOK /\ CallsOK /\ OwnersExclude /\ RecordsOK /\ NeverBlindlyRepeated

\* What no step takes back: what was done, and what was answered.
Later ==
    /\ now \in Nat /\ now' \in Nat /\ now <= now'
    /\ \A i \in DOMAIN performed : i \in DOMAIN performed' /\ performed'[i] = performed[i]
    /\ \A c \in Call : call[c].outcome = "OK" => call'[c] = call[c]

\* no command under k is given in the step
NoneOf(k) == \A i \in DOMAIN performed' : i \notin DOMAIN performed => performed'[i].key # k

-----------------------------------------------------------------------------
LEMMA SequenceType ==
    ASSUME NEW S, NEW s \in Seq(S)
    PROVE  Len(s) \in Nat /\ DOMAIN s = 1 .. Len(s) /\ \A i \in DOMAIN s : s[i] \in S
OBVIOUS

LEMMA Typed ==
    ASSUME TypeOK
    PROVE  /\ now \in Nat /\ now <= MaxTime
           /\ \A c \in Call : call[c] \in CallState
           /\ \A k \in Key : records[k] \in Record
           /\ Len(performed) \in Nat /\ DOMAIN performed = 1 .. Len(performed)
           /\ \A i \in DOMAIN performed :
                 /\ performed[i] \in [key : Key, fingerprint : Payload, at : 0 .. MaxTime]
                 /\ performed[i].at \in Nat
<1>1. now \in Nat /\ now <= MaxTime
  BY RetentionAssumption DEF TypeOK, StoreTypeOK
<1>2. /\ \A c \in Call : call[c] \in CallState
      /\ \A k \in Key : records[k] \in Record
  BY DEF TypeOK, StoreTypeOK
<1>3. performed \in Seq([key : Key, fingerprint : Payload, at : 0 .. MaxTime])
  BY DEF TypeOK
<1>4. /\ Len(performed) \in Nat /\ DOMAIN performed = 1 .. Len(performed)
      /\ \A i \in DOMAIN performed :
            performed[i] \in [key : Key, fingerprint : Payload, at : 0 .. MaxTime]
  BY <1>3, SequenceType
<1>5. \A i \in DOMAIN performed : performed[i].at \in Nat
  BY <1>4, RetentionAssumption
<1>6. QED
  BY <1>1, <1>2, <1>4, <1>5

LEMMA ReceiptStays ==
    ASSUME Later, NEW n, NEW key, NEW fingerprint, Receipt(n, key, fingerprint)
    PROVE  Receipt(n, key, fingerprint)'
BY DEF Later, Receipt

LEMMA SettledStays ==
    ASSUME TypeOK, Later, NEW n, NEW k, NEW t \in Nat, NEW u \in Nat, t <= u, NoneOf(k),
           SettledBut(n, k, t)
    PROVE  SettledBut(n, k, u)'
<1> SUFFICES ASSUME NEW i \in DOMAIN performed', i # n, performed'[i].key = k
             PROVE  performed'[i].at + Retention <= u /\ \E c \in Call : Reports(c, i)'
  BY DEF SettledBut
<1>1. i \in DOMAIN performed /\ performed'[i] = performed[i]
  BY DEF NoneOf, Later
<1>2. performed[i].at + Retention <= t /\ \E c \in Call : Reports(c, i)
  BY <1>1 DEF SettledBut
<1>3. performed[i].at \in Nat
  BY <1>1, Typed
<1>4. performed'[i].at + Retention <= u
  BY <1>1, <1>2, <1>3, RetentionAssumption
<1>5. \E c \in Call : Reports(c, i)'
  BY <1>2 DEF Reports, Later
<1>6. QED
  BY <1>4, <1>5

LEMMA CallStays ==
    ASSUME TypeOK, Later, NEW c \in Call, CallOK(c), call'[c] = call[c],
           In(c) => records'[call[c].key] = records[call[c].key] /\ NoneOf(call[c].key)
    PROVE  CallOK(c)'
<1>1. PICK d : d = call[c]
  OBVIOUS
<1>2. PICK t : t = now
  OBVIOUS
<1>3. PICK u : u = now'
  OBVIOUS
<1>4. t \in Nat /\ u \in Nat /\ t <= u
  BY <1>2, <1>3 DEF Later
<1>5. In(c)' => Owns(c)'
  BY DEF CallOK, In, Owns
<1>6. At(c, "executing") => SettledBut(0, d.key, u)'
  <2> HAVE At(c, "executing")
  <2>1. SettledBut(0, d.key, t) /\ NoneOf(d.key)
    BY <1>1, <1>2 DEF CallOK, At, In, Working
  <2>2. QED
    BY <1>4, <2>1, SettledStays
<1>7. At(c, "completing") =>
         /\ Receipt(d.result, d.key, d.fingerprint)'
         /\ performed'[d.result].at <= u
         /\ SettledBut(d.result, d.key, u)'
  <2> HAVE At(c, "completing")
  <2>1. /\ NoneOf(d.key)
        /\ Receipt(d.result, d.key, d.fingerprint)
        /\ performed[d.result].at <= t
        /\ SettledBut(d.result, d.key, t)
    BY <1>1, <1>2 DEF CallOK, At, In, Working
  <2>2. Receipt(d.result, d.key, d.fingerprint)'
    BY <2>1, ReceiptStays
  <2>3. performed'[d.result].at <= u
    <3>1. d.result \in DOMAIN performed
      BY <2>1 DEF Receipt
    <3>2. performed'[d.result] = performed[d.result] /\ performed[d.result].at \in Nat
      BY <3>1, Typed DEF Later
    <3>3. QED
      BY <1>4, <2>1, <3>2
  <2>4. SettledBut(d.result, d.key, u)'
    BY <1>4, <2>1, SettledStays
  <2>5. QED
    BY <2>2, <2>3, <2>4
<1>8. d.outcome = "OK" => d.at = "done" /\ Receipt(d.result, d.key, d.fingerprint)'
  <2> HAVE d.outcome = "OK"
  <2>1. d.at = "done" /\ Receipt(d.result, d.key, d.fingerprint)
    BY <1>1 DEF CallOK, At
  <2>2. QED
    BY <2>1, ReceiptStays
<1>9. At(c, "claiming") \/ In(c) => d.key \in Key /\ d.fingerprint \in Payload
  BY <1>1 DEF CallOK
<1>10. QED
  BY <1>1, <1>3, <1>5, <1>6, <1>7, <1>8, <1>9 DEF CallOK, At, In

LEMMA RecordStays ==
    ASSUME TypeOK, Later, NEW k \in Key, RecordOK(k), records'[k] = records[k],
           records[k].state \in {"FREE", "COMPLETED"} => NoneOf(k)
    PROVE  RecordOK(k)'
<1>1. PICK r : r = records[k]
  OBVIOUS
<1>2. r.expiresAt \in Nat
  BY <1>1, Typed DEF Record
<1>3. r.state \in {"FREE", "COMPLETED"} => SettledBut(0, k, r.expiresAt)'
  BY <1>1, <1>2, SettledStays DEF RecordOK
<1>4. r.state = "COMPLETED" => Receipt(r.result, k, r.fingerprint)'
  BY <1>1, ReceiptStays DEF RecordOK
<1>5. QED
  BY <1>1, <1>3, <1>4 DEF RecordOK

-----------------------------------------------------------------------------
\* w goes on from a place where it has no answer yet, and touches the record of
\* no key but its own; that one only if it owns it, or if it can be claimed.
Moves(w, m) ==
    /\ call' = [call EXCEPT ![w] = m]
    /\ call[w].outcome # "OK"
    /\ now' = now
    /\ performed' = performed \/ (In(w) /\ performed' = Append(performed, Command(w)))
    /\ \A k \in Key : k # call[w].key => records'[k] = records[k]
    /\ records' = records \/ In(w) \/ records[call[w].key].state # "PENDING"

LEMMA Appended ==
    ASSUME NEW S, NEW s \in Seq(S), NEW e
    PROVE  /\ DOMAIN Append(s, e) = 1 .. Len(s) + 1
           /\ \A i \in DOMAIN s : i \in DOMAIN Append(s, e) /\ Append(s, e)[i] = s[i]
           /\ \A i \in DOMAIN Append(s, e) : i \notin DOMAIN s => i = Len(s) + 1
           /\ Append(s, e)[Len(s) + 1] = e
OBVIOUS

LEMMA MovesLater ==
    ASSUME TypeOK, NEW w \in Call, NEW m, Moves(w, m)
    PROVE  /\ Later
           /\ \A k : k # call[w].key => NoneOf(k)
           /\ performed' = performed => \A k : NoneOf(k)
           /\ call'[w] = m /\ \A c \in Call \ {w} : call'[c] = call[c]
<1>1. call'[w] = m /\ \A c \in Call \ {w} : call'[c] = call[c]
  BY DEF Moves, TypeOK, StoreTypeOK
<1>2. \A c \in Call : call[c].outcome = "OK" => call'[c] = call[c]
  BY <1>1 DEF Moves
<1>3. now \in Nat /\ now' \in Nat /\ now <= now'
  BY Typed DEF Moves
<1>4. CASE performed' = performed
  BY <1>1, <1>2, <1>3, <1>4 DEF Later, NoneOf
<1>5. CASE performed' = Append(performed, Command(w))
  <2>1. performed \in Seq([key : Key, fingerprint : Payload, at : 0 .. MaxTime])
    BY DEF TypeOK
  <2>2. /\ \A i \in DOMAIN performed : i \in DOMAIN performed' /\ performed'[i] = performed[i]
        /\ \A i \in DOMAIN performed' : i \notin DOMAIN performed => performed'[i] = Command(w)
    BY <1>5, <2>1, Appended
  <2>3. \A k : k # call[w].key => NoneOf(k)
    BY <2>2 DEF NoneOf, Command
  <2>4. performed' # performed
    BY <1>5, <2>1, Appended
  <2>5. QED
    BY <1>1, <1>2, <1>3, <2>2, <2>3, <2>4 DEF Later
<1>6. QED
  BY <1>4, <1>5 DEF Moves

\* The other calls and the other records are as before.
LEMMA OthersStay ==
    ASSUME IInv, NEW w \in Call, NEW m, Moves(w, m)
    PROVE  /\ \A c \in Call \ {w} : CallOK(c)'
           /\ \A k \in Key \ {call[w].key} : RecordOK(k)'
<1>1. ASSUME NEW c \in Call \ {w} PROVE CallOK(c)'
  <2>1. CallOK(c)
    BY DEF IInv, CallsOK
  <2>2. call'[c] = call[c] /\ Later
    BY MovesLater DEF IInv
  <2>3. ASSUME In(c)
        PROVE  records'[call[c].key] = records[call[c].key] /\ NoneOf(call[c].key)
    <3>1. call[c].key \in Key /\ records[call[c].key].state = "PENDING"
      BY <2>1, <2>3 DEF CallOK, Owns
    <3>2. CASE call[c].key # call[w].key
      BY <3>1, <3>2, MovesLater DEF Moves, IInv
    <3>3. CASE call[c].key = call[w].key
      <4>1. ~ In(w)
        BY <2>3, <3>3 DEF IInv, OwnersExclude
      <4>2. performed' = performed /\ records' = records
        BY <3>1, <3>3, <4>1 DEF Moves
      <4>3. QED
        BY <4>2 DEF NoneOf
    <3>4. QED
      BY <3>2, <3>3
  <2>4. QED
    BY <2>1, <2>2, <2>3, CallStays DEF IInv
<1>2. ASSUME NEW k \in Key \ {call[w].key} PROVE RecordOK(k)'
  <2>1. Later /\ NoneOf(k) /\ records'[k] = records[k]
    BY MovesLater DEF Moves, IInv
  <2>2. QED
    BY <2>1, RecordStays DEF IInv, RecordsOK
<1>3. QED
  BY <1>1, <1>2

\* What is left to show of a step of w: that it leaves w itself and the record
\* of its key as they must be, and owns that key only if nobody else does.
LEMMA StepOK ==
    ASSUME IInv, NEW w \in Call, NEW m \in CallState, Moves(w, m), CallOK(w)',
           \A k \in Key : k = call[w].key => RecordOK(k)',
           m.at \in Working => /\ m.key = call[w].key
                               /\ In(w) \/ records[m.key].state # "PENDING"
    PROVE  CallsOK' /\ RecordsOK' /\ OwnersExclude'
<1>1. Later /\ call'[w] = m /\ \A c \in Call \ {w} : call'[c] = call[c]
  BY MovesLater DEF IInv
<1>2. CallsOK'
  <2> SUFFICES ASSUME NEW c \in Call PROVE CallOK(c)'
    BY DEF CallsOK
  <2>1. QED
    BY OthersStay
<1>3. RecordsOK'
  <2> SUFFICES ASSUME NEW k \in Key PROVE RecordOK(k)'
    BY DEF RecordsOK
  <2>1. QED
    BY OthersStay
<1>4. OwnersExclude'
  <2> SUFFICES ASSUME NEW c \in Call, NEW d \in Call, In(c)', In(d)',
                      call'[c].key = call'[d].key, c # d
               PROVE  FALSE
    BY DEF OwnersExclude
  <2>1. ASSUME NEW e \in Call \ {w}, In(e), In(w)', call'[w].key = call[e].key
        PROVE  FALSE
    <3>1. records[call[e].key].state = "PENDING"
      BY <2>1 DEF IInv, CallsOK, CallOK, Owns
    <3>2. m.at \in Working /\ m.key = call[e].key
      BY <1>1, <2>1 DEF In
    <3>3. In(w) /\ call[w].key = call[e].key
      BY <3>1, <3>2
    <3>4. QED
      BY <2>1, <3>3 DEF IInv, OwnersExclude
  <2>2. CASE c = w
    BY <1>1, <2>1, <2>2 DEF In
  <2>3. CASE d = w
    BY <1>1, <2>1, <2>3 DEF In
  <2>4. CASE c # w /\ d # w
    BY <1>1, <2>4 DEF In, IInv, OwnersExclude
  <2>5. QED
    BY <2>2, <2>3, <2>4
<1>5. QED
  BY <1>2, <1>3, <1>4

\* A step that gives no command to the provider.
LEMMA QuietOK ==
    ASSUME IInv, NEW w \in Call, NEW m \in CallState, Moves(w, m), CallOK(w)',
           performed' = performed, records' \in [Key -> Record], leases' \in Nat,
           \A k \in Key : k = call[w].key => RecordOK(k)',
           m.at \in Working => /\ m.key = call[w].key
                               /\ In(w) \/ records[m.key].state # "PENDING"
    PROVE  IInv'
<1>1. CallsOK' /\ RecordsOK' /\ OwnersExclude'
  BY StepOK
<1>2. TypeOK'
  <2>1. call' \in [Call -> CallState]
    BY DEF IInv, TypeOK, StoreTypeOK, Moves
  <2>2. QED
    BY <2>1 DEF IInv, TypeOK, StoreTypeOK, Moves
<1>3. NeverBlindlyRepeated'
  <2>1. Later
    BY MovesLater DEF IInv
  <2>2. QED
    BY <2>1 DEF IInv, NeverBlindlyRepeated, Later, Reports
<1>4. QED
  BY <1>1, <1>2, <1>3 DEF IInv
-----------------------------------------------------------------------------
LEMMA InitIInv == Init => IInv
<1> SUFFICES ASSUME Init PROVE IInv
  OBVIOUS
<1>1. TypeOK
  BY RetentionAssumption DEF Init, StoreInit, TypeOK, StoreTypeOK, CallState, Record, NoRecord
<1>2. CallsOK /\ OwnersExclude
  BY DEF Init, StoreInit, CallsOK, CallOK, OwnersExclude, At, In, Working
<1>3. RecordsOK
  BY DEF Init, StoreInit, RecordsOK, RecordOK, NoRecord, SettledBut
<1>4. NeverBlindlyRepeated
  BY DEF Init, NeverBlindlyRepeated
<1>5. QED
  BY <1>1, <1>2, <1>3, <1>4 DEF IInv

\* A call that was answered, or gave up, establishes nothing more.
LEMMA RefusedIInv ==
    ASSUME IInv, NEW w \in Call, NEW outcome \in Refusal, call[w].outcome # "OK",
           call' = Answered(w, outcome, NoResult),
           UNCHANGED <<now, records, leases, performed>>
    PROVE  IInv'
<1> DEFINE m == [at |-> "done", key |-> call[w].key, fingerprint |-> call[w].fingerprint,
                 lease |-> call[w].lease, outcome |-> outcome, result |-> NoResult]
<1>1. m \in CallState /\ outcome # "OK"
  BY Typed DEF IInv, CallState, Refusal
<1>2. Moves(w, m)
  BY DEF Moves, Answered
<1>3. call'[w] = m
  BY <1>2, MovesLater DEF IInv
<1>4. CallOK(w)'
  BY <1>1, <1>3 DEF CallOK, At, In, Working
<1>5. \A k \in Key : RecordOK(k)'
  <2> SUFFICES ASSUME NEW k \in Key PROVE RecordOK(k)'
    OBVIOUS
  <2>1. Later /\ NoneOf(k)
    BY <1>2, MovesLater DEF IInv
  <2>2. QED
    BY <2>1, RecordStays DEF IInv, RecordsOK
<1>6. m.at \notin Working
  BY DEF Working
<1>7. QED
  BY <1>1, <1>2, <1>4, <1>5, <1>6, QuietOK DEF IInv, TypeOK, StoreTypeOK

\* An answer is given where the call is done only.
LEMMA NotYetOK ==
    ASSUME IInv, NEW w \in Call, ~ At(w, "done") PROVE call[w].outcome # "OK"
BY DEF IInv, CallsOK, CallOK

LEMMA RequestIInv ==
    ASSUME IInv, NEW w \in Call, NEW key \in Key, NEW payload \in Payload,
           Request(w, key, payload)
    PROVE  IInv'
<1>1. At(w, "idle") /\ call[w].outcome # "OK"
  BY NotYetOK DEF Request, Enter, At
<1>2. CASE Enter(w, key, payload) /\ UNCHANGED performed
  <2> DEFINE m == [at |-> "claiming", key |-> key, fingerprint |-> payload, lease |-> 0,
                   outcome |-> "NONE", result |-> NoResult]
  <2>1. m \in CallState /\ m.at \notin Working
    BY DEF CallState, Working
  <2>2. Moves(w, m)
    BY <1>1, <1>2 DEF Moves, Enter
  <2>3. call'[w] = m
    BY <2>2, MovesLater DEF IInv
  <2>4. CallOK(w)'
    BY <2>3 DEF CallOK, At, In, Working
  <2>5. \A k \in Key : RecordOK(k)'
    <3> SUFFICES ASSUME NEW k \in Key PROVE RecordOK(k)'
      OBVIOUS
    <3>1. Later /\ NoneOf(k)
      BY <1>2, <2>2, MovesLater DEF IInv
    <3>2. QED
      BY <1>2, <3>1, RecordStays DEF IInv, RecordsOK, Enter
  <2>6. QED
    BY <1>2, <2>1, <2>2, <2>4, <2>5, QuietOK DEF IInv, TypeOK, StoreTypeOK, Enter
<1>3. CASE /\ call' = Answered(w, "ERROR", NoResult)
           /\ UNCHANGED <<now, records, leases, performed>>
  BY <1>1, <1>3, RefusedIInv DEF Refusal
<1>4. QED
  BY <1>2, <1>3 DEF Request

\* A claim is granted on a record whose commands are settled by now.
LEMMA GrantedIInv ==
    ASSUME IInv, NEW w \in Call, At(w, "claiming"), Granted(w), UNCHANGED <<now, performed>>
    PROVE  IInv'
<1> DEFINE m == [at |-> "executing", key |-> call[w].key, fingerprint |-> call[w].fingerprint,
                 lease |-> leases + 1, outcome |-> "NONE", result |-> NoResult]
<1>1. PICK k : k = call[w].key
  OBVIOUS
<1>2. PICK t : t = records[k].expiresAt
  OBVIOUS
<1>3. PICK u : u = now
  OBVIOUS
<1>4. k \in Key /\ call[w].fingerprint \in Payload /\ leases \in Nat
  BY <1>1 DEF IInv, CallsOK, CallOK, TypeOK, StoreTypeOK
<1>5. m \in CallState
  BY <1>1, <1>4 DEF CallState
<1>6. records[k] \in Record /\ t \in Nat /\ u \in Nat
  BY <1>2, <1>3, <1>4, Typed DEF IInv, Record
<1>7. /\ records[k].state \in {"FREE", "COMPLETED"}
      /\ t <= u
      /\ SettledBut(0, k, t)
  BY <1>1, <1>2, <1>3, <1>4, <1>6
  DEF IInv, RecordsOK, RecordOK, Granted, Claimable, Expired
<1>8. Moves(w, m)
  <2>1. call[w].outcome # "OK"
    BY NotYetOK DEF At
  <2>2. records[call[w].key].state # "PENDING"
    BY <1>1, <1>7
  <2>3. QED
    BY <2>1, <2>2 DEF Moves, Granted
<1>9. call'[w] = m /\ Later /\ NoneOf(k)
  BY <1>8, MovesLater DEF IInv
<1>10. SettledBut(0, k, u)'
  BY <1>6, <1>7, <1>9, SettledStays DEF IInv
<1>11. /\ records' \in [Key -> Record]
       /\ records'[k] = [state |-> "PENDING", fingerprint |-> call[w].fingerprint,
                         lease |-> leases + 1, result |-> NoResult, expiresAt |-> 0]
  BY <1>1, <1>4 DEF Granted, IInv, TypeOK, StoreTypeOK, Record
<1>12. CallOK(w)'
  <2>1. Owns(w)'
    BY <1>1, <1>9, <1>11 DEF Owns
  <2>2. now' = u /\ call'[w].key = k
    BY <1>1, <1>3, <1>9
  <2>3. QED
    BY <1>1, <1>4, <1>9, <1>10, <2>1, <2>2 DEF CallOK, At, In, Working
<1>13. RecordOK(k)'
  BY <1>11 DEF RecordOK
<1>14. QED
  BY <1>1, <1>4, <1>5, <1>7, <1>8, <1>11, <1>12, <1>13, QuietOK DEF Granted

LEMMA NotGrantedIInv ==
    ASSUME IInv, NEW w \in Call, At(w, "claiming"), NotGranted(w),
           UNCHANGED <<now, performed>>
    PROVE  IInv'
<1>1. PICK d : d = call[w]
  OBVIOUS
<1>2. PICK r : r = records[d.key]
  OBVIOUS
<1>3. PICK outcome : outcome = OutcomeOf(r, d.fingerprint)
  OBVIOUS
<1>4. d.key \in Key /\ d.fingerprint \in Payload /\ d.outcome # "OK"
  BY <1>1, NotYetOK DEF IInv, CallsOK, CallOK, At
<1>5. r \in Record /\ r.state # "FREE"
  BY <1>1, <1>2, <1>4, Typed DEF IInv, NotGranted, Claimable
<1>6. /\ call' = Answered(w, outcome, IF outcome = "OK" THEN r.result ELSE NoResult)
      /\ UNCHANGED <<records, leases>>
  BY <1>1, <1>2, <1>3 DEF NotGranted
<1>7. CASE outcome = "OK"
  <2> DEFINE m == [at |-> "done", key |-> d.key, fingerprint |-> d.fingerprint,
                   lease |-> d.lease, outcome |-> "OK", result |-> r.result]
  <2>1. r.state = "COMPLETED" /\ r.fingerprint = d.fingerprint
    BY <1>3, <1>5, <1>7 DEF OutcomeOf, Record
  <2>2. Receipt(r.result, d.key, d.fingerprint)
    BY <1>2, <1>4, <2>1 DEF IInv, RecordsOK, RecordOK
  <2>3. m \in CallState /\ m.at \notin Working
    BY <1>1, <1>5, Typed DEF IInv, CallState, Record, Working
  <2>4. Moves(w, m)
    BY <1>1, <1>4, <1>6, <1>7 DEF Moves, Answered
  <2>5. call'[w] = m /\ Later
    BY <2>4, MovesLater DEF IInv
  <2>6. CallOK(w)'
    <3>1. Receipt(r.result, d.key, d.fingerprint)'
      BY <2>2, <2>5, ReceiptStays
    <3>2. QED
      BY <2>5, <3>1 DEF CallOK, At, In, Working
  <2>7. \A k \in Key : RecordOK(k)'
    <3> SUFFICES ASSUME NEW k \in Key PROVE RecordOK(k)'
      OBVIOUS
    <3>1. NoneOf(k)
      BY <2>4, MovesLater DEF IInv
    <3>2. QED
      BY <1>6, <2>5, <3>1, RecordStays DEF IInv, RecordsOK
  <2>8. QED
    BY <1>6, <2>3, <2>4, <2>6, <2>7, QuietOK DEF IInv, TypeOK, StoreTypeOK
<1>8. CASE outcome # "OK"
  <2>1. outcome \in Refusal
    BY <1>3, <1>5, <1>8 DEF OutcomeOf, Refusal, Record
  <2>2. QED
    BY <1>1, <1>4, <1>6, <1>8, <2>1, RefusedIInv
<1>9. QED
  BY <1>7, <1>8

\* A command that is given while the earlier ones under its key are settled.
LEMMA CommandedOnce ==
    ASSUME IInv, NEW w \in Call, At(w, "executing"),
           performed' = Append(performed, Command(w)), Later
    PROVE  /\ performed' \in Seq([key : Key, fingerprint : Payload, at : 0 .. MaxTime])
           /\ NeverBlindlyRepeated'
           /\ DOMAIN performed' = 1 .. Len(performed) + 1
           /\ performed'[Len(performed) + 1] = Command(w)
<1> DEFINE new == Len(performed) + 1
<1>1. /\ call[w].key \in Key /\ call[w].fingerprint \in Payload
      /\ SettledBut(0, call[w].key, now)
  BY DEF IInv, CallsOK, CallOK, In, At, Working
<1>2. Command(w) \in [key : Key, fingerprint : Payload, at : 0 .. MaxTime]
  BY <1>1 DEF Command, IInv, TypeOK, StoreTypeOK
<1>3. performed \in Seq([key : Key, fingerprint : Payload, at : 0 .. MaxTime])
  BY DEF IInv, TypeOK
<1>4. performed' \in Seq([key : Key, fingerprint : Payload, at : 0 .. MaxTime])
  BY <1>2, <1>3
<1>5. /\ DOMAIN performed' = 1 .. new
      /\ performed'[new] = Command(w)
      /\ \A i \in DOMAIN performed : performed'[i] = performed[i]
  BY <1>3, Appended
<1>6. DOMAIN performed = 1 .. Len(performed) /\ Len(performed) \in Nat
  BY Typed DEF IInv
<1>7. NeverBlindlyRepeated'
  <2> SUFFICES ASSUME NEW i \in DOMAIN performed', NEW j \in DOMAIN performed', i < j,
                      performed'[i].key = performed'[j].key
               PROVE  /\ performed'[i].at + Retention <= performed'[j].at
                      /\ \E c \in Call : Reports(c, i)'
    BY DEF NeverBlindlyRepeated
  <2>1. i \in DOMAIN performed /\ performed'[i] = performed[i]
    BY <1>5, <1>6
  <2>2. ASSUME \E c \in Call : Reports(c, i) PROVE \E c \in Call : Reports(c, i)'
    BY <2>2 DEF Reports, Later
  <2>3. CASE j \in DOMAIN performed
    <3>1. performed'[j] = performed[j]
      BY <1>5, <2>3
    <3>2. QED
      BY <2>1, <2>2, <2>3, <3>1 DEF IInv, NeverBlindlyRepeated
  <2>4. CASE j = new
    <3>1. performed[i].key = call[w].key /\ performed'[j].at = now
      BY <1>5, <2>1, <2>4 DEF Command
    <3>2. i # 0
      BY <1>6, <2>1
    <3>3. performed[i].at + Retention <= now /\ \E c \in Call : Reports(c, i)
      BY <1>1, <2>1, <3>1, <3>2 DEF SettledBut
    <3>4. QED
      BY <2>1, <2>2, <3>1, <3>3
  <2>5. QED
    BY <1>5, <1>6, <2>3, <2>4
<1>8. QED
  BY <1>4, <1>5, <1>7

\* What a call holds while it is executing.
LEMMA Executing ==
    ASSUME IInv, NEW w \in Call, At(w, "executing") \/ At(w, "completing") \/ At(w, "failing")
    PROVE  /\ In(w) /\ Owns(w) /\ call[w].outcome # "OK"
           /\ call[w].key \in Key /\ call[w].fingerprint \in Payload
           /\ call[w].lease \in Nat
           /\ records[call[w].key].state = "PENDING"
<1>1. In(w) /\ call[w].outcome # "OK"
  BY NotYetOK DEF In, At, Working
<1>2. CallOK(w)
  BY DEF IInv, CallsOK
<1>3. QED
  BY <1>1, <1>2, Typed DEF CallOK, Owns, IInv, CallState

\* The record of an executing call stays PENDING, and says nothing of commands.
LEMMA PendingOK ==
    ASSUME IInv, NEW w \in Call, In(w), records' = records
    PROVE  \A k \in Key : k = call[w].key => RecordOK(k)'
BY DEF IInv, CallsOK, CallOK, Owns, RecordOK

LEMMA PerformIInv ==
    ASSUME IInv, NEW w \in Call, Perform(w)
    PROVE  IInv'
<1>1. PICK d : d = call[w]
  OBVIOUS
<1>2. PICK t : t = now
  OBVIOUS
<1>3. PICK n : n = Len(performed) + 1
  OBVIOUS
<1> DEFINE m == [at |-> "completing", key |-> d.key, fingerprint |-> d.fingerprint,
                 lease |-> d.lease, outcome |-> "NONE", result |-> n]
<1>4. In(w) /\ Owns(w) /\ d.key \in Key /\ d.fingerprint \in Payload /\ d.lease \in Nat
  BY <1>1, Executing DEF Perform
<1>5. Len(performed) \in Nat /\ DOMAIN performed = 1 .. Len(performed)
  BY Typed DEF IInv
<1>6. n \in Result
  BY <1>3, <1>5, ResultAssumption DEF Perform
<1>7. m \in CallState
  BY <1>4, <1>6 DEF CallState
<1>8. Moves(w, m)
  BY <1>1, <1>3, <1>4, Executing DEF Moves, Perform, Returned
<1>9. Later /\ call'[w] = m
  BY <1>8, MovesLater DEF IInv
<1>10. /\ performed' \in Seq([key : Key, fingerprint : Payload, at : 0 .. MaxTime])
       /\ NeverBlindlyRepeated'
       /\ DOMAIN performed' = 1 .. n
       /\ performed'[n] = [key |-> d.key, fingerprint |-> d.fingerprint, at |-> t]
  BY <1>1, <1>2, <1>3, <1>9, CommandedOnce DEF Perform, Command
<1>11. Receipt(n, d.key, d.fingerprint)'
  BY <1>3, <1>5, <1>10 DEF Receipt
<1>12. SettledBut(n, d.key, t)'
  <2> SUFFICES ASSUME NEW i \in DOMAIN performed', i # n, performed'[i].key = d.key
               PROVE  performed'[i].at + Retention <= t /\ \E c \in Call : Reports(c, i)'
    BY DEF SettledBut
  <2>1. i \in DOMAIN performed /\ i # 0 /\ performed'[i] = performed[i]
    BY <1>3, <1>5, <1>9, <1>10 DEF Later
  <2>2. SettledBut(0, d.key, t)
    BY <1>1, <1>2 DEF IInv, CallsOK, CallOK, Perform
  <2>3. performed[i].at + Retention <= t /\ \E c \in Call : Reports(c, i)
    BY <2>1, <2>2 DEF SettledBut
  <2>4. QED
    BY <1>9, <2>1, <2>3 DEF Reports, Later
<1>13. CallOK(w)'
  <2>1. Owns(w)'
    BY <1>1, <1>4, <1>9 DEF Owns, Perform
  <2>2. performed'[n].at <= now' /\ now' = t
    BY <1>2, <1>9, <1>10 DEF Later, Perform
  <2>3. QED
    BY <1>4, <1>9, <1>11, <1>12, <2>1, <2>2 DEF CallOK, At, In, Working
<1>14. CallsOK' /\ RecordsOK' /\ OwnersExclude'
  <2>1. \A k \in Key : k = call[w].key => RecordOK(k)'
    BY <1>4, PendingOK DEF Perform
  <2>2. QED
    BY <1>1, <1>4, <1>7, <1>8, <1>13, <2>1, StepOK
<1>15. TypeOK'
  <2>1. call' \in [Call -> CallState]
    BY <1>7, <1>8 DEF IInv, TypeOK, StoreTypeOK, Moves
  <2>2. QED
    BY <1>10, <2>1 DEF IInv, TypeOK, StoreTypeOK, Perform
<1>16. QED
  BY <1>10, <1>14, <1>15 DEF IInv

LEMMA ThrowIInv ==
    ASSUME IInv, NEW w \in Call, Throw(w)
    PROVE  IInv'
<1>1. PICK d : d = call[w]
  OBVIOUS
<1> DEFINE m == [at |-> "failing", key |-> d.key, fingerprint |-> d.fingerprint,
                 lease |-> d.lease, outcome |-> "NONE", result |-> NoResult]
<1>2. In(w) /\ Owns(w) /\ d.key \in Key /\ d.fingerprint \in Payload /\ d.lease \in Nat
  BY <1>1, Executing DEF Throw
<1>3. m \in CallState
  BY <1>2 DEF CallState
<1>4. Moves(w, m)
  BY <1>1, <1>2, Executing DEF Moves, Throw, Threw
<1>5. Later /\ call'[w] = m
  BY <1>4, MovesLater DEF IInv
<1>6. CallOK(w)'
  <2>1. Owns(w)'
    BY <1>1, <1>2, <1>5 DEF Owns, Throw
  <2>2. QED
    BY <1>2, <1>5, <2>1 DEF CallOK, At, In, Working
<1>7. \A k \in Key : k = call[w].key => RecordOK(k)'
  BY <1>2, PendingOK DEF Throw
<1>8. CASE performed' = performed
  BY <1>1, <1>2, <1>3, <1>4, <1>6, <1>7, <1>8, QuietOK
  DEF Throw, IInv, TypeOK, StoreTypeOK
<1>9. CASE performed' = Append(performed, Command(w))
  <2>1. /\ performed' \in Seq([key : Key, fingerprint : Payload, at : 0 .. MaxTime])
        /\ NeverBlindlyRepeated'
    BY <1>5, <1>9, CommandedOnce DEF Throw
  <2>2. CallsOK' /\ RecordsOK' /\ OwnersExclude'
    BY <1>1, <1>2, <1>3, <1>4, <1>6, <1>7, StepOK
  <2>3. call' \in [Call -> CallState]
    BY <1>3, <1>4 DEF IInv, TypeOK, StoreTypeOK, Moves
  <2>4. TypeOK'
    BY <2>1, <2>3 DEF IInv, TypeOK, StoreTypeOK, Throw
  <2>5. QED
    BY <2>1, <2>2, <2>4 DEF IInv
<1>10. QED
  BY <1>8, <1>9 DEF Throw

\* The completed record tells from when the key's commands are settled.
LEMMA CompleteIInv ==
    ASSUME IInv, NEW w \in Call, Complete(w), UNCHANGED performed
    PROVE  IInv'
<1>1. PICK d : d = call[w]
  OBVIOUS
<1>2. PICK t : t = now
  OBVIOUS
<1> DEFINE m == [at |-> "done", key |-> d.key, fingerprint |-> d.fingerprint,
                 lease |-> d.lease, outcome |-> "OK", result |-> d.result]
<1>3. In(w) /\ d.key \in Key /\ d.fingerprint \in Payload /\ d.outcome # "OK"
  BY <1>1, Executing DEF Complete
<1>4. /\ Receipt(d.result, d.key, d.fingerprint)
      /\ performed[d.result].at <= t
      /\ SettledBut(d.result, d.key, t)
  BY <1>1, <1>2 DEF IInv, CallsOK, CallOK, Complete
<1>5. m \in CallState /\ d.result \in Result \cup {NoResult} /\ t \in Nat
  BY <1>1, <1>2, Typed DEF IInv, CallState
<1>6. records' = [records EXCEPT ![d.key] =
          [state |-> "COMPLETED", fingerprint |-> d.fingerprint, lease |-> 0,
           result |-> d.result, expiresAt |-> t + Retention]]
  BY <1>1, <1>2 DEF Complete, CompletedRecord
<1>7. Moves(w, m)
  BY <1>1, <1>3, <1>6 DEF Moves, Complete, Answered
<1>8. call'[w] = m /\ Later /\ NoneOf(d.key)
  BY <1>7, MovesLater DEF IInv
<1>9. Receipt(d.result, d.key, d.fingerprint)'
  BY <1>4, <1>8, ReceiptStays
<1>10. CallOK(w)'
  BY <1>8, <1>9 DEF CallOK, At, In, Working
<1>11. SettledBut(0, d.key, t + Retention)'
  <2> SUFFICES ASSUME NEW i \in DOMAIN performed', performed'[i].key = d.key
               PROVE  /\ performed'[i].at + Retention <= t + Retention
                      /\ \E c \in Call : Reports(c, i)'
    BY DEF SettledBut
  <2>1. i \in DOMAIN performed /\ performed'[i] = performed[i] /\ performed[i].at \in Nat
    BY Typed DEF IInv
  <2>2. CASE i = d.result
    <3>1. Reports(w, i)'
      BY <1>8, <2>2 DEF Reports
    <3>2. QED
      BY <1>4, <1>5, <2>1, <2>2, <3>1, RetentionAssumption
  <2>3. CASE i # d.result
    <3>1. performed[i].at + Retention <= t /\ \E c \in Call : Reports(c, i)
      BY <1>4, <2>1, <2>3 DEF SettledBut
    <3>2. \E c \in Call : Reports(c, i)'
      BY <1>8, <3>1 DEF Reports, Later
    <3>3. QED
      BY <1>5, <2>1, <3>1, <3>2, RetentionAssumption
  <2>4. QED
    BY <2>2, <2>3
<1>12. RecordOK(d.key)'
  <2>1. records'[d.key] = [state |-> "COMPLETED", fingerprint |-> d.fingerprint, lease |-> 0,
                          result |-> d.result, expiresAt |-> t + Retention]
    BY <1>3, <1>6 DEF IInv, TypeOK, StoreTypeOK
  <2>2. QED
    BY <1>9, <1>11, <2>1 DEF RecordOK
<1>13. records' \in [Key -> Record] /\ leases' \in Nat
  <2>1. t + Retention \in Nat
    BY <1>5, RetentionAssumption
  <2>2. [state |-> "COMPLETED", fingerprint |-> d.fingerprint, lease |-> 0,
         result |-> d.result, expiresAt |-> t + Retention] \in Record
    BY <1>3, <1>5, <2>1 DEF Record
  <2>3. records' \in [Key -> Record]
    BY <1>6, <2>2 DEF IInv, TypeOK, StoreTypeOK
  <2>4. QED
    BY <2>3 DEF IInv, TypeOK, StoreTypeOK, Complete
<1>14. m.at \notin Working
  BY DEF Working
<1>15. QED
  BY <1>1, <1>5, <1>7, <1>10, <1>12, <1>13, <1>14, QuietOK

LEMMA RequireRecoveryIInv ==
    ASSUME IInv, NEW w \in Call, RequireRecovery(w), UNCHANGED performed
    PROVE  IInv'
<1>1. PICK d : d = call[w]
  OBVIOUS
<1> DEFINE m == [at |-> "done", key |-> d.key, fingerprint |-> d.fingerprint,
                 lease |-> d.lease, outcome |-> "ERROR", result |-> NoResult]
<1>2. /\ In(w) /\ d.key \in Key /\ d.fingerprint \in Payload /\ d.lease \in Nat
      /\ d.outcome # "OK"
  BY <1>1, Executing DEF RequireRecovery
<1>3. m \in CallState /\ m.at \notin Working
  BY <1>2 DEF CallState, Refusal, Working
<1>4. records' = [records EXCEPT ![d.key] =
          [state |-> "RECOVERY_REQUIRED", fingerprint |-> d.fingerprint, lease |-> 0,
           result |-> NoResult, expiresAt |-> 0]]
  BY <1>1 DEF RequireRecovery, FailedRecord
<1>5. Moves(w, m)
  BY <1>1, <1>2, <1>4 DEF Moves, RequireRecovery, Answered
<1>6. CallOK(w)'
  <2>1. call'[w] = m
    BY <1>5, MovesLater DEF IInv
  <2>2. QED
    BY <2>1 DEF CallOK, At, In, Working
<1>7. RecordOK(d.key)' /\ records' \in [Key -> Record] /\ leases' \in Nat
  <2> DEFINE r == [state |-> "RECOVERY_REQUIRED", fingerprint |-> d.fingerprint, lease |-> 0,
                   result |-> NoResult, expiresAt |-> 0]
  <2>1. r \in Record
    BY <1>2 DEF Record
  <2>2. records' = [records EXCEPT ![d.key] = r]
    BY <1>4
  <2>3. records \in [Key -> Record] /\ leases' \in Nat
    BY DEF IInv, TypeOK, StoreTypeOK, RequireRecovery
  <2>4. records' \in [Key -> Record] /\ records'[d.key] = r
    BY <1>2, <2>1, <2>2, <2>3
  <2>5. RecordOK(d.key)'
    BY <2>4 DEF RecordOK
  <2>6. QED
    BY <2>3, <2>4, <2>5
<1>8. QED
  BY <1>1, <1>3, <1>5, <1>6, <1>7, QuietOK

LEMMA BrokenIInv ==
    ASSUME IInv, NEW w \in Call, Broken(w), UNCHANGED performed
    PROVE  IInv'
<1>1. call[w].outcome # "OK"
  BY NotYetOK DEF Broken, At
<1>2. QED
  BY <1>1, RefusedIInv DEF Broken, Refusal

LEMMA TickIInv ==
    ASSUME IInv, now' \in 0 .. MaxTime, now <= now',
           UNCHANGED <<records, leases, call, performed>>
    PROVE  IInv'
<1>1. Later /\ \A k : NoneOf(k)
  <2>1. now \in Nat /\ now' \in Nat
    BY Typed, RetentionAssumption DEF IInv
  <2>2. QED
    BY <2>1 DEF Later, NoneOf
<1>2. CallsOK'
  BY <1>1, CallStays DEF IInv, CallsOK
<1>3. RecordsOK'
  BY <1>1, RecordStays DEF IInv, RecordsOK
<1>4. TypeOK'
  BY DEF IInv, TypeOK, StoreTypeOK
<1>5. OwnersExclude' /\ NeverBlindlyRepeated'
  BY DEF IInv, OwnersExclude, In, NeverBlindlyRepeated, Reports
<1>6. QED
  BY <1>2, <1>3, <1>4, <1>5 DEF IInv

LEMMA NextIInv == IInv /\ [Next]_vars => IInv'
<1> SUFFICES ASSUME IInv, [Next]_vars PROVE IInv'
  OBVIOUS
<1>1. ASSUME NEW w \in Call, Claim(w), UNCHANGED performed PROVE IInv'
  BY <1>1, GrantedIInv, NotGrantedIInv DEF Claim
<1>2. CASE Tick /\ UNCHANGED performed
  <2>1. now' \in 0 .. MaxTime /\ now <= now'
    BY <1>2, RetentionAssumption DEF Tick, IInv, TypeOK, StoreTypeOK
  <2>2. QED
    BY <1>2, <2>1, TickIInv DEF Tick
<1>3. CASE UNCHANGED vars
  <2>1. now' \in 0 .. MaxTime /\ now <= now'
    BY <1>3 DEF vars, IInv, TypeOK, StoreTypeOK
  <2>2. QED
    BY <1>3, <2>1, TickIInv DEF vars
<1>4. CASE StoreNext /\ UNCHANGED performed
  BY <1>1, <1>2, <1>4, CompleteIInv, RequireRecoveryIInv, BrokenIInv DEF StoreNext
<1>5. QED
  BY <1>3, <1>4, RequestIInv, PerformIInv, ThrowIInv DEF Next

LEMMA Invariance == Spec => []IInv
BY InitIInv, NextIInv, PTL DEF Spec

\* The store, its calls and the commands keep their types: what is answered is a
\* result or a refusal, whatever record a claim meets.
THEOREM GatewayTypes == Spec => []TypeOK
<1>1. IInv => TypeOK
  BY DEF IInv
<1>2. QED
  BY <1>1, Invariance, PTL

\* However many calls share a key, and whichever of them fail, are lost or come
\* back after the retention: nothing reaches a provider again while its outcome
\* is unknown or its result is retained.
THEOREM CommandsAreNotRepeatedBlindly == Spec => []NeverBlindlyRepeated
<1>1. IInv => NeverBlindlyRepeated
  BY DEF IInv
<1>2. QED
  BY <1>1, Invariance, PTL

\* Every answer is the receipt of a command with the call's own key and payload.
THEOREM AnswersAreReceipts == Spec => []AnswersTruthful
<1>1. IInv => AnswersTruthful
  BY DEF IInv, CallsOK, CallOK, AnswersTruthful, Receipt, Reports
<1>2. QED
  BY <1>1, Invariance, PTL

-----------------------------------------------------------------------------
\* What is about to be recorded as completed has not been answered.
Unreported ==
    \A c \in Call : At(c, "completing") => \A d \in Call : ~ Reports(d, call[c].result)

\* A call goes on to m; nobody has answered what it is about to complete, and
\* what it answers nobody else is about to complete.
LEMMA UnreportedMoves ==
    ASSUME TypeOK, Unreported, NEW w \in Call, NEW m, call' = [call EXCEPT ![w] = m],
           m.outcome = "OK" =>
              \A c \in Call \ {w} : At(c, "completing") => call[c].result # m.result,
           m.at = "completing" =>
              /\ m.outcome # "OK"
              /\ \A d \in Call : ~ Reports(d, m.result)
    PROVE  Unreported'
<1>1. call'[w] = m /\ \A c \in Call \ {w} : call'[c] = call[c]
  BY DEF TypeOK, StoreTypeOK
<1> SUFFICES ASSUME NEW c \in Call, At(c, "completing")', NEW d \in Call,
                    Reports(d, call[c].result)'
             PROVE  FALSE
  BY DEF Unreported
<1>2. CASE c = w
  BY <1>1, <1>2 DEF At, Reports
<1>3. CASE c # w /\ d = w
  BY <1>1, <1>3 DEF At, Reports
<1>4. CASE c # w /\ d # w
  BY <1>1, <1>4 DEF At, Reports, Unreported
<1>5. QED
  BY <1>2, <1>3, <1>4

LEMMA UnreportedPerform ==
    ASSUME IInv, Unreported, NEW w \in Call, Perform(w)
    PROVE  Unreported'
<1>1. PICK n : n = Len(performed) + 1
  OBVIOUS
<1>2. PICK m : m = [at |-> "completing", key |-> call[w].key,
                    fingerprint |-> call[w].fingerprint, lease |-> call[w].lease,
                    outcome |-> "NONE", result |-> n]
  OBVIOUS
<1>3. call' = [call EXCEPT ![w] = m] /\ m.outcome = "NONE" /\ m.result = n
  BY <1>1, <1>2 DEF Perform, Returned
<1>4. ASSUME NEW d \in Call, Reports(d, n) PROVE FALSE
  <2>1. n \in DOMAIN performed
    BY <1>4 DEF IInv, CallsOK, CallOK, Reports, Receipt
  <2>2. QED
    BY <1>1, <2>1, Typed DEF IInv
<1>5. QED
  BY <1>3, <1>4, UnreportedMoves DEF IInv

\* A replayed receipt is of a key that no call holds.
LEMMA UnreportedNotGranted ==
    ASSUME IInv, Unreported, NEW w \in Call, At(w, "claiming"), NotGranted(w)
    PROVE  Unreported'
<1>1. PICK k \in Key : k = call[w].key
  BY DEF IInv, CallsOK, CallOK
<1>2. PICK r \in Record : r = records[k]
  BY Typed DEF IInv
<1>3. PICK outcome : outcome = OutcomeOf(r, call[w].fingerprint)
  OBVIOUS
<1>4. PICK m : m = [at |-> "done", key |-> k, fingerprint |-> call[w].fingerprint,
                    lease |-> call[w].lease, outcome |-> outcome,
                    result |-> IF outcome = "OK" THEN r.result ELSE NoResult]
  OBVIOUS
<1>5. call' = [call EXCEPT ![w] = m] /\ m.outcome = outcome /\ m.at = "done"
  BY <1>1, <1>2, <1>3, <1>4 DEF NotGranted, Answered
<1>6. ASSUME outcome = "OK", NEW c \in Call, At(c, "completing"), call[c].result = m.result
      PROVE  FALSE
  <2>1. r.state = "COMPLETED" /\ m.result = r.result
    <3>1. r.state # "FREE"
      BY <1>1, <1>2 DEF NotGranted, Claimable
    <3>2. r.state = "COMPLETED"
      BY <1>2, <1>3, <1>6, <3>1 DEF OutcomeOf, Record
    <3>3. QED
      BY <1>4, <1>6, <3>2
  <2>2. performed[r.result].key = k
    BY <1>2, <2>1 DEF IInv, RecordsOK, RecordOK, Receipt
  <2>3. performed[r.result].key = call[c].key
    BY <1>6, <2>1 DEF IInv, CallsOK, CallOK, Receipt
  <2>4. records[call[c].key].state = "PENDING"
    BY <1>6, Executing
  <2>5. QED
    BY <1>2, <2>1, <2>2, <2>3, <2>4
<1>7. QED
  BY <1>5, <1>6, UnreportedMoves DEF IInv

LEMMA UnreportedComplete ==
    ASSUME IInv, Unreported, NEW w \in Call, Complete(w)
    PROVE  Unreported'
<1>1. PICK m : m = [at |-> "done", key |-> call[w].key,
                    fingerprint |-> call[w].fingerprint, lease |-> call[w].lease,
                    outcome |-> "OK", result |-> call[w].result]
  OBVIOUS
<1>2. call' = [call EXCEPT ![w] = m] /\ m.at = "done" /\ m.result = call[w].result
  BY <1>1 DEF Complete, Answered
<1>3. ASSUME NEW c \in Call \ {w}, At(c, "completing"), call[c].result = m.result
      PROVE  FALSE
  <2>1. performed[m.result].key = call[c].key /\ performed[m.result].key = call[w].key
    BY <1>2, <1>3 DEF IInv, CallsOK, CallOK, Receipt, Complete
  <2>2. In(c) /\ In(w)
    BY <1>3 DEF In, At, Working, Complete
  <2>3. QED
    BY <2>1, <2>2 DEF IInv, OwnersExclude
<1>4. QED
  BY <1>2, <1>3, UnreportedMoves DEF IInv

\* A call that is not answered with a receipt, and has none to record.
LEMMA UnreportedQuiet ==
    ASSUME IInv, Unreported, NEW w \in Call, NEW place, NEW key, NEW fingerprint, NEW lease,
           NEW outcome, NEW result, place # "completing", outcome # "OK",
           call' = [call EXCEPT ![w] =
              [at |-> place, key |-> key, fingerprint |-> fingerprint, lease |-> lease,
               outcome |-> outcome, result |-> result]]
    PROVE  Unreported'
<1>1. PICK m : m = [at |-> place, key |-> key, fingerprint |-> fingerprint, lease |-> lease,
                    outcome |-> outcome, result |-> result]
  OBVIOUS
<1>2. m.at = place /\ m.outcome = outcome /\ call' = [call EXCEPT ![w] = m]
  BY <1>1
<1>3. QED
  BY <1>2, UnreportedMoves DEF IInv

LEMMA UnreportedNext == IInv /\ Unreported /\ [Next]_vars => Unreported'
<1> SUFFICES ASSUME IInv, Unreported, [Next]_vars PROVE Unreported'
  OBVIOUS
<1>1. CASE call' = call
  BY <1>1 DEF Unreported, At, Reports
<1>2. ASSUME NEW w \in Call, NEW key \in Key, NEW payload \in Payload, Request(w, key, payload)
      PROVE  Unreported'
  BY <1>2, UnreportedQuiet DEF Request, Enter, Answered
<1>3. ASSUME NEW w \in Call, Throw(w) PROVE Unreported'
  BY <1>3, UnreportedQuiet DEF Throw, Threw
<1>4. ASSUME NEW w \in Call, Granted(w) PROVE Unreported'
  BY <1>4, UnreportedQuiet DEF Granted
<1>5. ASSUME NEW w \in Call, RequireRecovery(w) \/ Broken(w) PROVE Unreported'
  BY <1>5, UnreportedQuiet DEF RequireRecovery, Broken, Answered
<1>6. QED
  BY <1>1, <1>2, <1>3, <1>4, <1>5, UnreportedPerform, UnreportedNotGranted, UnreportedComplete
  DEF Next, StoreNext, Tick, Claim, vars

LEMMA NeverReportedTwice == Spec => []Unreported
<1>1. Init => Unreported
  BY DEF Init, StoreInit, Unreported, At
<1>2. QED
  BY <1>1, UnreportedNext, Invariance, PTL DEF Spec

-----------------------------------------------------------------------------
\* What the register shows of one record and of one call.
Viewed ==
    /\ Kept = [k \in Key |-> KeptOf(records[k])]
    /\ Answers = [c \in Call |-> AnswerOf(call[c])]

LEMMA Views == Viewed
BY DEF Viewed, Kept, Answers

LEMMA ViewedNext ==
    Viewed' <=> /\ Kept' = [k \in Key |-> KeptOf(records'[k])]
                /\ Answers' = [c \in Call |-> AnswerOf(call'[c])]
BY DEF Viewed, KeptOf, AnswerOf

\* An answer is seen where it is given, and nowhere else.
LEMMA AnswersMove ==
    ASSUME TypeOK, Viewed', NEW w \in Call, NEW m, call' = [call EXCEPT ![w] = m]
    PROVE  /\ Answers' = [Answers EXCEPT ![w] = AnswerOf(m)]
           /\ AnswerOf(m) = AnswerOf(call[w]) => Answers' = Answers
<1>1. call'[w] = m /\ \A c \in Call \ {w} : call'[c] = call[c]
  BY DEF TypeOK, StoreTypeOK
<1>2. Answers' = [c \in Call |-> AnswerOf(call'[c])]
  BY ViewedNext
<1>3. Answers = [c \in Call |-> AnswerOf(call[c])]
  BY Views DEF Viewed
<1>4. QED
  BY <1>1, <1>2, <1>3

LEMMA KeptMoves ==
    ASSUME TypeOK, Viewed', NEW k \in Key, NEW r, records' = [records EXCEPT ![k] = r]
    PROVE  /\ Kept' = [Kept EXCEPT ![k] = KeptOf(r)]
           /\ KeptOf(r) = KeptOf(records[k]) => Kept' = Kept
<1>1. records'[k] = r /\ \A x \in Key \ {k} : records'[x] = records[x]
  BY DEF TypeOK, StoreTypeOK
<1>2. Kept' = [x \in Key |-> KeptOf(records'[x])]
  BY ViewedNext
<1>3. Kept = [x \in Key |-> KeptOf(records[x])]
  BY Views DEF Viewed
<1>4. QED
  BY <1>1, <1>2, <1>3

LEMMA KeptStays ==
    ASSUME Viewed', UNCHANGED records PROVE Kept' = Kept
BY Views, ViewedNext DEF Viewed

\* A call goes on without an answer.
LEMMA AnswersStay ==
    ASSUME IInv, Viewed', NEW w \in Call, ~ At(w, "done"), NEW place, NEW key,
           NEW fingerprint, NEW lease, NEW outcome, NEW result, outcome # "OK",
           call' = [call EXCEPT ![w] =
              [at |-> place, key |-> key, fingerprint |-> fingerprint, lease |-> lease,
               outcome |-> outcome, result |-> result]]
    PROVE  Answers' = Answers
<1>1. PICK m : m = [at |-> place, key |-> key, fingerprint |-> fingerprint, lease |-> lease,
                    outcome |-> outcome, result |-> result]
  OBVIOUS
<1>2. m.outcome # "OK" /\ call[w].outcome # "OK" /\ call' = [call EXCEPT ![w] = m]
  BY <1>1, NotYetOK
<1>3. AnswerOf(m) = {} /\ AnswerOf(call[w]) = {}
  BY <1>2 DEF AnswerOf
<1>4. QED
  BY <1>2, <1>3, AnswersMove DEF IInv

LEMMA AnsweredPer ==
    ASSUME NEW i
    PROVE  Register!Answered(i) <=> \E c \in Call : Reports(c, i)
<1>1. ASSUME NEW c \in Call
      PROVE  (\E a \in Answers[c] : a.receipt = i) <=> Reports(c, i)
  <2>1. Answers[c] = AnswerOf(call[c])
    BY Views DEF Viewed
  <2>2. CASE call[c].outcome = "OK"
    <3>1. Answers[c] = {[key |-> call[c].key, fingerprint |-> call[c].fingerprint,
                         receipt |-> call[c].result]}
      BY <2>1, <2>2 DEF AnswerOf
    <3>2. (\E a \in Answers[c] : a.receipt = i) <=> call[c].result = i
      BY <3>1
    <3>3. QED
      BY <2>2, <3>2 DEF Reports
  <2>3. CASE call[c].outcome # "OK"
    BY <2>1, <2>3 DEF AnswerOf, Reports
  <2>4. QED
    BY <2>2, <2>3
<1>2. QED
  BY <1>1 DEF Register!Answered

LEMMA RegisterIdle ==
    ASSUME UNCHANGED <<now, performed>>, Kept' = Kept, Answers' = Answers
    PROVE  UNCHANGED Register!vars
BY DEF Register!vars

LEMMA RegisterInit == Init => Register!Init
<1> SUFFICES ASSUME Init PROVE Register!Init
  OBVIOUS
<1>1. /\ \A k \in Key : KeptOf(records[k]) = {}
      /\ \A c \in Call : AnswerOf(call[c]) = {}
  BY DEF Init, StoreInit, NoRecord, KeptOf, AnswerOf
<1>2. Kept = [k \in Key |-> {}] /\ Answers = [c \in Call |-> {}]
  BY <1>1, Views DEF Viewed
<1>3. QED
  BY <1>2 DEF Init, StoreInit, Register!Init

\* A command reaches the provider when all earlier ones under its key were answered.
LEMMA RegisterGives ==
    ASSUME IInv, NEW w \in Call, At(w, "executing"), Kept' = Kept, Answers' = Answers,
           performed' = Append(performed, Command(w)), now' = now
    PROVE  Register!Next
<1>1. PICK k \in Key, p \in Payload : k = call[w].key /\ p = call[w].fingerprint
  BY Executing
<1>2. Kept[k] = {}
  BY <1>1, Executing, Views DEF Viewed, KeptOf
<1>3. \A i \in DOMAIN performed : performed[i].key = k => Register!Answered(i)
  <2> SUFFICES ASSUME NEW i \in DOMAIN performed, performed[i].key = k
               PROVE  \E c \in Call : Reports(c, i)
    BY AnsweredPer
  <2>1. i # 0
    BY Typed DEF IInv
  <2>2. SettledBut(0, k, now)
    BY <1>1 DEF IInv, CallsOK, CallOK
  <2>3. QED
    BY <2>1, <2>2 DEF SettledBut
<1>4. performed' = Append(performed, [key |-> k, fingerprint |-> p, at |-> now])
  BY <1>1 DEF Command
<1>5. Register!Give(k, p)
  BY <1>2, <1>3, <1>4 DEF Register!Give
<1>6. QED
  BY <1>5 DEF Register!Next

\* The first answer is recorded with it.
LEMMA RegisterReports ==
    ASSUME IInv, Unreported, Viewed', NEW w \in Call, Complete(w), UNCHANGED performed
    PROVE  Register!Next
<1>1. At(w, "completing")
  BY DEF Complete
<1>2. PICK d \in CallState : d = call[w]
  BY Typed DEF IInv
<1>3. PICK i : i = d.result
  OBVIOUS
<1>4. /\ d.key \in Key /\ d.outcome # "OK" /\ records[d.key].state = "PENDING"
      /\ i \in DOMAIN performed
      /\ performed[i].key = d.key /\ performed[i].fingerprint = d.fingerprint
  <2>1. Receipt(i, d.key, d.fingerprint)
    BY <1>1, <1>2, <1>3 DEF IInv, CallsOK, CallOK
  <2>2. QED
    BY <1>1, <1>2, <2>1, Executing DEF Receipt
<1>5. PICK m : m = [at |-> "done", key |-> d.key, fingerprint |-> d.fingerprint,
                    lease |-> d.lease, outcome |-> "OK", result |-> i]
  OBVIOUS
<1>6. PICK r : r = [state |-> "COMPLETED", fingerprint |-> d.fingerprint, lease |-> 0,
                    result |-> i, expiresAt |-> now + Retention]
  OBVIOUS
<1>7. /\ call' = [call EXCEPT ![w] = m] /\ records' = [records EXCEPT ![d.key] = r]
      /\ now' = now
  BY <1>2, <1>3, <1>5, <1>6 DEF Complete, Answered, CompletedRecord
<1>8. /\ AnswerOf(m) = {[key |-> d.key, fingerprint |-> d.fingerprint, receipt |-> i]}
      /\ KeptOf(r) = {[fingerprint |-> d.fingerprint, receipt |-> i,
                       until |-> now + Retention]}
  BY <1>5, <1>6 DEF AnswerOf, KeptOf
<1>9. /\ Answers' = [Answers EXCEPT ![w] = AnswerOf(m)]
      /\ Kept' = [Kept EXCEPT ![d.key] = KeptOf(r)]
  BY <1>4, <1>7, AnswersMove, KeptMoves DEF IInv
<1>10. Answers[w] = {} /\ Kept[d.key] = {}
  BY <1>2, <1>4, Views DEF Viewed, AnswerOf, KeptOf
<1>11. ~ Register!Answered(i)
  BY <1>1, <1>2, <1>3, AnsweredPer DEF Unreported
<1>12. Register!Receive(w, performed[i].key, performed[i].fingerprint, i)
  BY <1>4, <1>8, <1>9, <1>10 DEF Register!Receive
<1>13. Register!Report(w, i)
  BY <1>4, <1>7, <1>8, <1>9, <1>10, <1>11, <1>12 DEF Register!Report
<1>14. QED
  BY <1>4, <1>13 DEF Register!Next

\* A claim that is answered at once is answered with what is kept.
LEMMA RegisterReplays ==
    ASSUME IInv, Viewed', NEW w \in Call, At(w, "claiming"), NotGranted(w),
           UNCHANGED <<now, performed>>
    PROVE  [Register!Next]_(Register!vars)
<1>1. PICK d \in CallState : d = call[w] /\ d.key \in Key
  BY Typed DEF IInv, CallsOK, CallOK
<1>2. PICK k \in Key : k = d.key
  BY <1>1
<1>3. PICK r \in Record : r = records[k]
  BY Typed DEF IInv
<1>4. PICK outcome : outcome = OutcomeOf(r, d.fingerprint)
  OBVIOUS
<1>5. /\ call' = Answered(w, outcome, IF outcome = "OK" THEN r.result ELSE NoResult)
      /\ records' = records /\ ~ Claimable(r)
  BY <1>1, <1>2, <1>3, <1>4 DEF NotGranted
<1>6. Kept' = Kept /\ ~ At(w, "done")
  BY <1>5, KeptStays DEF At
<1>7. CASE outcome # "OK"
  <2>1. Answers' = Answers
    BY <1>5, <1>6, <1>7, AnswersStay DEF Answered
  <2>2. QED
    BY <1>6, <2>1, RegisterIdle
<1>8. CASE outcome = "OK"
  <2>1. r.state = "COMPLETED" /\ r.fingerprint = d.fingerprint
    BY <1>3, <1>4, <1>5, <1>8 DEF OutcomeOf, Record, Claimable
  <2>2. now < r.expiresAt
    <3>1. now \in Nat /\ r.expiresAt \in Nat
      BY Typed DEF IInv, Record
    <3>2. QED
      BY <1>5, <2>1, <3>1 DEF Claimable, Expired
  <2>3. PICK a : a = [fingerprint |-> r.fingerprint, receipt |-> r.result,
                      until |-> r.expiresAt]
    OBVIOUS
  <2>4. a \in Kept[k] /\ now < a.until
    BY <1>3, <2>1, <2>2, <2>3, Views DEF Viewed, KeptOf
  <2>5. PICK m : m = [at |-> "done", key |-> d.key, fingerprint |-> d.fingerprint,
                      lease |-> d.lease, outcome |-> "OK", result |-> r.result]
    OBVIOUS
  <2>6. call' = [call EXCEPT ![w] = m]
    BY <1>1, <1>5, <1>8, <2>5 DEF Answered
  <2>7. AnswerOf(m) = {[key |-> k, fingerprint |-> a.fingerprint, receipt |-> a.receipt]}
    BY <1>2, <2>1, <2>3, <2>5 DEF AnswerOf
  <2>8. Answers' = [Answers EXCEPT ![w] = AnswerOf(m)]
    BY <2>6, AnswersMove DEF IInv
  <2>9. Answers[w] = {}
    BY <1>6, NotYetOK, Views DEF Viewed, AnswerOf
  <2>10. Register!Receive(w, k, a.fingerprint, a.receipt)
    BY <2>7, <2>8 DEF Register!Receive
  <2>11. Register!Replay(w, k, a)
    BY <1>6, <2>4, <2>9, <2>10 DEF Register!Replay
  <2>12. QED
    BY <2>4, <2>11 DEF Register!Next
<1>9. QED
  BY <1>7, <1>8

\* A claim on a result whose retention is over forgets it.
LEMMA RegisterForgets ==
    ASSUME IInv, Viewed', NEW w \in Call, At(w, "claiming"), Granted(w),
           UNCHANGED <<now, performed>>
    PROVE  [Register!Next]_(Register!vars)
<1>1. PICK k \in Key : k = call[w].key
  BY DEF IInv, CallsOK, CallOK
<1>2. PICK old \in Record : old = records[k]
  BY Typed DEF IInv
<1>3. PICK r : r = [state |-> "PENDING", fingerprint |-> call[w].fingerprint,
                    lease |-> leases + 1, result |-> NoResult, expiresAt |-> 0]
  OBVIOUS
<1>4. records' = [records EXCEPT ![k] = r] /\ KeptOf(r) = {}
  BY <1>1, <1>3 DEF Granted, KeptOf
<1>5. Answers' = Answers
  <2>1. ~ At(w, "done")
    BY DEF At
  <2>2. QED
    BY <2>1, AnswersStay DEF Granted
<1>6. CASE old.state = "FREE"
  <2>1. KeptOf(old) = {}
    BY <1>6 DEF KeptOf
  <2>2. Kept' = Kept
    BY <1>2, <1>4, <2>1, KeptMoves DEF IInv
  <2>3. QED
    BY <1>5, <2>2, RegisterIdle
<1>7. CASE old.state = "COMPLETED" /\ old.expiresAt <= now
  <2>1. PICK a : a = [fingerprint |-> old.fingerprint, receipt |-> old.result,
                      until |-> old.expiresAt]
    OBVIOUS
  <2>2. a \in Kept[k] /\ a.until <= now
    BY <1>2, <1>7, <2>1, Views DEF Viewed, KeptOf
  <2>3. Kept' = [Kept EXCEPT ![k] = {}]
    BY <1>4, KeptMoves DEF IInv
  <2>4. Register!Forget(k, a)
    BY <1>5, <2>2, <2>3 DEF Register!Forget
  <2>5. QED
    BY <2>2, <2>4 DEF Register!Next
<1>8. QED
  BY <1>1, <1>2, <1>6, <1>7 DEF Granted, Claimable, Expired

\* A key that needs recovery keeps nothing, as it kept nothing before.
LEMMA RegisterRecovers ==
    ASSUME IInv, Viewed', NEW w \in Call, RequireRecovery(w), UNCHANGED performed
    PROVE  UNCHANGED Register!vars
<1>1. At(w, "failing") /\ now' = now
  BY DEF RequireRecovery
<1>2. PICK k \in Key : k = call[w].key /\ records[k].state = "PENDING"
  BY <1>1, Executing
<1>3. PICK r : r = FailedRecord(w)
  OBVIOUS
<1>4. r.state = "RECOVERY_REQUIRED" /\ records' = [records EXCEPT ![k] = r]
  BY <1>2, <1>3 DEF RequireRecovery, FailedRecord
<1>5. KeptOf(r) = {} /\ KeptOf(records[k]) = {}
  BY <1>2, <1>4 DEF KeptOf
<1>6. Kept' = Kept
  BY <1>4, <1>5, KeptMoves DEF IInv
<1>7. Answers' = Answers
  <2>1. ~ At(w, "done")
    BY <1>1 DEF At
  <2>2. QED
    BY <2>1, AnswersStay DEF RequireRecovery, Answered
<1>8. QED
  BY <1>1, <1>6, <1>7, RegisterIdle

LEMMA RegisterStep ==
    ASSUME IInv, Unreported, Viewed', [Next]_vars
    PROVE  [Register!Next]_(Register!vars)
<1>1. CASE UNCHANGED vars
  <2>1. Kept' = Kept /\ Answers' = Answers
    BY <1>1 DEF vars, Kept, Answers
  <2>2. QED
    BY <1>1, <2>1, RegisterIdle DEF vars
<1>2. ASSUME NEW w \in Call, NEW key \in Key, NEW payload \in Payload, Request(w, key, payload)
      PROVE  [Register!Next]_(Register!vars)
  <2>1. Kept' = Kept /\ UNCHANGED <<now, performed>>
    BY <1>2, KeptStays DEF Request, Enter
  <2>2. ~ At(w, "done")
    BY <1>2 DEF Request, Enter, At
  <2>3. Answers' = Answers
    BY <1>2, <2>2, AnswersStay DEF Request, Enter, Answered
  <2>4. QED
    BY <2>1, <2>3, RegisterIdle
<1>3. ASSUME NEW w \in Call, Perform(w) \/ Throw(w) PROVE [Register!Next]_(Register!vars)
  <2>1. At(w, "executing") /\ now' = now /\ records' = records
    BY <1>3 DEF Perform, Throw
  <2>2. Kept' = Kept /\ ~ At(w, "done")
    BY <2>1, KeptStays DEF At
  <2>3. Answers' = Answers
    BY <1>3, <2>2, AnswersStay DEF Perform, Throw, Returned, Threw
  <2>4. CASE performed' = performed
    BY <2>1, <2>2, <2>3, <2>4, RegisterIdle
  <2>5. CASE performed' = Append(performed, Command(w))
    BY <2>1, <2>2, <2>3, <2>5, RegisterGives
  <2>6. QED
    BY <1>3, <2>4, <2>5 DEF Perform, Throw
<1>4. ASSUME NEW w \in Call, Broken(w), UNCHANGED performed
      PROVE  [Register!Next]_(Register!vars)
  <2>1. Kept' = Kept /\ now' = now
    BY <1>4, KeptStays DEF Broken
  <2>2. ~ At(w, "done")
    BY <1>4 DEF Broken, At
  <2>3. Answers' = Answers
    BY <1>4, <2>2, AnswersStay DEF Broken, Answered
  <2>4. QED
    BY <1>4, <2>1, <2>3, RegisterIdle
<1>5. ASSUME Tick, UNCHANGED performed PROVE [Register!Next]_(Register!vars)
  <2>1. Kept' = Kept /\ Answers' = Answers
    BY <1>5 DEF Tick, Kept, Answers
  <2>2. Register!Tick
    BY <1>5, <2>1 DEF Tick, Register!Tick
  <2>3. QED
    BY <2>2 DEF Register!Next
<1>6. QED
  BY <1>1, <1>2, <1>3, <1>4, <1>5, RegisterReports, RegisterReplays, RegisterForgets,
     RegisterRecovers
  DEF Next, StoreNext, Claim

\* For any number of calls that race for keys, throw, are lost or come back late: whoever
\* gives commands sees a register. A command is given only while nothing is kept under its
\* key and all earlier ones were answered; its receipt is answered first when it is kept,
\* and again only until its retention ends.
THEOREM RegisterImplemented == Spec => ImplementsRegister
<1>1. IInv /\ Unreported /\ Viewed' /\ [Next]_vars => [Register!Next]_(Register!vars)
  BY RegisterStep
<1>2. QED
  BY <1>1, RegisterInit, Views, Invariance, NeverReportedTwice, PTL
  DEF Spec, Register!Spec, ImplementsRegister

-----------------------------------------------------------------------------
\* An attempt counts as protected by exactly the observations that reconcile,
\* whatever the amounts: assessPaymentProtection has no other way to HELD.
THEOREM HeldIsReconciled ==
    ASSUME NEW s \in Snapshot, NEW expected \in Nat \ {0}
    PROVE  Assess(s, expected).status = "HELD_CONFIRMED" <=> Reconciled(s, expected)
<1>1. CASE ~ s.own \/ SomeUnknown(s) \/ s.after = "ACTIVITY" \/ Contradictory(s)
  BY <1>1 DEF Assess, Unreconciled, Is, SomeUnknown, Contradictory, Reconciled, Snapshot
<1>2. CASE ~ (~ s.own \/ SomeUnknown(s) \/ s.after = "ACTIVITY" \/ Contradictory(s))
  <2>1. CASE s.collection \in {"FAILED", "EXPIRED", "PENDING"}
    BY <1>2, <2>1 DEF Assess, Is, Reconciled
  <2>2. CASE s.collection = "CONFIRMED"
    <3>1. Assess(s, expected) = AssessCollected(s, expected)
      BY <1>2, <2>2 DEF Assess
    <3>2. s.after = "NOTHING"
      BY <1>2 DEF SomeUnknown, Snapshot
    <3>3. s.collected \in Amount /\ s.held \in Amount /\ s.hold \in Hold
      BY DEF Snapshot
    <3>4. QED
      BY <1>2, <2>2, <3>1, <3>2, <3>3
      DEF AssessCollected, Unreconciled, Is, Reconciled, None, Amount
  <2>3. QED
    BY <1>2, <2>1, <2>2 DEF Snapshot, Collection, SomeUnknown
<1>3. QED
  BY <1>1, <1>2

\* A failure is reported only of an attempt that shows no money at all, neither
\* collected nor held: an observation with money in it is never a mere failure.
THEOREM FailureShowsNoMoney ==
    ASSUME NEW s \in Snapshot, NEW expected \in Nat \ {0},
           Assess(s, expected).status = "FAILED"
    PROVE  s.own /\ s.collected = None /\ s.held = None /\ s.after = "NOTHING"
<1>1. s.own /\ ~ SomeUnknown(s) /\ s.after # "ACTIVITY" /\ ~ Contradictory(s)
  BY DEF Assess, Unreconciled, Is
<1>2. s.collection \in {"FAILED", "EXPIRED"}
  BY <1>1 DEF Assess, AssessCollected, Unreconciled, Is
<1>3. QED
  BY <1>1, <1>2 DEF SomeUnknown, Contradictory, Snapshot

\* Money that was collected counts as protected only with its hold, whatever the amounts: a
\* failed hold goes to reconciliation, and one that is not there yet is waited for.
THEOREM CollectedMoneyNeedsItsHold ==
    ASSUME NEW s \in Snapshot, NEW expected \in Nat \ {0}, s.collection = "CONFIRMED"
    PROVE  /\ s.hold = "FAILED" => Assess(s, expected).status = "RECONCILIATION_REQUIRED"
           /\ /\ s.own /\ s.referenced /\ s.after = "NOTHING" /\ s.collected = expected
              /\ s.hold \in {"PENDING", "NOT_CONFIRMED"}
              => Assess(s, expected).status = "AWAITING_CONFIRMATION"
<1>1. ASSUME s.hold = "FAILED"
      PROVE  Assess(s, expected).status = "RECONCILIATION_REQUIRED"
  <2>1. AssessCollected(s, expected).status = "RECONCILIATION_REQUIRED"
    BY <1>1 DEF AssessCollected, Unreconciled, Is
  <2>2. QED
    BY <2>1 DEF Assess, Unreconciled, Is
<1>2. ASSUME s.own, s.referenced, s.after = "NOTHING", s.collected = expected,
             s.hold \in {"PENDING", "NOT_CONFIRMED"}
      PROVE  Assess(s, expected).status = "AWAITING_CONFIRMATION"
  <2>1. ~ SomeUnknown(s) /\ ~ Contradictory(s)
    BY <1>2 DEF SomeUnknown, Contradictory
  <2>2. AssessCollected(s, expected).status = "AWAITING_CONFIRMATION"
    BY <1>2 DEF AssessCollected, None, Is
  <2>3. QED
    BY <1>2, <2>1, <2>2 DEF Assess
<1>3. QED
  BY <1>1, <1>2
=============================================================================
