----------------------- MODULE EvidenceLifecycleProofs -----------------------
(***************************************************************************)
(* For any evidence, calls, keys, contents, lifetimes and policy: what is  *)
(* promoted was found clean, what is stored is what is accepted, and what  *)
(* is accepted is kept until its retention is over.                        *)
(***************************************************************************)
EXTENDS EvidenceLifecycle, TLAPS

\* What a record says of itself, when n references have been handed out.
RecordOK(r, n) ==
    /\ r.accepted # 0 =>
          /\ r.reference # 0 /\ r.upload = NoContent /\ r.digest \in Content
          /\ r.accepted <= n
          /\ Admissible(r.digest)
          /\ r.scan = [status |-> "CLEAN", digest |-> r.digest]
    /\ r.deleted => r.accepted # 0

EvidenceOK == \A e \in Evidence : RecordOK(evidence[e], references)

\* No two records have one object.
ObjectsOwned ==
    \A d, e \in Evidence :
       evidence[d].accepted # 0 /\ evidence[d].accepted = evidence[e].accepted => d = e

Removable(e, reference) ==
    /\ reference \in 1 .. MaxReference
    /\ evidence[e].accepted = reference
    /\ evidence[e].deleted \/ evidence[e].retainedUntil <= now

\* What a call's checks found, which must still be so at its effect.
CallOK(m) ==
    m.at \in {"claiming", "executing"} =>
       /\ m.key \in Key /\ m.fingerprint \in Payload
       /\ m.fingerprint.evidence \in Evidence
       /\ m.key.operation = "evidence.upload-intent.create" =>
             m.fingerprint.what \in Classification
       /\ m.key.operation = "evidence.accept" => Known(m.fingerprint.evidence)
       /\ m.key.operation = "evidence.delete-expired" =>
             Removable(m.fingerprint.evidence, m.fingerprint.what)

CallsOK == \A c \in Call : CallOK(call[c])

IInv == TypeOK /\ EvidenceOK /\ ObjectsOwned /\ StoredWhileAccepted /\ CallsOK

\* What no step takes back.
Kept ==
    \A e \in Evidence : evidence[e].accepted # 0 =>
          /\ evidence'[e].accepted = evidence[e].accepted
          /\ evidence'[e].digest = evidence[e].digest
          /\ evidence'[e].retainedUntil = evidence[e].retainedUntil
          /\ evidence[e].deleted => evidence'[e].deleted
          /\ evidence'[e].deleted /\ ~evidence[e].deleted => evidence[e].retainedUntil <= now

Later ==
    /\ now \in Nat /\ now' \in Nat /\ now <= now'
    /\ \A e \in Evidence : Known(e) => Known(e)'
    /\ Kept

-----------------------------------------------------------------------------
LEMMA Typed ==
    ASSUME TypeOK
    PROVE  /\ now \in Nat /\ now <= MaxTime
           /\ \A c \in Call : call[c] \in CallState
           /\ \A k \in Key : records[k] \in Record
           /\ \A e \in Evidence : evidence[e] \in EvidenceRecord
           /\ references \in 0 .. MaxReference
BY RetentionAssumption DEF TypeOK, StoreTypeOK

LEMMA UnknownType == Unknown \in EvidenceRecord
<1>1. NotScanned \in Scan
  BY DEF NotScanned, Scan
<1>2. 0 \in 0 .. MaxReference
  BY NameAssumption
<1>3. QED
  BY <1>1, <1>2 DEF Unknown, EvidenceRecord

LEMMA InitIInv == Init => IInv
<1> SUFFICES ASSUME Init PROVE IInv
  OBVIOUS
<1>1. TypeOK
  <2>1. StoreTypeOK
    BY RetentionAssumption DEF Init, StoreInit, StoreTypeOK, CallState, Record, NoRecord
  <2>2. references \in 0 .. MaxReference
    BY NameAssumption DEF Init
  <2>3. QED
    BY <2>1, <2>2, UnknownType DEF Init, TypeOK
<1>2. \A e \in Evidence : evidence[e].accepted = 0 /\ ~ evidence[e].deleted
  BY DEF Init, Unknown
<1>3. EvidenceOK /\ ObjectsOwned
  BY <1>2 DEF EvidenceOK, RecordOK, ObjectsOwned
<1>4. StoredWhileAccepted
  BY <1>2 DEF Init, StoredWhileAccepted
<1>5. CallsOK
  BY DEF Init, StoreInit, CallsOK, CallOK
<1>6. QED
  BY <1>1, <1>3, <1>4, <1>5 DEF IInv

\* The checks of a call hold on, whatever the others do.
LEMMA CallStays ==
    ASSUME TypeOK, Later, NEW m, CallOK(m)
    PROVE  CallOK(m)'
<1> SUFFICES ASSUME m.at \in {"claiming", "executing"}
             PROVE  /\ m.key.operation = "evidence.accept" => Known(m.fingerprint.evidence)'
                    /\ m.key.operation = "evidence.delete-expired" =>
                          Removable(m.fingerprint.evidence, m.fingerprint.what)'
  BY DEF CallOK
<1>1. PICK e \in Evidence : e = m.fingerprint.evidence
  BY DEF CallOK
<1>2. m.key.operation = "evidence.accept" => Known(e)'
  BY <1>1 DEF CallOK, Later
<1>3. ASSUME NEW n, Removable(e, n) PROVE Removable(e, n)'
  <2>1. n \in 1 .. MaxReference /\ evidence[e].accepted = n /\ n # 0
    BY <1>3, NameAssumption DEF Removable
  <2>2. evidence'[e].accepted = n
    BY <2>1 DEF Later, Kept
  <2>3. evidence[e].deleted => evidence'[e].deleted
    BY <2>1 DEF Later, Kept
  <2>4. evidence[e].retainedUntil <= now => evidence'[e].retainedUntil <= now'
    <3>1. evidence'[e].retainedUntil = evidence[e].retainedUntil
      BY <2>1 DEF Later, Kept
    <3>2. evidence[e].retainedUntil \in Nat
      BY Typed DEF EvidenceRecord
    <3>3. QED
      BY <3>1, <3>2 DEF Later
  <2>5. QED
    BY <1>3, <2>1, <2>2, <2>3, <2>4 DEF Removable
<1>4. QED
  BY <1>1, <1>2, <1>3 DEF CallOK, Known, Removable


\* A call goes on or ends.
LEMMA CallsMove ==
    ASSUME IInv, Later, NEW w \in Call, NEW m \in CallState,
           call' = [call EXCEPT ![w] = m], CallOK(m)'
    PROVE  CallsOK' /\ call' \in [Call -> CallState]
<1>1. /\ call' \in [Call -> CallState]
      /\ call'[w] = m /\ \A c \in Call \ {w} : call'[c] = call[c]
  BY DEF IInv, TypeOK, StoreTypeOK
<1>2. ASSUME NEW c \in Call PROVE CallOK(call[c])'
  <2>1. PICK d : d = call'[c]
    OBVIOUS
  <2>2. CallOK(d)'
    <3>1. CASE c = w
      BY <1>1, <2>1, <3>1
    <3>2. CASE c # w
      <4>1. CallOK(d)
        BY <1>1, <2>1, <3>2 DEF IInv, CallsOK
      <4>2. QED
        BY <4>1, CallStays DEF IInv
    <3>3. QED
      BY <3>1, <3>2
  <2>3. QED
    BY <2>1, <2>2 DEF CallOK, Known, Removable
<1>3. QED
  BY <1>1, <1>2 DEF CallsOK

LEMMA NothingLost ==
    ASSUME TypeOK, now' \in Nat, now <= now', UNCHANGED evidence
    PROVE  Later /\ Kept
BY Typed DEF Later, Kept, Known

\* A step of a call or of the store, that leaves evidence alone.
LEMMA QuietIInv ==
    ASSUME IInv, NEW w \in Call, NEW m \in CallState, call' = [call EXCEPT ![w] = m],
           CallOK(m), records' \in [Key -> Record], leases' \in Nat, now' = now,
           UNCHANGED domainVars
    PROVE  IInv' /\ Kept
<1>1. UNCHANGED <<evidence, objects, references>>
  BY DEF domainVars
<1>2. Later /\ Kept
  BY <1>1, Typed, NothingLost DEF IInv
<1>3. CallOK(m)'
  BY <1>2, CallStays DEF IInv
<1>4. CallsOK' /\ call' \in [Call -> CallState]
  BY <1>2, <1>3, CallsMove
<1>5. TypeOK'
  BY <1>1, <1>4 DEF IInv, TypeOK, StoreTypeOK
<1>6. EvidenceOK' /\ ObjectsOwned' /\ StoredWhileAccepted'
  BY <1>1 DEF IInv, EvidenceOK, ObjectsOwned, StoredWhileAccepted
<1>7. QED
  BY <1>2, <1>4, <1>5, <1>6 DEF IInv

-----------------------------------------------------------------------------
\* A call that is over, or has an outcome to record.
LEMMA EndedIInv ==
    ASSUME IInv, NEW w \in Call, NEW m \in CallState, call' = [call EXCEPT ![w] = m],
           m.at \in {"completing", "failing", "done"},
           records' \in [Key -> Record], leases' \in Nat, now' = now, UNCHANGED domainVars
    PROVE  IInv' /\ Kept
<1>1. CallOK(m)
  BY DEF CallOK
<1>2. QED
  BY <1>1, QuietIInv

\* what a call has after it returned, threw or was answered
LEMMA EndType ==
    ASSUME TypeOK, NEW w \in Call, NEW result \in Result \cup {NoResult},
           NEW outcome \in {"NONE", "OK"} \cup Refusal,
           NEW place \in {"completing", "failing", "done"}
    PROVE  [at |-> place, key |-> call[w].key, fingerprint |-> call[w].fingerprint,
            lease |-> call[w].lease, outcome |-> outcome, result |-> result] \in CallState
<1>1. call[w] \in CallState
  BY Typed
<1>2. /\ call[w].key \in Key \cup {NoKey} /\ call[w].fingerprint \in Payload \cup {NoPayload}
      /\ call[w].lease \in Nat
  BY <1>1 DEF CallState
<1>3. place \in {"idle", "claiming", "executing", "completing", "failing", "done"}
  OBVIOUS
<1>4. QED
  BY <1>2, <1>3 DEF CallState

LEMMA AnsweredIInv ==
    ASSUME IInv, NEW w \in Call, NEW result \in Result \cup {NoResult},
           NEW outcome \in {"OK"} \cup Refusal, call' = Answered(w, outcome, result),
           records' \in [Key -> Record], leases' \in Nat, now' = now, UNCHANGED domainVars
    PROVE  IInv' /\ Kept
<1> DEFINE m == [at |-> "done", key |-> call[w].key, fingerprint |-> call[w].fingerprint,
                 lease |-> call[w].lease, outcome |-> outcome, result |-> result]
<1>1. m \in CallState /\ m.at = "done"
  BY EndType DEF IInv
<1>2. call' = [call EXCEPT ![w] = m]
  BY DEF Answered
<1>3. QED
  BY <1>1, <1>2, EndedIInv

LEMMA GrantedIInv ==
    ASSUME IInv, NEW w \in Call, At(w, "claiming"), Granted(w), now' = now,
           UNCHANGED domainVars
    PROVE  IInv' /\ Kept
<1>1. PICK c : c = call[w]
  OBVIOUS
<1>2. /\ c \in CallState /\ CallOK(c) /\ c.at = "claiming"
      /\ c.key \in Key /\ c.fingerprint \in Payload /\ leases \in Nat
  BY <1>1, Typed DEF IInv, CallsOK, CallOK, At, TypeOK, StoreTypeOK
<1> DEFINE m == [at |-> "executing", key |-> c.key, fingerprint |-> c.fingerprint,
                 lease |-> leases + 1, outcome |-> "NONE", result |-> NoResult]
           r == [state |-> "PENDING", fingerprint |-> c.fingerprint, lease |-> leases + 1,
                 result |-> NoResult, expiresAt |-> 0]
<1>3. m \in CallState /\ r \in Record
  BY <1>2 DEF CallState, Record
<1>4. call' = [call EXCEPT ![w] = m] /\ records' = [records EXCEPT ![c.key] = r]
      /\ leases' \in Nat
  BY <1>1, <1>2 DEF Granted
<1>5. records' \in [Key -> Record]
  BY <1>3, <1>4 DEF IInv, TypeOK, StoreTypeOK
<1>6. PICK d : d = m
  OBVIOUS
<1>7. CallOK(d)
  BY <1>2, <1>6 DEF CallOK
<1>8. QED
  BY <1>3, <1>4, <1>5, <1>6, <1>7, QuietIInv

LEMMA NotGrantedIInv ==
    ASSUME IInv, NEW w \in Call, At(w, "claiming"), NotGranted(w), now' = now,
           UNCHANGED domainVars
    PROVE  IInv' /\ Kept
<1>1. call[w].key \in Key
  BY DEF IInv, CallsOK, CallOK, At
<1>2. PICK r \in Record : r = records[call[w].key]
  BY <1>1, Typed DEF IInv
<1>3. PICK outcome : outcome = OutcomeOf(r, call[w].fingerprint)
  OBVIOUS
<1>4. outcome \in {"OK"} \cup Refusal
  BY <1>3 DEF OutcomeOf, Refusal
<1>5. PICK result : result = IF outcome = "OK" THEN r.result ELSE NoResult
  OBVIOUS
<1>6. result \in Result \cup {NoResult}
  BY <1>5 DEF Record
<1>7. call' = Answered(w, outcome, result) /\ records' = records /\ leases' = leases
  BY <1>2, <1>3, <1>5 DEF NotGranted
<1>8. QED
  BY <1>4, <1>6, <1>7, AnsweredIInv DEF IInv, TypeOK, StoreTypeOK

LEMMA RecordedIInv ==
    ASSUME IInv, NEW w \in Call, Complete(w) \/ RequireRecovery(w), UNCHANGED domainVars
    PROVE  IInv' /\ Kept
<1>1. call[w].result \in Result \cup {NoResult} /\ call[w].fingerprint \in Payload \cup {NoPayload}
  BY Typed DEF IInv, CallState
<1>2. now + Retention \in Nat
  BY Typed, RetentionAssumption DEF IInv
<1>3. CompletedRecord(w) \in Record
  BY <1>1, <1>2 DEF CompletedRecord, Record
<1>4. FailedRecord(w) \in Record
  BY <1>1 DEF FailedRecord, Record
<1>5. PICK r \in Record : records' = [records EXCEPT ![call[w].key] = r]
  BY <1>3, <1>4 DEF Complete, RequireRecovery
<1>6. records' \in [Key -> Record] /\ leases' \in Nat /\ now' = now
  BY <1>5 DEF IInv, TypeOK, StoreTypeOK, Complete, RequireRecovery
<1>7. call' = Answered(w, "OK", call[w].result) \/ call' = Answered(w, "ERROR", NoResult)
  BY DEF Complete, RequireRecovery
<1>8. PICK result \in Result \cup {NoResult}, outcome \in {"OK"} \cup Refusal :
         call' = Answered(w, outcome, result)
  BY <1>1, <1>7 DEF Refusal
<1>9. QED
  BY <1>6, <1>8, AnsweredIInv

LEMMA BrokenIInv ==
    ASSUME IInv, NEW w \in Call, Broken(w), UNCHANGED domainVars
    PROVE  IInv' /\ Kept
<1>1. "LOST" \in {"OK"} \cup Refusal /\ NoResult \in Result \cup {NoResult}
  BY DEF Refusal
<1>2. QED
  BY <1>1, AnsweredIInv DEF Broken, IInv, TypeOK, StoreTypeOK

LEMMA TickIInv ==
    ASSUME IInv, now' \in 0 .. MaxTime, now <= now', UNCHANGED <<records, leases, call>>,
           UNCHANGED domainVars
    PROVE  IInv' /\ Kept
<1>1. UNCHANGED <<evidence, objects, references>>
  BY DEF domainVars
<1>2. Later /\ Kept
  BY <1>1, Typed, RetentionAssumption, NothingLost DEF IInv
<1>3. CallsOK'
  <2> SUFFICES ASSUME NEW c \in Call PROVE CallOK(call[c])'
    BY DEF CallsOK
  <2>1. PICK d : d = call[c]
    OBVIOUS
  <2>2. CallOK(d)'
    BY <1>2, <2>1, CallStays DEF IInv, CallsOK
  <2>3. QED
    BY <2>1, <2>2 DEF CallOK, Known, Removable
<1>4. TypeOK'
  BY <1>1 DEF IInv, TypeOK, StoreTypeOK
<1>5. EvidenceOK' /\ ObjectsOwned' /\ StoredWhileAccepted'
  BY <1>1 DEF IInv, EvidenceOK, ObjectsOwned, StoredWhileAccepted
<1>6. QED
  BY <1>2, <1>3, <1>4, <1>5 DEF IInv

-----------------------------------------------------------------------------
\* A call enters with what its checks found, or is refused by them.
LEMMA EnterIInv ==
    ASSUME IInv, NEW w \in Call, NEW key \in Key, NEW payload \in Payload, NEW checked,
           checked \in BOOLEAN, EnterIf(checked, w, key, payload),
           checked => /\ payload.evidence \in Evidence
                      /\ key.operation = "evidence.upload-intent.create" =>
                            payload.what \in Classification
                      /\ key.operation = "evidence.accept" => Known(payload.evidence)
                      /\ key.operation = "evidence.delete-expired" =>
                            Removable(payload.evidence, payload.what)
    PROVE  IInv' /\ Kept
<1>1. CASE checked
  <2>1. PICK m : m = [at |-> "claiming", key |-> key, fingerprint |-> payload, lease |-> 0,
                      outcome |-> "NONE", result |-> NoResult]
    OBVIOUS
  <2>2. m \in CallState
    BY <2>1 DEF CallState
  <2>3. CallOK(m)
    BY <1>1, <2>1 DEF CallOK
  <2>4. call' = [call EXCEPT ![w] = m] /\ UNCHANGED <<now, records, leases>>
        /\ UNCHANGED domainVars
    BY <1>1, <2>1 DEF EnterIf, Enter
  <2>5. QED
    BY <2>2, <2>3, <2>4, QuietIInv DEF IInv, TypeOK, StoreTypeOK
<1>2. CASE ~ checked
  <2>1. "ERROR" \in {"OK"} \cup Refusal /\ NoResult \in Result \cup {NoResult}
    BY DEF Refusal
  <2>2. QED
    BY <1>2, <2>1, AnsweredIInv DEF EnterIf, Refuse, IInv, TypeOK, StoreTypeOK
<1>3. QED
  BY <1>1, <1>2

LEMMA AskIInv ==
    ASSUME IInv, NEW w \in Call, NEW key \in Key, NEW e \in Evidence, Ask(w, key, e)
    PROVE  IInv' /\ Kept
<1>1. \A n \in 1 .. references : n \in 1 .. MaxReference
  BY Typed, NameAssumption DEF IInv
<1>2. \A x \in Classification \cup (1 .. MaxReference) :
         /\ About(e, x) \in Payload
         /\ About(e, x).evidence = e /\ About(e, x).what = x
  BY NameAssumption DEF About
<1>3. ASSUME NEW x \in Classification, CreateUploadIntent(w, key, e, x) PROVE IInv' /\ Kept
  <2>1. PICK checked \in BOOLEAN : EnterIf(checked, w, key, About(e, x))
    BY <1>3 DEF CreateUploadIntent
  <2>2. key.operation = "evidence.upload-intent.create"
    BY <1>3 DEF CreateUploadIntent, Scoped
  <2>3. QED
    BY <1>2, <2>1, <2>2, EnterIInv
<1>4. ASSUME NEW n \in 1 .. references, Accept(w, key, e, n) PROVE IInv' /\ Kept
  <2>1. PICK checked \in BOOLEAN :
           (checked => Known(e)) /\ EnterIf(checked, w, key, About(e, n))
    <3>1. PICK checked \in BOOLEAN :
             checked <=> Named(e, n) /\ Status(evidence[e]) \in {"VERIFIED", "ACCEPTED"}
      OBVIOUS
    <3>2. QED
      BY <1>4, <3>1 DEF Accept, Named, EnterIf
  <2>2. key.operation = "evidence.accept"
    BY <1>4 DEF Accept, Scoped
  <2>3. QED
    BY <1>1, <1>2, <2>1, <2>2, EnterIInv
<1>5. ASSUME NEW n \in 1 .. references, DeleteExpired(w, key, e, n) PROVE IInv' /\ Kept
  <2>1. PICK checked \in BOOLEAN :
           (checked => Removable(e, n)) /\ EnterIf(checked, w, key, About(e, n))
    <3>1. PICK checked \in BOOLEAN :
             checked <=> /\ Known(e) /\ evidence[e].accepted = n /\ n # 0
                         /\ evidence[e].deleted \/ RetentionOver(evidence[e])
      OBVIOUS
    <3>2. checked => Removable(e, n)
      <4>1. now \in Nat /\ evidence[e].retainedUntil \in Nat
        BY Typed DEF IInv, EvidenceRecord
      <4>2. QED
        BY <1>1, <3>1, <4>1 DEF Removable, RetentionOver
    <3>3. QED
      BY <1>5, <3>1, <3>2 DEF DeleteExpired, EnterIf
  <2>2. key.operation = "evidence.delete-expired"
    BY <1>5 DEF DeleteExpired, Scoped
  <2>3. QED
    BY <1>1, <1>2, <2>1, <2>2, EnterIInv
<1>6. QED
  BY <1>3, <1>4, <1>5 DEF Ask

-----------------------------------------------------------------------------
\* One record is rewritten, and keeps what it must.
LEMMA RecordMoves ==
    ASSUME IInv, NEW e \in Evidence, NEW r \in EvidenceRecord,
           evidence' = [evidence EXCEPT ![e] = r], now' = now,
           references' \in 0 .. MaxReference, references <= references',
           RecordOK(r, references'), Known(e) => r.reference # 0,
           evidence[e].accepted # 0 =>
              /\ r.accepted = evidence[e].accepted /\ r.digest = evidence[e].digest
              /\ r.retainedUntil = evidence[e].retainedUntil
              /\ evidence[e].deleted => r.deleted
              /\ r.deleted /\ ~ evidence[e].deleted => evidence[e].retainedUntil <= now
    PROVE  /\ EvidenceOK' /\ Later /\ Kept
           /\ evidence' \in [Evidence -> EvidenceRecord]
           /\ evidence'[e] = r /\ \A d \in Evidence \ {e} : evidence'[d] = evidence[d]
<1>1. /\ evidence' \in [Evidence -> EvidenceRecord]
      /\ evidence'[e] = r /\ \A d \in Evidence \ {e} : evidence'[d] = evidence[d]
  BY DEF IInv, TypeOK
<1>2. Kept
  BY <1>1 DEF Kept
<1>3. Later
  BY <1>1, <1>2, Typed DEF Later, Known, IInv
<1>4. EvidenceOK'
  <2> SUFFICES ASSUME NEW d \in Evidence PROVE RecordOK(evidence'[d], references')
    BY DEF EvidenceOK, RecordOK
  <2>1. CASE d = e
    BY <1>1, <2>1
  <2>2. CASE d # e
    <3>1. evidence'[d] = evidence[d] /\ RecordOK(evidence[d], references)
      BY <1>1, <2>2 DEF IInv, EvidenceOK
    <3>2. evidence[d].accepted \in Nat /\ references \in Nat /\ references' \in Nat
      BY Typed, NameAssumption DEF IInv, EvidenceRecord
    <3>3. evidence[d].accepted <= references => evidence[d].accepted <= references'
      BY <3>2
    <3>4. QED
      BY <3>1, <3>3 DEF RecordOK
  <2>3. QED
    BY <2>1, <2>2
<1>5. QED
  BY <1>1, <1>2, <1>3, <1>4

Holding(e) == evidence[e].accepted # 0 /\ ~ evidence[e].deleted
Object(e) == [reference |-> evidence[e].accepted, content |-> evidence[e].digest]

StoredAs == \A o : o \in objects <=> \E e \in Evidence : Holding(e) /\ o = Object(e)

LEMMA StoredPer == StoredWhileAccepted <=> StoredAs
<1> DEFINE S == {[reference |-> evidence[e].accepted, content |-> evidence[e].digest] :
                    e \in {x \in Evidence : evidence[x].accepted # 0 /\ ~evidence[x].deleted}}
<1>1. \A o : o \in S <=> \E e \in Evidence : Holding(e) /\ o = Object(e)
  BY DEF Holding, Object
<1>2. StoredWhileAccepted <=> objects = S
  BY DEF StoredWhileAccepted
<1>3. objects = S <=> \A o : o \in objects <=> o \in S
  OBVIOUS
<1>4. QED
  BY <1>1, <1>2, <1>3 DEF StoredAs

LEMMA StoredPerNext ==
    StoredWhileAccepted' <=>
       \A o : o \in objects' <=> \E e \in Evidence : Holding(e)' /\ o = Object(e)'
<1>1. StoredWhileAccepted' <=> StoredAs'
  BY StoredPer, PTL
<1>2. QED
  BY <1>1 DEF StoredAs

\* What is accepted, stored and deleted stays.
LEMMA ObjectsSame ==
    ASSUME IInv, NEW e \in Evidence, NEW r, evidence'[e] = r,
           \A d \in Evidence \ {e} : evidence'[d] = evidence[d],
           r.accepted = evidence[e].accepted,
           r.accepted # 0 => r.digest = evidence[e].digest /\ r.deleted = evidence[e].deleted,
           objects' = objects
    PROVE  ObjectsOwned' /\ StoredWhileAccepted'
<1>1. \A d \in Evidence :
         /\ evidence'[d].accepted = evidence[d].accepted
         /\ Holding(d)' <=> Holding(d)
         /\ Holding(d) => Object(d)' = Object(d)
  BY DEF Holding, Object
<1>2. ObjectsOwned'
  BY <1>1 DEF IInv, ObjectsOwned
<1>3. \A o : o \in objects <=> \E d \in Evidence : Holding(d) /\ o = Object(d)
  BY StoredPer DEF IInv, StoredAs
<1>4. \A o : o \in objects' <=> \E d \in Evidence : Holding(d)' /\ o = Object(d)'
  BY <1>1, <1>3
<1>5. QED
  BY <1>2, <1>4, StoredPerNext

LEMMA CallOfEffect ==
    ASSUME IInv, NEW w \in Call, At(w, "executing")
    PROVE  /\ Subject(w) \in Evidence /\ CallOK(call[w])
           /\ evidence[Subject(w)] \in EvidenceRecord
           /\ RecordOK(evidence[Subject(w)], references)
<1>1. CallOK(call[w]) /\ Subject(w) \in Evidence
  BY DEF IInv, CallsOK, CallOK, At, Subject
<1>2. QED
  BY <1>1, Typed DEF IInv, EvidenceOK

\* A call that returned.
LEMMA ReturnedMoves ==
    ASSUME IInv, Later, NEW w \in Call, NEW result \in Result \cup {NoResult},
           call' = Returned(w, result) \/ call' = Threw(w)
    PROVE  CallsOK' /\ call' \in [Call -> CallState]
<1>1. PICK place \in {"completing", "failing"}, n \in Result \cup {NoResult} :
         call' = [call EXCEPT ![w] =
            [at |-> place, key |-> call[w].key, fingerprint |-> call[w].fingerprint,
             lease |-> call[w].lease, outcome |-> "NONE", result |-> n]]
  BY DEF Returned, Threw
<1>2. PICK m : m = [at |-> place, key |-> call[w].key, fingerprint |-> call[w].fingerprint,
                    lease |-> call[w].lease, outcome |-> "NONE", result |-> n]
  OBVIOUS
<1>3. m \in CallState /\ m.at \notin {"claiming", "executing"}
  BY <1>2, EndType DEF IInv
<1>4. CallOK(m)'
  BY <1>3 DEF CallOK
<1>5. QED
  BY <1>1, <1>2, <1>3, <1>4, CallsMove

\* An effect that finds nothing to do.
LEMMA IdleEffect ==
    ASSUME IInv, NEW w \in Call, NEW result \in Result \cup {NoResult},
           call' = Returned(w, result) \/ call' = Threw(w),
           UNCHANGED <<now, records, leases>>, UNCHANGED domainVars
    PROVE  IInv' /\ Kept
<1>1. UNCHANGED <<evidence, objects, references>>
  BY DEF domainVars
<1>2. Later /\ Kept
  BY <1>1, Typed, NothingLost DEF IInv
<1>3. CallsOK' /\ call' \in [Call -> CallState]
  BY <1>2, ReturnedMoves
<1>4. TypeOK'
  BY <1>1, <1>3 DEF IInv, TypeOK, StoreTypeOK
<1>5. EvidenceOK' /\ ObjectsOwned' /\ StoredWhileAccepted'
  BY <1>1 DEF IInv, EvidenceOK, ObjectsOwned, StoredWhileAccepted
<1>6. QED
  BY <1>2, <1>3, <1>4, <1>5 DEF IInv

\* references are results
LEMMA ReferenceResult ==
    ASSUME TypeOK
    PROVE  /\ \A n \in 1 .. MaxReference : n \in Result
           /\ \A e \in Evidence :
                 /\ evidence[e].reference # 0 => evidence[e].reference \in Result
                 /\ evidence[e].accepted # 0 => evidence[e].accepted \in Result
           /\ references < MaxReference => NextReference \in 1 .. MaxReference
           /\ references \in Nat
<1>1. \A n \in 1 .. MaxReference : n \in Result
  BY NameAssumption
<1>2. \A n \in 0 .. MaxReference : n # 0 => n \in 1 .. MaxReference
  BY NameAssumption
<1>3. \A e \in Evidence :
         evidence[e].reference \in 0 .. MaxReference /\ evidence[e].accepted \in 0 .. MaxReference
  BY Typed DEF EvidenceRecord
<1>4. references < MaxReference => NextReference \in 1 .. MaxReference
  BY Typed, NameAssumption DEF NextReference
<1>5. QED
  BY <1>1, <1>2, <1>3, <1>4, Typed, NameAssumption

LEMMA CreateIInv ==
    ASSUME IInv, NEW w \in Call, PerformCreate(w)
    PROVE  IInv' /\ Kept
<1>1. /\ At(w, "executing") /\ call[w].key.operation = "evidence.upload-intent.create"
      /\ UNCHANGED <<now, records, leases>>
  BY DEF PerformCreate, Executing
<1>2. PICK e \in Evidence : e = Subject(w)
  BY <1>1, CallOfEffect
<1>3. CASE SameIntent(w)
  <2>1. evidence[e].reference \in Result
    BY <1>2, <1>3, ReferenceResult DEF SameIntent, Known, IInv
  <2>2. QED
    BY <1>1, <1>2, <1>3, <2>1, IdleEffect DEF SameIntent
<1>4. CASE NewIntent(w)
  <2>1. PICK class \in Classification : class = call[w].fingerprint.what
    BY <1>1, CallOfEffect DEF CallOK, At
  <2>2. PICK n \in 1 .. MaxReference : n = references + 1 /\ references' = n
    BY <1>4, ReferenceResult DEF NewIntent, NextReference, IInv
  <2>3. PICK t \in Nat : t = now + UploadIntentTtl
    BY Typed, PolicyAssumption DEF ValidPolicy, IInv
  <2>4. PICK r : r = [Unknown EXCEPT !.classification = class, !.reference = n, !.expiresAt = t]
    OBVIOUS
  <2>5. /\ r \in EvidenceRecord /\ r.reference = n /\ r.accepted = 0 /\ ~ r.deleted
    <3>1. n \in 0 .. MaxReference
      BY NameAssumption
    <3>2. Unknown \in EvidenceRecord /\ Unknown.accepted = 0 /\ ~ Unknown.deleted
      BY UnknownType DEF Unknown
    <3>3. QED
      BY <2>4, <3>1, <3>2 DEF EvidenceRecord
  <2>6. evidence' = [evidence EXCEPT ![e] = r] /\ objects' = objects
    BY <1>2, <1>4, <2>1, <2>2, <2>3, <2>4 DEF NewIntent
  <2>7. evidence[e].accepted = 0 /\ ~ Known(e)
    BY <1>2, <1>4 DEF NewIntent, Known, IInv, EvidenceOK, RecordOK
  <2>8. references' \in 0 .. MaxReference /\ references <= references'
    BY <2>2, ReferenceResult, NameAssumption DEF IInv
  <2>9. RecordOK(r, references')
    BY <2>5 DEF RecordOK
  <2>10. /\ EvidenceOK' /\ Later /\ Kept
         /\ evidence' \in [Evidence -> EvidenceRecord]
         /\ evidence'[e] = r /\ \A d \in Evidence \ {e} : evidence'[d] = evidence[d]
    BY <1>1, <2>5, <2>6, <2>7, <2>8, <2>9, RecordMoves
  <2>11. ObjectsOwned' /\ StoredWhileAccepted'
    BY <2>5, <2>6, <2>7, <2>10, ObjectsSame
  <2>12. CallsOK' /\ call' \in [Call -> CallState]
    <3>1. call' = Returned(w, n) /\ n \in Result
      BY <1>4, <2>2, ReferenceResult DEF NewIntent, IInv
    <3>2. QED
      BY <2>10, <3>1, ReturnedMoves
  <2>13. TypeOK'
    BY <1>1, <2>6, <2>8, <2>10, <2>12 DEF IInv, TypeOK, StoreTypeOK
  <2>14. QED
    BY <2>10, <2>11, <2>12, <2>13 DEF IInv
<1>5. QED
  BY <1>3, <1>4 DEF PerformCreate

\* What the second inspection finds of a record that is promoted.
LEMMA StillVerifiedFinds ==
    ASSUME TypeOK, NEW r \in EvidenceRecord, r.accepted = 0, StillVerified(r)
    PROVE  /\ r.upload \in Content /\ ~ r.deleted /\ Admissible(r.upload)
           /\ r.scan = [status |-> "CLEAN", digest |-> r.upload]
<1>1. ~ r.deleted /\ r.upload # NoContent /\ VerifiedBytes(r)
  BY DEF StillVerified, Status
<1>2. r.upload \in Content /\ r.scan \in Scan
  BY <1>1 DEF EvidenceRecord
<1>3. r.scan = [status |-> r.scan.status, digest |-> r.scan.digest]
  BY <1>2 DEF Scan
<1>4. QED
  BY <1>1, <1>2, <1>3 DEF VerifiedBytes

LEMMA NewAcceptanceIInv ==
    ASSUME IInv, NEW w \in Call, At(w, "executing"), NewAcceptance(w), Known(Subject(w)),
           UNCHANGED <<now, records, leases>>
    PROVE  IInv' /\ Kept
<1>1. PICK e \in Evidence : e = Subject(w)
  BY CallOfEffect
<1>2. PICK r \in EvidenceRecord : r = evidence[e]
  BY Typed DEF IInv
<1>3. PICK n \in 1 .. MaxReference : n = references + 1 /\ references' = n
  BY ReferenceResult DEF NewAcceptance, NextReference, IInv
<1>4. PICK t \in Nat : t = RetainedUntil
  BY Typed, PolicyAssumption DEF RetainedUntil, ValidPolicy, IInv
<1>5. /\ r.accepted = 0 /\ StillVerified(r)
      /\ r.upload \in Content /\ ~ r.deleted /\ Admissible(r.upload)
      /\ r.scan = [status |-> "CLEAN", digest |-> r.upload]
  BY <1>1, <1>2, StillVerifiedFinds DEF NewAcceptance, Effect, IInv
<1>6. PICK m : m = [r EXCEPT !.accepted = n, !.digest = r.upload, !.upload = NoContent,
                             !.retainedUntil = t]
  OBVIOUS
<1>7. /\ m \in EvidenceRecord /\ m.accepted = n /\ m.digest = r.upload
      /\ m.upload = NoContent /\ m.scan = r.scan /\ m.deleted = r.deleted
      /\ m.reference = r.reference
  <2>1. n \in 0 .. MaxReference
    BY NameAssumption
  <2>2. QED
    BY <1>5, <1>6, <2>1 DEF EvidenceRecord
<1> DEFINE o == [reference |-> n, content |-> r.upload]
<1>8. evidence' = [evidence EXCEPT ![e] = m] /\ objects' = objects \cup {o}
      /\ call' = Returned(w, n)
  BY <1>1, <1>2, <1>3, <1>4, <1>6 DEF NewAcceptance
<1>9. references \in Nat /\ references' \in 0 .. MaxReference /\ references <= references'
  BY <1>3, ReferenceResult, NameAssumption DEF IInv
<1>10. RecordOK(m, references')
  BY <1>1, <1>2, <1>3, <1>5, <1>7 DEF RecordOK, Known
<1>11. /\ EvidenceOK' /\ Later /\ Kept
       /\ evidence' \in [Evidence -> EvidenceRecord]
       /\ evidence'[e] = m /\ \A d \in Evidence \ {e} : evidence'[d] = evidence[d]
  BY <1>1, <1>2, <1>5, <1>7, <1>8, <1>9, <1>10, RecordMoves DEF Known
<1>12. \A d \in Evidence \ {e} : evidence[d].accepted # n
  <2> SUFFICES ASSUME NEW d \in Evidence \ {e}, evidence[d].accepted = n PROVE FALSE
    OBVIOUS
  <2>1. n # 0
    BY NameAssumption
  <2>2. n <= references
    BY <2>1 DEF IInv, EvidenceOK, RecordOK
  <2>3. QED
    BY <1>3, <1>9, <2>2
<1>13. ObjectsOwned'
  BY <1>7, <1>11, <1>12 DEF IInv, ObjectsOwned
<1>14. StoredWhileAccepted'
  <2>1. /\ Holding(e)' /\ Object(e)' = o /\ ~ Holding(e)
        /\ \A d \in Evidence \ {e} : (Holding(d)' <=> Holding(d)) /\ Object(d)' = Object(d)
    BY <1>2, <1>5, <1>7, <1>11 DEF Holding, Object
  <2>2. \A x : x \in objects <=> \E d \in Evidence : Holding(d) /\ x = Object(d)
    BY StoredPer DEF IInv, StoredAs
  <2>3. \A x : x \in objects' <=> \E d \in Evidence : Holding(d)' /\ x = Object(d)'
    BY <1>8, <2>1, <2>2
  <2>4. QED
    BY <2>3, StoredPerNext
<1>15. CallsOK' /\ call' \in [Call -> CallState]
  BY <1>8, <1>11, ReferenceResult, ReturnedMoves DEF IInv
<1>16. TypeOK'
  <2>1. o \in [reference : 1 .. MaxReference, content : Content]
    BY <1>5
  <2>2. QED
    BY <1>8, <1>9, <1>11, <1>15, <2>1 DEF IInv, TypeOK, StoreTypeOK
<1>17. QED
  BY <1>11, <1>13, <1>14, <1>15, <1>16 DEF IInv

LEMMA AcceptIInv ==
    ASSUME IInv, NEW w \in Call, PerformAccept(w)
    PROVE  IInv' /\ Kept
<1>1. /\ At(w, "executing") /\ call[w].key.operation = "evidence.accept"
      /\ UNCHANGED <<now, records, leases>>
  BY DEF PerformAccept, Executing
<1>2. Known(Subject(w)) /\ Subject(w) \in Evidence
  BY <1>1, CallOfEffect DEF CallOK, At, Subject
<1>3. CASE SameAcceptance(w)
  <2>1. evidence[Subject(w)].accepted \in Result
    BY <1>2, <1>3, ReferenceResult DEF SameAcceptance, Effect, IInv
  <2>2. QED
    BY <1>1, <1>3, <2>1, IdleEffect DEF SameAcceptance
<1>4. CASE VerificationChanged(w)
  BY <1>1, <1>4, IdleEffect DEF VerificationChanged
<1>5. QED
  BY <1>1, <1>2, <1>3, <1>4, NewAcceptanceIInv DEF PerformAccept

LEMMA DeleteIInv ==
    ASSUME IInv, NEW w \in Call, PerformDelete(w)
    PROVE  IInv' /\ Kept
<1>1. /\ At(w, "executing") /\ call[w].key.operation = "evidence.delete-expired"
      /\ UNCHANGED <<now, records, leases, references>>
  BY DEF PerformDelete, Executing
<1>2. PICK e \in Evidence : e = Subject(w)
  BY <1>1, CallOfEffect
<1>3. PICK n \in 1 .. MaxReference : n = call[w].fingerprint.what /\ Removable(e, n)
  BY <1>1, <1>2, CallOfEffect DEF CallOK, At, Subject, Removable
<1>4. call' = Returned(w, n) /\ n \in Result
  BY <1>3, ReferenceResult DEF PerformDelete, IInv
<1>5. PICK r \in EvidenceRecord : r = evidence[e]
  BY Typed DEF IInv
<1>6. r.accepted = n /\ n # 0
  BY <1>3, <1>5, NameAssumption DEF Removable
<1>7. CASE r.deleted
  <2>1. UNCHANGED domainVars
    BY <1>1, <1>2, <1>5, <1>7 DEF PerformDelete, domainVars
  <2>2. QED
    BY <1>1, <1>4, <2>1, IdleEffect
<1>8. CASE ~ r.deleted
  <2>1. PICK m : m = [r EXCEPT !.deleted = TRUE]
    OBVIOUS
  <2>2. /\ m \in EvidenceRecord /\ m.deleted /\ m.accepted = r.accepted
        /\ m.digest = r.digest /\ m.retainedUntil = r.retainedUntil
        /\ m.reference = r.reference /\ m.upload = r.upload /\ m.scan = r.scan
    BY <2>1 DEF EvidenceRecord
  <2>3. evidence' = [evidence EXCEPT ![e] = m] /\ objects' = {o \in objects : o.reference # n}
    BY <1>2, <1>3, <1>5, <1>8, <2>1 DEF PerformDelete, ObjectsWithout
  <2>4. references' \in 0 .. MaxReference /\ references <= references'
    BY <1>1, ReferenceResult, Typed DEF IInv
  <2>5. RecordOK(m, references')
    BY <1>1, <1>5, <1>6, <2>2 DEF IInv, EvidenceOK, RecordOK
  <2>6. evidence[e].retainedUntil <= now
    BY <1>3, <1>5, <1>8 DEF Removable
  <2>7. /\ EvidenceOK' /\ Later /\ Kept
        /\ evidence' \in [Evidence -> EvidenceRecord]
        /\ evidence'[e] = m /\ \A d \in Evidence \ {e} : evidence'[d] = evidence[d]
    BY <1>1, <1>5, <2>2, <2>3, <2>4, <2>5, <2>6, RecordMoves DEF Known
  <2>8. ObjectsOwned'
    BY <1>5, <2>2, <2>7 DEF IInv, ObjectsOwned
  <2>9. StoredWhileAccepted'
    <3>1. /\ ~ Holding(e)' /\ Object(e).reference = n
          /\ \A d \in Evidence \ {e} :
                /\ Holding(d)' <=> Holding(d)
                /\ Object(d)' = Object(d)
                /\ Object(d).reference # n
      BY <1>5, <1>6, <2>2, <2>7 DEF Holding, Object, IInv, ObjectsOwned
    <3>2. \A o : o \in objects <=> \E d \in Evidence : Holding(d) /\ o = Object(d)
      BY StoredPer DEF IInv, StoredAs
    <3>3. \A o : o \in objects' <=> \E d \in Evidence : Holding(d)' /\ o = Object(d)'
      BY <2>3, <3>1, <3>2
    <3>4. QED
      BY <3>3, StoredPerNext
  <2>10. CallsOK' /\ call' \in [Call -> CallState]
    BY <1>4, <2>7, ReturnedMoves
  <2>11. TypeOK'
    BY <1>1, <2>3, <2>7, <2>10 DEF IInv, TypeOK, StoreTypeOK
  <2>12. QED
    BY <2>7, <2>8, <2>9, <2>10, <2>11 DEF IInv
<1>9. QED
  BY <1>7, <1>8

-----------------------------------------------------------------------------
\* Uploads and scans meet records that are not accepted yet.
LEMMA OutsideIInv ==
    ASSUME IInv, NEW e \in Evidence, NEW m \in EvidenceRecord,
           evidence' = [evidence EXCEPT ![e] = m], evidence[e].accepted = 0,
           m.accepted = 0, m.deleted = evidence[e].deleted,
           m.reference = evidence[e].reference,
           UNCHANGED <<now, records, leases, call, objects, references>>
    PROVE  IInv' /\ Kept
<1>1. references' \in 0 .. MaxReference /\ references <= references'
  BY ReferenceResult, Typed DEF IInv
<1>2. RecordOK(m, references')
  BY DEF IInv, EvidenceOK, RecordOK
<1>3. /\ EvidenceOK' /\ Later /\ Kept
      /\ evidence' \in [Evidence -> EvidenceRecord]
      /\ evidence'[e] = m /\ \A d \in Evidence \ {e} : evidence'[d] = evidence[d]
  BY <1>1, <1>2, RecordMoves DEF Known
<1>4. ObjectsOwned' /\ StoredWhileAccepted'
  BY <1>3, ObjectsSame
<1>5. CallsOK'
  <2> SUFFICES ASSUME NEW c \in Call PROVE CallOK(call[c])'
    BY DEF CallsOK
  <2>1. PICK d : d = call[c]
    OBVIOUS
  <2>2. CallOK(d)'
    BY <1>3, <2>1, CallStays DEF IInv, CallsOK
  <2>3. QED
    BY <2>1, <2>2 DEF CallOK, Known, Removable
<1>6. TypeOK'
  BY <1>3 DEF IInv, TypeOK, StoreTypeOK
<1>7. QED
  BY <1>3, <1>4, <1>5, <1>6 DEF IInv

LEMMA UploadIInv ==
    ASSUME IInv, NEW e \in Evidence, NEW content \in Content, UploadToQuarantine(e, content)
    PROVE  IInv' /\ Kept
<1>1. PICK r \in EvidenceRecord : r = evidence[e]
  BY Typed DEF IInv
<1>2. PICK m : m = [r EXCEPT !.upload = content]
  OBVIOUS
<1>3. /\ m \in EvidenceRecord /\ m.accepted = r.accepted /\ m.deleted = r.deleted
      /\ m.reference = r.reference
  BY <1>2 DEF EvidenceRecord
<1>4. /\ r.accepted = 0 /\ evidence' = [evidence EXCEPT ![e] = m]
      /\ UNCHANGED <<now, records, leases, call, objects, references>>
  BY <1>1, <1>2 DEF UploadToQuarantine, storeVars
<1>5. QED
  BY <1>1, <1>3, <1>4, OutsideIInv

LEMMA ScanIInv ==
    ASSUME IInv, NEW e \in Evidence, NEW scan \in Scan, RecordScanResult(e, scan)
    PROVE  IInv' /\ Kept
<1>1. PICK r \in EvidenceRecord : r = evidence[e]
  BY Typed DEF IInv
<1>2. PICK m : m = [r EXCEPT !.scan = scan]
  OBVIOUS
<1>3. /\ m \in EvidenceRecord /\ m.accepted = r.accepted /\ m.deleted = r.deleted
      /\ m.reference = r.reference
  BY <1>2 DEF EvidenceRecord
<1>4. /\ evidence' = [evidence EXCEPT ![e] = m]
      /\ UNCHANGED <<now, records, leases, call, objects, references>>
  BY <1>1, <1>2 DEF RecordScanResult, storeVars
<1>5. r.accepted = 0
  BY <1>1 DEF RecordScanResult, IInv, EvidenceOK, RecordOK
<1>6. QED
  BY <1>1, <1>3, <1>4, <1>5, OutsideIInv

LEMMA StoreIInv ==
    ASSUME IInv, StoreNext, UNCHANGED domainVars
    PROVE  IInv' /\ Kept
<1>1. CASE Tick
  <2>1. now' \in 0 .. MaxTime /\ now <= now' /\ UNCHANGED <<records, leases, call>>
    BY <1>1, Typed, RetentionAssumption DEF Tick, IInv
  <2>2. QED
    BY <2>1, TickIInv
<1>2. ASSUME NEW w \in Call, Claim(w) PROVE IInv' /\ Kept
  BY <1>2, GrantedIInv, NotGrantedIInv DEF Claim
<1>3. QED
  BY <1>1, <1>2, RecordedIInv, BrokenIInv DEF StoreNext

LEMMA NextIInv == IInv /\ [Next]_vars => IInv' /\ Kept
<1> SUFFICES ASSUME IInv, [Next]_vars PROVE IInv' /\ Kept
  OBVIOUS
<1>1. CASE UNCHANGED vars
  <2>1. now' \in 0 .. MaxTime /\ now <= now'
    BY <1>1, Typed DEF vars, IInv, TypeOK, StoreTypeOK
  <2>2. QED
    BY <1>1, <2>1, TickIInv DEF vars, domainVars
<1>2. QED
  BY <1>1, AskIInv, CreateIInv, AcceptIInv, DeleteIInv, UploadIInv, ScanIInv, StoreIInv DEF Next

LEMMA Invariance == Spec => []IInv
BY InitIInv, NextIInv, PTL DEF Spec

\* Records, objects, claims and calls keep their types.
THEOREM EvidenceTypes == Spec => []TypeOK
<1>1. IInv => TypeOK
  BY DEF IInv
<1>2. QED
  BY <1>1, Invariance, PTL

\* Whatever scan results arrive while an acceptance is under way: what is promoted
\* is what a scan found clean, and it is admitted by the policy.
THEOREM PromotedIsClean == Spec => []AcceptedIsClean
<1>1. IInv => AcceptedIsClean
  BY DEF IInv, EvidenceOK, RecordOK, AcceptedIsClean
<1>2. QED
  BY <1>1, Invariance, PTL

\* However many acceptances and deletions of one evidence run at once: an object is
\* stored exactly while its evidence is accepted and not deleted.
THEOREM ObjectsMatchRecords == Spec => []StoredWhileAccepted
<1>1. IInv => StoredWhileAccepted
  BY DEF IInv
<1>2. QED
  BY <1>1, Invariance, PTL

\* What is accepted stays as it is, and is deleted only after its retention, also by
\* a deletion that was checked before it was claimed.
THEOREM RetentionIsKept == Spec => KeptUntilExpiry
<1>1. Kept => [\A e \in Evidence : evidence[e].accepted # 0 =>
          /\ evidence'[e].accepted = evidence[e].accepted
          /\ evidence'[e].digest = evidence[e].digest
          /\ evidence'[e].retainedUntil = evidence[e].retainedUntil
          /\ evidence[e].deleted => evidence'[e].deleted
          /\ evidence'[e].deleted /\ ~evidence[e].deleted => evidence[e].retainedUntil <= now]_vars
  BY DEF Kept
<1>2. QED
  BY <1>1, NextIInv, Invariance, PTL DEF Spec, KeptUntilExpiry

-----------------------------------------------------------------------------
\* The object that a fingerprint's evidence was promoted to.
Promoted(p, n) == p.evidence \in Evidence /\ n # 0 /\ evidence[p.evidence].accepted = n

\* What an acceptance returned, or was answered, and what the store keeps for its key.
AcceptKey(k) == k \in Key /\ k.operation = "evidence.accept"

CallAgrees(m) ==
    AcceptKey(m.key) /\ (m.at = "completing" \/ m.outcome = "OK") =>
       Promoted(m.fingerprint, m.result)

RecordAgrees(k, r) ==
    AcceptKey(k) /\ r.state = "COMPLETED" => Promoted(r.fingerprint, r.result)

Agreed ==
    /\ \A c \in Call : CallAgrees(call[c])
    /\ \A k \in Key : RecordAgrees(k, records[k])

\* What a step does to the calls and to the store: one call moves at most, and it fails
\* only on evidence that is not accepted.
Moving(w, m) ==
    /\ call' = [call EXCEPT ![w] = m]
    /\ m.at = "failing" => evidence[Subject(w)].accepted = 0

LEMMA PromotedStays ==
    ASSUME Kept, NEW p, NEW n, Promoted(p, n)
    PROVE  Promoted(p, n)'
BY DEF Kept, Promoted

LEMMA AgreedStays ==
    ASSUME Kept, Agreed
    PROVE  /\ \A c \in Call : CallAgrees(call[c]) /\ (call'[c] = call[c] => CallAgrees(call[c])')
           /\ \A k \in Key : records'[k] = records[k] => RecordAgrees(k, records[k])'
<1>1. ASSUME NEW c \in Call, call'[c] = call[c] PROVE CallAgrees(call[c])'
  <2>1. PICK m : m = call[c]
    OBVIOUS
  <2>2. CallAgrees(m)
    BY <2>1 DEF Agreed
  <2>3. CallAgrees(m)'
    BY <2>2, PromotedStays DEF CallAgrees, AcceptKey
  <2>4. QED
    BY <1>1, <2>1, <2>3 DEF CallAgrees, AcceptKey, Promoted
<1>2. ASSUME NEW k \in Key, records'[k] = records[k] PROVE RecordAgrees(k, records[k])'
  <2>1. PICK r : r = records[k]
    OBVIOUS
  <2>2. RecordAgrees(k, r)
    BY <2>1 DEF Agreed
  <2>3. RecordAgrees(k, r)'
    BY <2>2, PromotedStays DEF RecordAgrees, AcceptKey
  <2>4. QED
    BY <1>2, <2>1, <2>3 DEF RecordAgrees, AcceptKey, Promoted
<1>3. QED
  BY <1>1, <1>2 DEF Agreed

\* A call that moves to a place where it agrees.
LEMMA AgreedMoves ==
    ASSUME IInv, Kept, Agreed, NEW w \in Call, NEW m, call' = [call EXCEPT ![w] = m],
           CallAgrees(m)', records' = records
    PROVE  Agreed'
<1>1. call'[w] = m /\ \A c \in Call \ {w} : call'[c] = call[c]
  BY DEF IInv, TypeOK, StoreTypeOK
<1>2. ASSUME NEW c \in Call PROVE CallAgrees(call[c])'
  <2>1. CASE c = w
    BY <1>1, <2>1 DEF CallAgrees, AcceptKey, Promoted
  <2>2. CASE c # w
    BY <1>1, <2>2, AgreedStays
  <2>3. QED
    BY <2>1, <2>2
<1>3. QED
  BY <1>2, AgreedStays DEF Agreed

\* A claim or an outcome is recorded as the call moves.
LEMMA AgreedRecords ==
    ASSUME IInv, Kept, Agreed, NEW w \in Call, NEW m, call' = [call EXCEPT ![w] = m],
           CallAgrees(m)', NEW k, NEW r, records' = [records EXCEPT ![k] = r],
           RecordAgrees(k, r)'
    PROVE  Agreed'
<1>1. call'[w] = m /\ \A c \in Call \ {w} : call'[c] = call[c]
  BY DEF IInv, TypeOK, StoreTypeOK
<1>2. ASSUME NEW c \in Call PROVE CallAgrees(call[c])'
  <2>1. CASE c = w
    BY <1>1, <2>1 DEF CallAgrees, AcceptKey, Promoted
  <2>2. CASE c # w
    BY <1>1, <2>2, AgreedStays
  <2>3. QED
    BY <2>1, <2>2
<1>3. ASSUME NEW h \in Key PROVE RecordAgrees(h, records[h])'
  <2>1. CASE h = k
    <3>1. records'[h] = r
      BY <2>1 DEF IInv, TypeOK, StoreTypeOK
    <3>2. QED
      BY <2>1, <3>1 DEF RecordAgrees, AcceptKey, Promoted
  <2>2. CASE h # k
    <3>1. records'[h] = records[h]
      BY <2>2 DEF IInv, TypeOK, StoreTypeOK
    <3>2. QED
      BY <3>1, AgreedStays
  <2>3. QED
    BY <2>1, <2>2
<1>4. QED
  BY <1>2, <1>3 DEF Agreed

\* A call that ends with an outcome: with OK only for what its evidence was promoted to.
LEMMA AgreedAnswer ==
    ASSUME NEW w \in Call, NEW outcome, NEW result, call' = Answered(w, outcome, result),
           NEW p, p = call[w].fingerprint,
           outcome = "OK" /\ AcceptKey(call[w].key) => Promoted(p, result)'
    PROVE  \E m : Moving(w, m) /\ CallAgrees(m)'
<1>1. PICK m : m = [at |-> "done", key |-> call[w].key, fingerprint |-> call[w].fingerprint,
                    lease |-> call[w].lease, outcome |-> outcome, result |-> result]
  OBVIOUS
<1>2. Moving(w, m)
  BY <1>1 DEF Moving, Answered
<1>3. CallAgrees(m)'
  BY <1>1 DEF CallAgrees, AcceptKey, Promoted
<1>4. QED
  BY <1>2, <1>3

\* An effect that returned.
LEMMA AgreedReturn ==
    ASSUME NEW w \in Call, NEW result, call' = Returned(w, result),
           NEW p, p = call[w].fingerprint,
           AcceptKey(call[w].key) => Promoted(p, result)'
    PROVE  \E m : Moving(w, m) /\ CallAgrees(m)'
<1>1. PICK m : m = [at |-> "completing", key |-> call[w].key,
                    fingerprint |-> call[w].fingerprint, lease |-> call[w].lease,
                    outcome |-> "NONE", result |-> result]
  OBVIOUS
<1>2. Moving(w, m)
  BY <1>1 DEF Moving, Returned
<1>3. CallAgrees(m)'
  BY <1>1 DEF CallAgrees, AcceptKey, Promoted
<1>4. QED
  BY <1>2, <1>3

LEMMA AskAgrees ==
    ASSUME NEW w \in Call, NEW key \in Key, NEW e \in Evidence, Ask(w, key, e)
    PROVE  records' = records /\ \E m : Moving(w, m) /\ CallAgrees(m)'
<1>1. PICK checked, payload : EnterIf(checked, w, key, payload)
  BY DEF Ask, CreateUploadIntent, Accept, DeleteExpired
<1>2. CASE Enter(w, key, payload)
  <2>1. PICK m : m = [at |-> "claiming", key |-> key, fingerprint |-> payload, lease |-> 0,
                      outcome |-> "NONE", result |-> NoResult]
    OBVIOUS
  <2>2. Moving(w, m) /\ CallAgrees(m)' /\ records' = records
    BY <1>2, <2>1 DEF Enter, Moving, CallAgrees, AcceptKey, Promoted
  <2>3. QED
    BY <2>2
<1>3. CASE Refuse(w)
  <2>1. call' = Answered(w, "ERROR", NoResult) /\ records' = records
    BY <1>3 DEF Refuse
  <2>2. QED
    BY <2>1, AgreedAnswer
<1>4. QED
  BY <1>1, <1>2, <1>3 DEF EnterIf

\* Announcing and deleting are no acceptances.
LEMMA OthersAgree ==
    ASSUME NEW w \in Call, PerformCreate(w) \/ PerformDelete(w)
    PROVE  records' = records /\ \E m : Moving(w, m) /\ CallAgrees(m)'
<1>1. records' = records /\ ~ AcceptKey(call[w].key)
  BY DEF PerformCreate, PerformDelete, Executing, AcceptKey
<1>2. PICK result : call' = Returned(w, result)
  BY DEF PerformCreate, PerformDelete, SameIntent, NewIntent
<1>3. QED
  BY <1>1, <1>2, AgreedReturn

LEMMA AcceptAgrees ==
    ASSUME IInv, NEW w \in Call, PerformAccept(w)
    PROVE  records' = records /\ \E m : Moving(w, m) /\ CallAgrees(m)'
<1>1. At(w, "executing") /\ records' = records
  BY DEF PerformAccept, Executing
<1> PICK p : p = call[w].fingerprint
  OBVIOUS
<1>2. PICK e \in Evidence : e = Subject(w) /\ e = p.evidence /\ p = call[w].fingerprint
  BY <1>1, CallOfEffect DEF Subject
<1>3. CASE SameAcceptance(w)
  <2>1. PICK n : n = evidence[e].accepted
    OBVIOUS
  <2>2. n # 0 /\ evidence' = evidence /\ call' = Returned(w, n)
    BY <1>2, <1>3, <2>1 DEF SameAcceptance, Effect, domainVars
  <2>3. Promoted(p, n)'
    BY <1>2, <2>1, <2>2 DEF Promoted
  <2>4. QED
    BY <1>1, <1>2, <2>2, <2>3, AgreedReturn
<1>4. CASE NewAcceptance(w)
  <2>1. PICK n : n = references + 1
    OBVIOUS
  <2>2. n # 0 /\ call' = Returned(w, n)
    BY <1>4, <2>1, ReferenceResult DEF NewAcceptance, NextReference, IInv
  <2>3. evidence'[e].accepted = n
    <3>1. PICK r \in EvidenceRecord : r = evidence[e]
      BY Typed DEF IInv
    <3>2. evidence' = [evidence EXCEPT ![e] =
             [r EXCEPT !.accepted = n, !.digest = r.upload, !.upload = NoContent,
                       !.retainedUntil = RetainedUntil]]
      BY <1>2, <1>4, <2>1, <3>1 DEF NewAcceptance, NextReference
    <3>3. QED
      BY <3>2 DEF EvidenceRecord, IInv, TypeOK
  <2>4. Promoted(p, n)'
    BY <1>2, <2>2, <2>3 DEF Promoted
  <2>5. QED
    BY <1>1, <1>2, <2>2, <2>4, AgreedReturn
<1>5. CASE VerificationChanged(w)
  <2>1. PICK m : m = [at |-> "failing", key |-> call[w].key,
                      fingerprint |-> call[w].fingerprint, lease |-> call[w].lease,
                      outcome |-> "NONE", result |-> NoResult]
    OBVIOUS
  <2>2. evidence[Subject(w)].accepted = 0
    BY <1>5 DEF VerificationChanged, Effect
  <2>3. Moving(w, m) /\ CallAgrees(m)'
    BY <1>5, <2>1, <2>2 DEF VerificationChanged, Threw, Moving, CallAgrees, AcceptKey, Promoted
  <2>4. QED
    BY <1>1, <2>3
<1>6. QED
  BY <1>3, <1>4, <1>5 DEF PerformAccept

\* A claim is granted, and its key keeps no result; or it is answered with what the key
\* keeps for the same fingerprint.
LEMMA ClaimAgrees ==
    ASSUME IInv, Agreed, Kept, NEW w \in Call, Claim(w)
    PROVE  Agreed' /\ \E m : Moving(w, m)
<1>1. CASE Granted(w)
  <2>1. PICK m : m = [at |-> "executing", key |-> call[w].key,
                      fingerprint |-> call[w].fingerprint, lease |-> leases + 1,
                      outcome |-> "NONE", result |-> NoResult]
    OBVIOUS
  <2>2. PICK k, r :
           /\ k = call[w].key
           /\ r = [state |-> "PENDING", fingerprint |-> call[w].fingerprint,
                   lease |-> leases + 1, result |-> NoResult, expiresAt |-> 0]
    OBVIOUS
  <2>3. Moving(w, m) /\ CallAgrees(m)'
    BY <1>1, <2>1 DEF Granted, Moving, CallAgrees, AcceptKey, Promoted
  <2>4. RecordAgrees(k, r)'
    BY <2>2 DEF RecordAgrees
  <2>5. records' = [records EXCEPT ![k] = r]
    BY <1>1, <2>2 DEF Granted
  <2>6. QED
    BY <2>3, <2>4, <2>5, AgreedRecords DEF Moving
<1>2. CASE NotGranted(w)
  <2>1. PICK k \in Key : k = call[w].key
    BY DEF Claim, IInv, CallsOK, CallOK, At
  <2>2. PICK r \in Record : r = records[k]
    BY Typed DEF IInv
  <2>3. PICK outcome, result :
           /\ outcome = OutcomeOf(r, call[w].fingerprint)
           /\ result = IF outcome = "OK" THEN r.result ELSE NoResult
    OBVIOUS
  <2>4. call' = Answered(w, outcome, result) /\ records' = records /\ ~ Claimable(r)
    BY <1>2, <2>1, <2>2, <2>3 DEF NotGranted
  <2>5. outcome = "OK" =>
           r.fingerprint = call[w].fingerprint /\ r.state = "COMPLETED" /\ result = r.result
    BY <2>2, <2>3, <2>4 DEF OutcomeOf, Claimable, Record
  <2>6. RecordAgrees(k, r)
    BY <2>1, <2>2 DEF Agreed
  <2>7. outcome = "OK" /\ AcceptKey(call[w].key) => Promoted(call[w].fingerprint, result)
    BY <2>1, <2>5, <2>6 DEF RecordAgrees
  <2>8. PICK p : p = call[w].fingerprint
    OBVIOUS
  <2>9. outcome = "OK" /\ AcceptKey(call[w].key) => Promoted(p, result)'
    BY <2>7, <2>8, PromotedStays
  <2>10. PICK m : Moving(w, m) /\ CallAgrees(m)'
    BY <2>4, <2>8, <2>9, AgreedAnswer
  <2>11. QED
    BY <2>4, <2>10, AgreedMoves DEF Moving
<1>3. QED
  BY <1>1, <1>2 DEF Claim

\* A result is recorded as the call got it, and a failure as none.
LEMMA RecordingAgrees ==
    ASSUME IInv, Agreed, Kept, NEW w \in Call, Complete(w) \/ RequireRecovery(w) \/ Broken(w)
    PROVE  Agreed' /\ \E m : Moving(w, m)
<1>1. CASE Complete(w)
  <2>1. PICK p, n : p = call[w].fingerprint /\ n = call[w].result
    OBVIOUS
  <2>2. AcceptKey(call[w].key) => Promoted(p, n)
    BY <1>1, <2>1 DEF Complete, At, Agreed, CallAgrees
  <2>3. AcceptKey(call[w].key) => Promoted(p, n)'
    BY <2>2, PromotedStays
  <2>4. PICK m : Moving(w, m) /\ CallAgrees(m)'
    <3>1. call' = Answered(w, "OK", n)
      BY <1>1, <2>1 DEF Complete
    <3>2. QED
      BY <2>1, <2>3, <3>1, AgreedAnswer
  <2>5. PICK k, r : k = call[w].key /\ r = CompletedRecord(w)
    OBVIOUS
  <2>6. RecordAgrees(k, r)'
    <3>1. r.fingerprint = p /\ r.result = n
      BY <2>1, <2>5 DEF CompletedRecord
    <3>2. QED
      BY <2>3, <2>5, <3>1 DEF RecordAgrees, AcceptKey, Promoted
  <2>7. records' = [records EXCEPT ![k] = r]
    BY <1>1, <2>5 DEF Complete
  <2>8. QED
    BY <2>4, <2>6, <2>7, AgreedRecords DEF Moving
<1>2. CASE RequireRecovery(w)
  <2>1. PICK m : Moving(w, m) /\ CallAgrees(m)'
    BY <1>2, AgreedAnswer DEF RequireRecovery
  <2>2. PICK k, r : k = call[w].key /\ r = FailedRecord(w)
    OBVIOUS
  <2>3. RecordAgrees(k, r)'
    BY <2>2 DEF RecordAgrees, FailedRecord
  <2>4. records' = [records EXCEPT ![k] = r]
    BY <1>2, <2>2 DEF RequireRecovery
  <2>5. QED
    BY <2>1, <2>3, <2>4, AgreedRecords DEF Moving
<1>3. CASE Broken(w)
  <2>1. PICK m : Moving(w, m) /\ CallAgrees(m)'
    BY <1>3, AgreedAnswer DEF Broken
  <2>2. records' = records
    BY <1>3 DEF Broken
  <2>3. QED
    BY <2>1, <2>2, AgreedMoves DEF Moving
<1>4. QED
  BY <1>1, <1>2, <1>3

LEMMA AgreedNext ==
    ASSUME IInv, Agreed, [Next]_vars
    PROVE  Agreed' /\ (call' = call \/ \E w \in Call : \E m : Moving(w, m))
<1>1. Kept
  BY NextIInv
<1>2. CASE call' = call /\ records' = records
  BY <1>1, <1>2, AgreedStays DEF Agreed
<1>3. ASSUME NEW w \in Call, records' = records, NEW m, Moving(w, m), CallAgrees(m)'
      PROVE Agreed' /\ (call' = call \/ \E v \in Call : \E n : Moving(v, n))
  BY <1>1, <1>3, AgreedMoves DEF Moving
<1>4. CASE StoreNext
  <2>1. Tick => call' = call /\ records' = records
    BY DEF Tick
  <2>2. QED
    BY <1>1, <1>2, <1>4, <2>1, ClaimAgrees, RecordingAgrees DEF StoreNext
<1>5. ASSUME NEW w \in Call, PerformCreate(w) \/ PerformAccept(w) \/ PerformDelete(w)
      PROVE Agreed' /\ (call' = call \/ \E v \in Call : \E n : Moving(v, n))
  BY <1>3, <1>5, OthersAgree, AcceptAgrees
<1>6. ASSUME NEW e \in Evidence, NEW x,
             UploadToQuarantine(e, x) \/ RecordScanResult(e, x) \/ UNCHANGED vars
      PROVE call' = call /\ records' = records
  BY <1>6 DEF UploadToQuarantine, RecordScanResult, storeVars, vars
<1>7. ASSUME NEW w \in Call, NEW key \in Key, NEW e \in Evidence, Ask(w, key, e)
      PROVE Agreed' /\ (call' = call \/ \E v \in Call : \E n : Moving(v, n))
  BY <1>3, <1>7, AskAgrees
<1>8. CASE UNCHANGED vars
  BY <1>2, <1>8 DEF vars
<1>9. QED
  BY <1>2, <1>4, <1>5, <1>6, <1>7, <1>8 DEF Next

LEMMA AgreedInit == Init => Agreed
<1> SUFFICES ASSUME Init PROVE Agreed
  OBVIOUS
<1>1. \A c \in Call : call[c].at = "idle" /\ call[c].outcome = "NONE"
  BY DEF Init, StoreInit
<1>2. \A k \in Key : records[k].state = "FREE"
  BY DEF Init, StoreInit, NoRecord
<1>3. QED
  BY <1>1, <1>2 DEF Agreed, CallAgrees, RecordAgrees

LEMMA Agreement == Spec => [](IInv /\ Agreed)
<1>1. IInv /\ Agreed /\ [Next]_vars => Agreed'
  BY AgreedNext
<1>2. QED
  BY <1>1, AgreedInit, Invariance, PTL DEF Spec

LEMMA AgreedSteps ==
    ASSUME IInv, Agreed, IInv', Agreed', [Next]_vars, NEW c \in Call, Accepts(c)'
    PROVE  /\ AnsweredWithObject(c)'
           /\ At(c, "executing") /\ At(c, "failing")' => evidence[Subject(c)].accepted = 0
<1>1. PICK m \in CallState : m = call'[c]
  BY DEF IInv, TypeOK, StoreTypeOK
<1>2. AcceptKey(m.key)
  BY <1>1 DEF Accepts, CallState, AcceptKey
<1>3. m.outcome = "OK" => Promoted(m.fingerprint, m.result)'
  BY <1>1, <1>2 DEF Agreed, CallAgrees, AcceptKey, Promoted
<1>4. AnsweredWithObject(c)'
  BY <1>1, <1>3 DEF AnsweredWithObject, Promoted, Subject
<1>5. ASSUME At(c, "executing"), At(c, "failing")' PROVE evidence[Subject(c)].accepted = 0
  <2>1. call'[c] # call[c]
    BY <1>5 DEF At
  <2>2. PICK w \in Call : \E n : Moving(w, n)
    BY <2>1, AgreedNext
  <2>3. PICK n : Moving(w, n)
    BY <2>2
  <2>4. w = c /\ n = call'[c]
    BY <2>1, <2>3 DEF Moving, IInv, TypeOK, StoreTypeOK
  <2>5. QED
    BY <1>5, <2>3, <2>4 DEF Moving, At
<1>6. QED
  BY <1>4, <1>5

\* However many acceptances of one evidence are checked, claimed, raced, repeated and
\* replayed: every answer is the one object it was promoted to, and none fails on the
\* upload that another has cleared.
THEOREM AcceptancesAlwaysAgree == Spec => AcceptancesAgree
<1>1. IInv /\ Agreed /\ IInv' /\ Agreed' /\ [Next]_vars =>
         [\A c \in Call : Accepts(c)' =>
             /\ AnsweredWithObject(c)'
             /\ At(c, "executing") /\ At(c, "failing")' =>
                   evidence[Subject(c)].accepted = 0]_vars
  BY AgreedSteps
<1>2. QED
  BY <1>1, Agreement, PTL DEF Spec, AcceptancesAgree

-----------------------------------------------------------------------------
\* What the vault shows of one record.
StageOf(r) ==
    CASE r.reference = 0 -> "UNKNOWN"
      [] r.reference # 0 /\ r.accepted = 0 -> "ANNOUNCED"
      [] r.reference # 0 /\ r.accepted # 0 /\ ~r.deleted -> "ACCEPTED"
      [] OTHER -> "DELETED"
UntilOf(r) == IF r.accepted = 0 THEN r.expiresAt ELSE r.retainedUntil
QuarantineOf(r) == {r.upload} \ {NoContent}
CleanOf(r) == IF r.scan.status = "CLEAN" THEN {r.scan.digest} ELSE {}
PrivateOf(r) == IF r.accepted # 0 /\ ~r.deleted THEN {r.digest} ELSE {}

\* Every part of the vault is read off the records, one evidence at a time.
Viewed ==
    /\ Stage = [e \in Evidence |-> StageOf(evidence[e])]
    /\ Until = [e \in Evidence |-> UntilOf(evidence[e])]
    /\ Quarantine = [e \in Evidence |-> QuarantineOf(evidence[e])]
    /\ Clean = [e \in Evidence |-> CleanOf(evidence[e])]
    /\ Private = [e \in Evidence |-> PrivateOf(evidence[e])]

LEMMA PrivateViewed ==
    ASSUME IInv, NEW e \in Evidence
    PROVE  Private[e] = PrivateOf(evidence[e])
<1>1. PICK r \in EvidenceRecord : r = evidence[e]
  BY Typed DEF IInv
<1>2. Private[e] = {o.content : o \in {x \in objects : x.reference = r.accepted}}
  BY <1>1 DEF Private
<1>3. \A o : o \in objects <=> \E d \in Evidence : Holding(d) /\ o = Object(d)
  BY StoredPer DEF IInv, StoredAs
<1>4. CASE r.accepted # 0 /\ ~ r.deleted
  <2>1. \A o : o \in objects /\ o.reference = r.accepted <=> o = Object(e)
    <3>1. \A d \in Evidence : Object(d).reference = r.accepted => d = e
      BY <1>1, <1>4 DEF Object, IInv, ObjectsOwned
    <3>2. Holding(e) /\ Object(e).reference = r.accepted
      BY <1>1, <1>4 DEF Holding, Object
    <3>3. QED
      BY <1>3, <3>1, <3>2
  <2>2. {x \in objects : x.reference = r.accepted} = {Object(e)}
    BY <2>1
  <2>3. Private[e] = {Object(e).content}
    BY <1>2, <2>2
  <2>4. QED
    BY <1>1, <1>4, <2>3 DEF Object, PrivateOf
<1>5. CASE ~ (r.accepted # 0 /\ ~ r.deleted)
  <2>1. \A d \in Evidence : Holding(d) => Object(d).reference # r.accepted
    BY <1>1, <1>5 DEF Holding, Object, IInv, ObjectsOwned
  <2>2. {x \in objects : x.reference = r.accepted} = {}
    BY <1>3, <2>1
  <2>3. QED
    BY <1>1, <1>2, <1>5, <2>2 DEF PrivateOf
<1>6. QED
  BY <1>4, <1>5

LEMMA Views == IInv => Viewed
<1> SUFFICES ASSUME IInv PROVE Viewed
  OBVIOUS
<1>1. Stage = [e \in Evidence |-> StageOf(evidence[e])]
  BY DEF Stage, StageOf, Known
<1>2. Until = [e \in Evidence |-> UntilOf(evidence[e])]
  BY DEF Until, UntilOf
<1>3. Quarantine = [e \in Evidence |-> QuarantineOf(evidence[e])]
  BY DEF Quarantine, QuarantineOf
<1>4. Clean = [e \in Evidence |-> CleanOf(evidence[e])]
  BY DEF Clean, CleanOf
<1>5. Private = [e \in Evidence |-> PrivateOf(evidence[e])]
  <2>1. Private = [e \in Evidence |-> Private[e]]
    BY DEF Private
  <2>2. QED
    BY <2>1, PrivateViewed
<1>6. QED
  BY <1>1, <1>2, <1>3, <1>4, <1>5 DEF Viewed

LEMMA ViewedNext ==
    Viewed' <=>
       /\ Stage' = [e \in Evidence |-> StageOf(evidence'[e])]
       /\ Until' = [e \in Evidence |-> UntilOf(evidence'[e])]
       /\ Quarantine' = [e \in Evidence |-> QuarantineOf(evidence'[e])]
       /\ Clean' = [e \in Evidence |-> CleanOf(evidence'[e])]
       /\ Private' = [e \in Evidence |-> PrivateOf(evidence'[e])]
BY DEF Viewed, StageOf, UntilOf, QuarantineOf, CleanOf, PrivateOf

LEMMA ViewStays ==
    ASSUME Viewed, Viewed', UNCHANGED evidence
    PROVE  UNCHANGED <<Stage, Until, Quarantine, Clean, Private>>
BY ViewedNext DEF Viewed

\* Evidence e is shown as m, and what m shows as before has not changed.
Rewritten(e, m) ==
    /\ Stage' = [Stage EXCEPT ![e] = StageOf(m)]
    /\ Until' = [Until EXCEPT ![e] = UntilOf(m)]
    /\ Quarantine' = [Quarantine EXCEPT ![e] = QuarantineOf(m)]
    /\ Clean' = [Clean EXCEPT ![e] = CleanOf(m)]
    /\ Private' = [Private EXCEPT ![e] = PrivateOf(m)]
    /\ StageOf(m) = StageOf(evidence[e]) => Stage' = Stage
    /\ UntilOf(m) = UntilOf(evidence[e]) => Until' = Until
    /\ QuarantineOf(m) = QuarantineOf(evidence[e]) => Quarantine' = Quarantine
    /\ CleanOf(m) = CleanOf(evidence[e]) => Clean' = Clean
    /\ PrivateOf(m) = PrivateOf(evidence[e]) => Private' = Private

\* A record that is rewritten is rewritten in every view.
LEMMA ViewMoves ==
    ASSUME IInv, Viewed, Viewed', NEW e \in Evidence, NEW m,
           evidence' = [evidence EXCEPT ![e] = m]
    PROVE  Rewritten(e, m)
<1>1. evidence'[e] = m /\ \A d \in Evidence \ {e} : evidence'[d] = evidence[d]
  BY DEF IInv, TypeOK
<1>2. /\ Stage' = [Stage EXCEPT ![e] = StageOf(m)]
      /\ StageOf(m) = StageOf(evidence[e]) => Stage' = Stage
  BY <1>1, ViewedNext DEF Viewed
<1>3. /\ Until' = [Until EXCEPT ![e] = UntilOf(m)]
      /\ UntilOf(m) = UntilOf(evidence[e]) => Until' = Until
  BY <1>1, ViewedNext DEF Viewed
<1>4. /\ Quarantine' = [Quarantine EXCEPT ![e] = QuarantineOf(m)]
      /\ QuarantineOf(m) = QuarantineOf(evidence[e]) => Quarantine' = Quarantine
  BY <1>1, ViewedNext DEF Viewed
<1>5. /\ Clean' = [Clean EXCEPT ![e] = CleanOf(m)]
      /\ CleanOf(m) = CleanOf(evidence[e]) => Clean' = Clean
  BY <1>1, ViewedNext DEF Viewed
<1>6. /\ Private' = [Private EXCEPT ![e] = PrivateOf(m)]
      /\ PrivateOf(m) = PrivateOf(evidence[e]) => Private' = Private
  BY <1>1, ViewedNext DEF Viewed
<1>7. QED
  BY <1>2, <1>3, <1>4, <1>5, <1>6 DEF Rewritten

LEMMA ViewAt ==
    ASSUME Viewed, NEW e \in Evidence
    PROVE  /\ Stage[e] = StageOf(evidence[e])
           /\ Until[e] = UntilOf(evidence[e])
           /\ Quarantine[e] = QuarantineOf(evidence[e])
           /\ Clean[e] = CleanOf(evidence[e])
           /\ Private[e] = PrivateOf(evidence[e])
BY DEF Viewed

\* What a step leaves alone is no step of the vault.
LEMMA VaultIdle ==
    ASSUME Viewed, Viewed', UNCHANGED <<now, evidence>>
    PROVE  UNCHANGED Vault!vars
BY ViewStays DEF Vault!vars

LEMMA VaultTicks ==
    ASSUME Viewed, Viewed', now' = now + 1, UNCHANGED evidence
    PROVE  Vault!Next
BY ViewStays DEF Vault!Next, Vault!Tick

LEMMA VaultInit == Init => Vault!Init
<1> SUFFICES ASSUME Init PROVE Vault!Init
  OBVIOUS
<1>1. \A e \in Evidence : evidence[e] = Unknown
  BY DEF Init
<1>2. Viewed
  BY InitIInv, Views
<1>3. /\ StageOf(Unknown) = "UNKNOWN" /\ UntilOf(Unknown) = 0 /\ QuarantineOf(Unknown) = {}
      /\ CleanOf(Unknown) = {} /\ PrivateOf(Unknown) = {}
  BY DEF Unknown, NotScanned, StageOf, UntilOf, QuarantineOf, CleanOf, PrivateOf
<1>4. now = 0
  BY DEF Init, StoreInit
<1>5. /\ Stage = [e \in Evidence |-> "UNKNOWN"] /\ Until = [e \in Evidence |-> 0]
      /\ Quarantine = [e \in Evidence |-> {}]
  BY <1>1, <1>2, <1>3 DEF Viewed
<1>6. Clean = [e \in Evidence |-> {}] /\ Private = [e \in Evidence |-> {}]
  BY <1>1, <1>2, <1>3 DEF Viewed
<1>7. QED
  BY <1>4, <1>5, <1>6 DEF Vault!Init

\* A new intent announces its evidence.
LEMMA VaultAnnounces ==
    ASSUME IInv, Viewed, Viewed', NEW w \in Call, PerformCreate(w), NewIntent(w)
    PROVE  Vault!Next
<1>1. PICK e \in Evidence : e = Subject(w)
  BY CallOfEffect DEF PerformCreate, Executing
<1>2. PICK m : m = [Unknown EXCEPT !.classification = call[w].fingerprint.what,
                                   !.reference = references + 1,
                                   !.expiresAt = now + UploadIntentTtl]
  OBVIOUS
<1>3. now' = now /\ evidence' = [evidence EXCEPT ![e] = m] /\ evidence[e].reference = 0
  BY <1>1, <1>2 DEF PerformCreate, NewIntent, NextReference, Known
<1>4. Rewritten(e, m)
  BY <1>3, ViewMoves
<1>5. /\ m.reference = references + 1 /\ m.accepted = 0 /\ m.expiresAt = now + UploadIntentTtl
      /\ m.upload = NoContent /\ m.scan = NotScanned
  BY <1>2 DEF Unknown
<1>6. m.reference # 0
  BY <1>5, ReferenceResult DEF IInv
<1>7. /\ StageOf(m) = "ANNOUNCED" /\ UntilOf(m) = now + UploadIntentTtl /\ QuarantineOf(m) = {}
      /\ CleanOf(m) = {} /\ PrivateOf(m) = {}
  BY <1>5, <1>6 DEF NotScanned, StageOf, UntilOf, QuarantineOf, CleanOf, PrivateOf
<1>8. Stage[e] = "UNKNOWN" /\ PrivateOf(evidence[e]) = {}
  <2>1. RecordOK(evidence[e], references)
    BY DEF IInv, EvidenceOK
  <2>2. StageOf(evidence[e]) = "UNKNOWN" /\ PrivateOf(evidence[e]) = {}
    BY <1>3, <2>1 DEF StageOf, PrivateOf, RecordOK
  <2>3. QED
    BY <2>2, ViewAt
<1>9. Private' = Private
  BY <1>3, <1>7, <1>8, <1>4 DEF Rewritten
<1>10. /\ Stage' = [Stage EXCEPT ![e] = "ANNOUNCED"]
       /\ Until' = [Until EXCEPT ![e] = now + UploadIntentTtl]
       /\ Quarantine' = [Quarantine EXCEPT ![e] = {}]
       /\ Clean' = [Clean EXCEPT ![e] = {}]
  BY <1>3, <1>7, <1>4 DEF Rewritten
<1>11. Vault!Announce(e)
  BY <1>3, <1>8, <1>9, <1>10 DEF Vault!Announce
<1>12. QED
  BY <1>11 DEF Vault!Next

\* A new acceptance promotes what lies in quarantine, clean and admitted at that instant.
LEMMA VaultPromotes ==
    ASSUME IInv, Viewed, Viewed', NEW w \in Call, PerformAccept(w), NewAcceptance(w)
    PROVE  Vault!Next
<1>1. /\ At(w, "executing") /\ call[w].key.operation = "evidence.accept" /\ now' = now
  BY DEF PerformAccept, Executing
<1>2. PICK e \in Evidence : e = Subject(w) /\ Known(e)
  BY <1>1, CallOfEffect DEF CallOK, At, Subject
<1>3. PICK r \in EvidenceRecord : r = evidence[e]
  BY Typed DEF IInv
<1>4. /\ r.reference # 0 /\ r.accepted = 0 /\ StillVerified(r)
      /\ r.upload \in Content /\ ~ r.deleted /\ Admissible(r.upload)
      /\ r.scan = [status |-> "CLEAN", digest |-> r.upload]
  BY <1>2, <1>3, StillVerifiedFinds DEF NewAcceptance, Effect, IInv, Known
<1>5. PICK m : m = [r EXCEPT !.accepted = references + 1, !.digest = r.upload,
                             !.upload = NoContent, !.retainedUntil = now + AcceptedRetention]
  OBVIOUS
<1>6. evidence' = [evidence EXCEPT ![e] = m]
  BY <1>2, <1>3, <1>5 DEF NewAcceptance, NextReference, RetainedUntil
<1>7. Rewritten(e, m)
  BY <1>6, ViewMoves
<1>8. /\ m.accepted = references + 1 /\ m.digest = r.upload /\ m.upload = NoContent
      /\ m.retainedUntil = now + AcceptedRetention /\ m.reference = r.reference
      /\ m.scan = r.scan /\ m.deleted = r.deleted
  BY <1>5 DEF EvidenceRecord
<1>9. m.accepted # 0
  BY <1>8, ReferenceResult DEF IInv
<1>10. /\ StageOf(m) = "ACCEPTED" /\ UntilOf(m) = now + AcceptedRetention
       /\ QuarantineOf(m) = {} /\ PrivateOf(m) = {r.upload} /\ CleanOf(m) = CleanOf(r)
  BY <1>4, <1>8, <1>9 DEF StageOf, UntilOf, QuarantineOf, CleanOf, PrivateOf
<1>11. StageOf(r) = "ANNOUNCED"
  BY <1>4 DEF StageOf
<1>12. QuarantineOf(r) = {r.upload} /\ CleanOf(r) = {r.upload}
  BY <1>4, NameAssumption DEF QuarantineOf, CleanOf
<1>13. Stage[e] = "ANNOUNCED" /\ Quarantine[e] = {r.upload} /\ Clean[e] = {r.upload}
  BY <1>3, <1>11, <1>12, ViewAt
<1>14. Clean' = Clean
  BY <1>3, <1>6, <1>10, <1>7 DEF Rewritten
<1>15. /\ Stage' = [Stage EXCEPT ![e] = "ACCEPTED"]
       /\ Until' = [Until EXCEPT ![e] = now + AcceptedRetention]
       /\ Quarantine' = [Quarantine EXCEPT ![e] = {}]
       /\ Private' = [Private EXCEPT ![e] = Quarantine[e]]
  BY <1>6, <1>10, <1>13, <1>7 DEF Rewritten
<1>16. r.upload \in {x \in Content : Admissible(x)}
  BY <1>4
<1>17. Vault!Promote(e)
  BY <1>1, <1>13, <1>14, <1>15, <1>16 DEF Vault!Promote
<1>18. QED
  BY <1>17 DEF Vault!Next

\* The first deletion of an evidence finds its retention over.
LEMMA VaultDeletes ==
    ASSUME IInv, Viewed, Viewed', NEW w \in Call, PerformDelete(w),
           ~ evidence[Subject(w)].deleted
    PROVE  Vault!Next
<1>1. /\ At(w, "executing") /\ call[w].key.operation = "evidence.delete-expired" /\ now' = now
  BY DEF PerformDelete, Executing
<1>2. PICK e \in Evidence : e = Subject(w) /\ Removable(e, call[w].fingerprint.what)
  BY <1>1, CallOfEffect DEF CallOK, At, Subject
<1>3. PICK r \in EvidenceRecord : r = evidence[e]
  BY Typed DEF IInv
<1>4. /\ r.accepted # 0 /\ r.reference # 0 /\ ~ r.deleted /\ r.retainedUntil <= now
  <2>1. RecordOK(r, references) /\ ~ r.deleted
    BY <1>2, <1>3 DEF IInv, EvidenceOK
  <2>2. r.accepted # 0 /\ r.retainedUntil <= now
    BY <1>2, <1>3, <2>1, NameAssumption DEF Removable
  <2>3. QED
    BY <2>1, <2>2 DEF RecordOK
<1>5. PICK m : m = [r EXCEPT !.deleted = TRUE]
  OBVIOUS
<1>6. evidence' = [evidence EXCEPT ![e] = m]
  BY <1>2, <1>3, <1>4, <1>5 DEF PerformDelete
<1>7. Rewritten(e, m)
  BY <1>6, ViewMoves
<1>8. /\ m.deleted /\ m.accepted = r.accepted /\ m.retainedUntil = r.retainedUntil
      /\ m.reference = r.reference /\ m.upload = r.upload /\ m.scan = r.scan
  BY <1>5 DEF EvidenceRecord
<1>9. /\ StageOf(m) = "DELETED" /\ PrivateOf(m) = {} /\ UntilOf(m) = UntilOf(r)
      /\ QuarantineOf(m) = QuarantineOf(r) /\ CleanOf(m) = CleanOf(r)
  BY <1>4, <1>8 DEF StageOf, UntilOf, QuarantineOf, CleanOf, PrivateOf
<1>10. StageOf(r) = "ACCEPTED" /\ UntilOf(r) = r.retainedUntil
  BY <1>4 DEF StageOf, UntilOf
<1>11. Stage[e] = "ACCEPTED" /\ Until[e] <= now
  BY <1>3, <1>4, <1>10, ViewAt
<1>12. Until' = Until /\ Quarantine' = Quarantine /\ Clean' = Clean
  BY <1>3, <1>6, <1>9, <1>7 DEF Rewritten
<1>13. Stage' = [Stage EXCEPT ![e] = "DELETED"] /\ Private' = [Private EXCEPT ![e] = {}]
  BY <1>6, <1>9, <1>7 DEF Rewritten
<1>14. Vault!Delete(e)
  BY <1>1, <1>11, <1>12, <1>13 DEF Vault!Delete
<1>15. QED
  BY <1>14 DEF Vault!Next

LEMMA VaultUploads ==
    ASSUME IInv, Viewed, Viewed', NEW e \in Evidence, NEW content \in Content,
           UploadToQuarantine(e, content)
    PROVE  Vault!Next
<1>1. PICK r \in EvidenceRecord : r = evidence[e]
  BY Typed DEF IInv
<1>2. PICK m : m = [r EXCEPT !.upload = content]
  OBVIOUS
<1>3. /\ r.reference # 0 /\ r.upload = NoContent /\ r.accepted = 0 /\ now < r.expiresAt
      /\ evidence' = [evidence EXCEPT ![e] = m] /\ now' = now
  BY <1>1, <1>2 DEF UploadToQuarantine, Known, IntentOpen, storeVars
<1>4. Rewritten(e, m)
  BY <1>3, ViewMoves
<1>5. /\ m.reference = r.reference /\ m.upload = content /\ m.accepted = r.accepted
      /\ m.expiresAt = r.expiresAt /\ m.scan = r.scan
  BY <1>2 DEF EvidenceRecord
<1>6. /\ StageOf(m) = StageOf(r) /\ UntilOf(m) = UntilOf(r) /\ CleanOf(m) = CleanOf(r)
      /\ PrivateOf(m) = PrivateOf(r)
  BY <1>3, <1>5 DEF StageOf, UntilOf, CleanOf, PrivateOf
<1>7. QuarantineOf(m) = {content}
  BY <1>5, NameAssumption DEF QuarantineOf
<1>8. StageOf(r) = "ANNOUNCED" /\ QuarantineOf(r) = {} /\ UntilOf(r) = r.expiresAt
  BY <1>3 DEF StageOf, QuarantineOf, UntilOf
<1>9. Stage[e] = "ANNOUNCED" /\ Quarantine[e] = {} /\ now < Until[e]
  BY <1>1, <1>3, <1>8, ViewAt
<1>10. Stage' = Stage /\ Until' = Until /\ Clean' = Clean /\ Private' = Private
  BY <1>1, <1>3, <1>6, <1>4 DEF Rewritten
<1>11. Quarantine' = [Quarantine EXCEPT ![e] = {content}]
  BY <1>3, <1>7, <1>4 DEF Rewritten
<1>12. Vault!Upload(e, content)
  BY <1>3, <1>9, <1>10, <1>11 DEF Vault!Upload
<1>13. QED
  BY <1>12 DEF Vault!Next

LEMMA VaultScanned ==
    ASSUME IInv, Viewed, Viewed', NEW e \in Evidence, NEW scan \in Scan,
           RecordScanResult(e, scan)
    PROVE  Vault!Next
<1>1. PICK r \in EvidenceRecord : r = evidence[e]
  BY Typed DEF IInv
<1>2. PICK m : m = [r EXCEPT !.scan = scan]
  OBVIOUS
<1>3. /\ r.reference # 0 /\ r.upload # NoContent
      /\ (scan.status = "UNAVAILABLE") = (scan.digest = NoContent)
      /\ evidence' = [evidence EXCEPT ![e] = m] /\ now' = now
  BY <1>1, <1>2 DEF RecordScanResult, Known, storeVars
<1>4. Rewritten(e, m)
  BY <1>3, ViewMoves
<1>5. r.accepted = 0
  BY <1>1, <1>3 DEF IInv, EvidenceOK, RecordOK
<1>6. /\ m.reference = r.reference /\ m.upload = r.upload /\ m.accepted = r.accepted
      /\ m.expiresAt = r.expiresAt /\ m.scan = scan
  BY <1>2 DEF EvidenceRecord
<1>7. /\ StageOf(m) = StageOf(r) /\ UntilOf(m) = UntilOf(r)
      /\ QuarantineOf(m) = QuarantineOf(r) /\ PrivateOf(m) = PrivateOf(r)
  BY <1>5, <1>6 DEF StageOf, UntilOf, QuarantineOf, PrivateOf
<1>8. StageOf(r) = "ANNOUNCED" /\ QuarantineOf(r) # {}
  BY <1>3, <1>5 DEF StageOf, QuarantineOf
<1>9. Stage[e] = "ANNOUNCED" /\ Quarantine[e] # {}
  BY <1>1, <1>8, ViewAt
<1>10. Stage' = Stage /\ Until' = Until /\ Quarantine' = Quarantine /\ Private' = Private
  BY <1>1, <1>3, <1>7, <1>4 DEF Rewritten
<1>11. Clean' = [Clean EXCEPT ![e] = CleanOf(m)]
  BY <1>3, <1>4 DEF Rewritten
<1>12. CleanOf(m) = {} \/ \E x \in Content : CleanOf(m) = {x}
  <2>1. CASE scan.status = "CLEAN"
    <3>1. CleanOf(m) = {scan.digest}
      BY <1>6, <2>1 DEF CleanOf
    <3>2. scan.digest \in Content
      BY <1>3, <2>1 DEF Scan
    <3>3. QED
      BY <3>1, <3>2
  <2>2. CASE scan.status # "CLEAN"
    BY <1>6, <2>2 DEF CleanOf
  <2>3. QED
    BY <2>1, <2>2
<1>13. PICK found : found = CleanOf(m)
  OBVIOUS
<1>14. Vault!Scanned(e, found)
  BY <1>3, <1>9, <1>10, <1>11, <1>13 DEF Vault!Scanned
<1>15. QED
  BY <1>12, <1>13, <1>14 DEF Vault!Next

\* Claims, answers and what is only refused do not show.
LEMMA VaultStep ==
    ASSUME IInv, Viewed, Viewed', [Next]_vars
    PROVE  [Vault!Next]_(Vault!vars)
<1>1. CASE UNCHANGED vars
  BY <1>1, VaultIdle DEF vars
<1>2. ASSUME NEW c \in Call, NEW key \in Key, NEW e \in Evidence, Ask(c, key, e)
      PROVE UNCHANGED Vault!vars
  <2>1. PICK checked, payload : EnterIf(checked, c, key, payload)
    BY <1>2 DEF Ask, CreateUploadIntent, Accept, DeleteExpired
  <2>2. UNCHANGED <<now, evidence>>
    BY <2>1 DEF EnterIf, Enter, Refuse, domainVars
  <2>3. QED
    BY <2>2, VaultIdle
<1>3. ASSUME NEW c \in Call, PerformCreate(c) PROVE [Vault!Next]_(Vault!vars)
  <2>1. CASE SameIntent(c)
    BY <1>3, <2>1, VaultIdle DEF PerformCreate, SameIntent, domainVars
  <2>2. QED
    BY <1>3, <2>1, VaultAnnounces DEF PerformCreate
<1>4. ASSUME NEW c \in Call, PerformAccept(c) PROVE [Vault!Next]_(Vault!vars)
  <2>1. CASE SameAcceptance(c) \/ VerificationChanged(c)
    BY <1>4, <2>1, VaultIdle DEF PerformAccept, SameAcceptance, VerificationChanged, domainVars
  <2>2. QED
    BY <1>4, <2>1, VaultPromotes DEF PerformAccept
<1>5. ASSUME NEW c \in Call, PerformDelete(c) PROVE [Vault!Next]_(Vault!vars)
  <2>1. CASE evidence[Subject(c)].deleted
    BY <1>5, <2>1, VaultIdle DEF PerformDelete
  <2>2. QED
    BY <1>5, <2>1, VaultDeletes
<1>6. CASE StoreNext /\ UNCHANGED domainVars
  <2>1. evidence' = evidence
    BY <1>6 DEF domainVars
  <2>2. now' = now + 1 \/ now' = now
    BY <1>6 DEF StoreNext, Tick, Claim, Granted, NotGranted, Complete, RequireRecovery, Broken
  <2>3. QED
    BY <2>1, <2>2, VaultIdle, VaultTicks
<1>7. QED
  BY <1>1, <1>2, <1>3, <1>4, <1>5, <1>6, VaultUploads, VaultScanned DEF Next

\* For any number of calls that are checked, claimed, raced, repeated or lost: what they do to
\* evidence is one step of the vault or none. An upload meets an open intent, a promotion
\* clean and admitted bytes, and a deletion the end of the retention, at that instant.
THEOREM VaultImplemented == Spec => ImplementsVault
<1>1. Init => Vault!Init
  BY VaultInit
<1>2. IInv => Viewed
  BY Views
<1>3. IInv /\ Viewed /\ Viewed' /\ [Next]_vars => [Vault!Next]_(Vault!vars)
  BY VaultStep
<1>4. QED
  BY <1>1, <1>2, <1>3, Invariance, PTL DEF Spec, Vault!Spec, ImplementsVault
=============================================================================
