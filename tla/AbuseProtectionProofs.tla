----------------------- MODULE AbuseProtectionProofs -----------------------
(***************************************************************************)
(* For every policy, set of instances and number of subjects: a row admits *)
(* at most its maximum, and has its denial audited once.                   *)
(***************************************************************************)
EXTENDS AbuseProtection, TLAPS

\* An evaluation's writes are of rows there may be, and its time is past.
TypeOfCall(c) ==
    /\ c.now \in 0 .. MaxTime
    /\ c.todo \subseteq UNION Request
    /\ DOMAIN c.writes \subseteq Key

TypeOK ==
    /\ now \in 0 .. MaxTime
    /\ bucket \in [Key -> {Absent} \cup Row]
    /\ admitted \in [Key -> Nat]
    /\ audits \in [Key -> Nat]
    /\ call = [w \in Worker |-> call[w]]
    /\ \A w \in Worker : call[w] # NoCall => TypeOfCall(call[w])

\* A write deletes the committed row or counts on it, and no other evaluation
\* has written that row: the committed row cannot have changed since.
WritesAreCurrent ==
    \A w \in Worker : call[w] # NoCall =>
       \A k \in DOMAIN call[w].writes :
          call[w].writes[k] = Absent \/ call[w].writes[k] = Upserted(bucket[k])

WritersExclude ==
    \A v, w \in Worker : \A k \in Key :
       /\ call[v] # NoCall /\ k \in DOMAIN call[v].writes
       /\ call[w] # NoCall /\ k \in DOMAIN call[w].writes
       => v = w

\* What a row says of the evaluations it has admitted and of its audit.
TrueTo(k, row, n, m) ==
    IF row = Absent THEN n = 0 /\ m = 0
    ELSE /\ n <= row.count
         /\ n <= Maximum[k.axis]
         /\ m = IF row.count > Maximum[k.axis] THEN 1 ELSE 0
         /\ row.audited = (m = 1)

RowsAreTrue == \A k \in Key : TrueTo(k, bucket[k], admitted[k], audits[k])

IInv == TypeOK /\ WritesAreCurrent /\ WritersExclude /\ RowsAreTrue

-----------------------------------------------------------------------------
LEMMA KeyType ==
    \A k \in Key : k.axis \in Axis /\ Maximum[k.axis] \in Nat /\ Maximum[k.axis] > 0
<1> SUFFICES ASSUME NEW k \in Key
             PROVE  k.axis \in Axis /\ Maximum[k.axis] \in Nat /\ Maximum[k.axis] > 0
  OBVIOUS
<1>1. PICK l \in UNION Request, t \in 0 .. MaxTime : k = KeyOf(l, t)
  BY DEF Key
<1>2. l \in Limit
  BY PolicyAssumption
<1>3. k.axis = l.axis /\ l.axis \in Axis
  BY <1>1, <1>2 DEF KeyOf, Limit
<1>4. QED
  BY <1>3, PolicyAssumption

LEMMA KeyOfInKey ==
    ASSUME NEW l \in UNION Request, NEW t \in 0 .. MaxTime PROVE KeyOf(l, t) \in Key
BY DEF Key

LEMMA UpsertedType ==
    ASSUME NEW row \in {Absent} \cup Row
    PROVE  /\ Upserted(row) \in Row
           /\ Upserted(row).count = IF row = Absent THEN 1 ELSE row.count + 1
           /\ Upserted(row).audited = IF row = Absent THEN FALSE ELSE row.audited
BY RowAssumption DEF Upserted, Row

\* What an evaluation that counted on a row leaves of it is true, if what it
\* found was: admits is 1 when nothing denied it, claims when the row did.
LEMMA CountedIsTrue ==
    ASSUME NEW k \in Key, NEW row \in {Absent} \cup Row, NEW n \in Nat, NEW m \in Nat,
           TrueTo(k, row, n, m), NEW admits \in {0, 1},
           Over(k, Upserted(row)) => admits = 0,
           NEW claims \in BOOLEAN,
           claims <=> Over(k, Upserted(row)) /\ Unclaimed(Upserted(row))
    PROVE  TrueTo(k, [count |-> Upserted(row).count,
                      audited |-> Upserted(row).audited \/ claims],
                  n + admits, IF claims THEN m + 1 ELSE m)
<1> DEFINE u == Upserted(row)
           new == [count |-> u.count, audited |-> u.audited \/ claims]
           max == Maximum[k.axis]
           m2 == IF claims THEN m + 1 ELSE m
<1>1. max \in Nat /\ max > 0
  BY KeyType
<1>2. u \in Row /\ u.count = (IF row = Absent THEN 1 ELSE row.count + 1)
      /\ u.audited = (IF row = Absent THEN FALSE ELSE row.audited)
  BY UpsertedType
<1>3. new \in Row /\ new # Absent /\ new.count = u.count
      /\ new.audited = (u.audited \/ claims)
  BY <1>2, RowAssumption DEF Row
<1>4. (u.count > max => admits = 0) /\ (claims <=> u.count > max /\ ~ u.audited)
  BY DEF Over, Unclaimed
<1>5. SUFFICES /\ n + admits <= u.count /\ n + admits <= max
               /\ m2 = IF u.count > max THEN 1 ELSE 0
               /\ (u.audited \/ claims) = (m2 = 1)
  BY <1>3 DEF TrueTo
<1>6. row # Absent =>
         /\ row.count \in Nat /\ n <= row.count /\ n <= max
         /\ row.count > max => m = 1 /\ row.audited
         /\ ~ row.count > max => m = 0 /\ ~ row.audited
  BY DEF TrueTo, Row
<1>7. row = Absent => n = 0 /\ m = 0
  BY DEF TrueTo
<1> HIDE DEF u, new, max, m2
<1>8. CASE row = Absent
  <2>1. u.count = 1 /\ u.audited = FALSE /\ ~ claims
    BY <1>1, <1>2, <1>4, <1>8
  <2>2. m2 = 0
    BY <1>7, <1>8, <2>1 DEF m2
  <2>3. QED
    <3>1. n + admits <= 1
      BY <1>7, <1>8
    <3>2. QED
      BY <1>1, <2>1, <2>2, <3>1
<1>9. CASE row # Absent
  <2>1. u.count = row.count + 1 /\ u.audited = row.audited
    BY <1>2, <1>9
  <2>2. n + admits <= u.count /\ n + admits <= max
    <3>1. CASE admits = 0
      BY <1>6, <1>9, <2>1, <3>1
    <3>2. CASE admits = 1
      BY <1>1, <1>4, <1>6, <1>9, <2>1, <3>2
    <3>3. QED
      BY <3>1, <3>2
  <2>3. CASE row.count > max
    <3>1. m = 1 /\ row.audited
      BY <1>6, <1>9, <2>3
    <3>2. u.count > max
      BY <1>1, <1>6, <1>9, <2>1, <2>3
    <3>3. u.audited
      BY <2>1, <3>1
    <3>4. m2 = 1
      BY <1>4, <3>1, <3>3 DEF m2
    <3>5. QED
      BY <2>2, <3>2, <3>3, <3>4
  <2>4. CASE ~ row.count > max
    <3>1. m = 0 /\ ~ u.audited
      <4>1. m = 0 /\ ~ row.audited
        BY <1>6, <1>9, <2>4
      <4>2. QED
        BY <2>1, <4>1
    <3>2. claims <=> u.count > max
      BY <1>4, <3>1
    <3>3. m2 = IF claims THEN 1 ELSE 0
      BY <3>1 DEF m2
    <3>4. QED
      BY <2>2, <3>1, <3>2, <3>3
  <2>5. QED
    BY <2>3, <2>4
<1>10. QED
  BY <1>8, <1>9

-----------------------------------------------------------------------------
LEMMA InitIInv == Init => IInv
<1> SUFFICES ASSUME Init PROVE IInv
  OBVIOUS
<1>1. TypeOK
  BY PolicyAssumption DEF Init, TypeOK
<1>2. WritesAreCurrent /\ WritersExclude
  BY DEF Init, WritesAreCurrent, WritersExclude
<1>3. RowsAreTrue
  BY DEF Init, RowsAreTrue, TrueTo
<1>4. QED
  BY <1>1, <1>2, <1>3 DEF IInv

\* An evaluation may write rows that no other has written.
LEMMA Advance ==
    ASSUME IInv, NEW w \in Worker,
           UNCHANGED <<now, bucket, admitted, audits>>,
           call' = [call EXCEPT ![w] = call'[w]],
           TypeOfCall(call'[w]),
           \A k \in DOMAIN call'[w].writes :
              \/ /\ call[w] # NoCall
                 /\ k \in DOMAIN call[w].writes
                 /\ call'[w].writes[k] = call[w].writes[k]
              \/ /\ ~ Locked(k)
                 /\ \/ call'[w].writes[k] = Absent
                    \/ call'[w].writes[k] = Upserted(bucket[k])
    PROVE  IInv'
<1> USE DEF IInv
<1>1. call = [v \in Worker |-> call[v]]
  BY DEF TypeOK
<1>2. \A v \in Worker : v # w => call'[v] = call[v]
  BY <1>1
<1>3. TypeOK'
  <2>1. call' = [v \in Worker |-> call'[v]]
    BY <1>1
  <2>2. \A v \in Worker : call'[v] # NoCall => TypeOfCall(call'[v])
    BY <1>2 DEF TypeOK
  <2>3. QED
    BY <2>1, <2>2 DEF TypeOK
<1>4. WritesAreCurrent'
  <2> SUFFICES ASSUME NEW v \in Worker, (call[v] # NoCall)',
                      NEW k \in DOMAIN call'[v].writes
               PROVE  \/ call'[v].writes[k] = Absent
                      \/ call'[v].writes[k] = Upserted(bucket[k])
    BY DEF WritesAreCurrent
  <2>1. CASE v = w
    BY <2>1 DEF WritesAreCurrent
  <2>2. CASE v # w
    BY <1>2, <2>2 DEF WritesAreCurrent
  <2>3. QED
    BY <2>1, <2>2
<1>5. WritersExclude'
  <2>1. ASSUME NEW v \in Worker, v # w, NEW k \in Key,
               call[v] # NoCall, k \in DOMAIN call[v].writes,
               k \in DOMAIN call'[w].writes
        PROVE  FALSE
    <3>1. Locked(k)
      BY <2>1 DEF Locked
    <3>2. call[w] # NoCall /\ k \in DOMAIN call[w].writes
      BY <2>1, <3>1
    <3>3. QED
      BY <2>1, <3>2 DEF WritersExclude
  <2> SUFFICES ASSUME NEW u \in Worker, NEW v \in Worker, NEW k \in Key,
                      call'[u] # NoCall, k \in DOMAIN call'[u].writes,
                      call'[v] # NoCall, k \in DOMAIN call'[v].writes
               PROVE  u = v
    BY DEF WritersExclude
  <2>2. CASE u = w /\ v # w
    BY <1>2, <2>1, <2>2
  <2>3. CASE u # w /\ v = w
    BY <1>2, <2>1, <2>3
  <2>4. CASE u # w /\ v # w
    BY <1>2, <2>4 DEF WritersExclude
  <2>5. QED
    BY <2>2, <2>3, <2>4
<1>6. RowsAreTrue'
  BY DEF RowsAreTrue
<1>7. QED
  BY <1>3, <1>4, <1>5, <1>6

LEMMA BeginIInv ==
    ASSUME IInv, NEW w \in Worker, NEW r \in Request, Begin(w, r) PROVE IInv'
<1>1. call'[w] = Evaluation("select", now, r, NoWrites, NoWrites)
  BY DEF Begin, IInv, TypeOK
<1>2. call' = [call EXCEPT ![w] = call'[w]]
  BY <1>1 DEF Begin
<1>3. DOMAIN call'[w].writes = {} /\ call'[w].now = now /\ call'[w].todo = r
  BY <1>1 DEF Evaluation, NoWrites
<1>4. TypeOfCall(call'[w])
  BY <1>3 DEF TypeOfCall, IInv, TypeOK
<1>5. UNCHANGED <<now, bucket, admitted, audits>>
  BY DEF Begin
<1>6. QED
  BY <1>2, <1>3, <1>4, <1>5, Advance

LEMMA SelectIInv == ASSUME IInv, NEW w \in Worker, Select(w) PROVE IInv'
<1>1. PICK s \in SUBSET Key :
         call' = [call EXCEPT ![w] =
            Evaluation("write", call[w].now, call[w].todo,
                       [k \in s |-> bucket[k]], NoWrites)]
  BY DEF Select, ExpiredRows
<1>2. call'[w] = Evaluation("write", call[w].now, call[w].todo,
                            [k \in s |-> bucket[k]], NoWrites)
  BY <1>1 DEF IInv, TypeOK
<1>3. call' = [call EXCEPT ![w] = call'[w]]
  BY <1>1, <1>2
<1>4. /\ DOMAIN call'[w].writes = {}
      /\ call'[w].now = call[w].now /\ call'[w].todo = call[w].todo
  BY <1>2 DEF Evaluation, NoWrites
<1>5. call[w] # NoCall
  BY DEF Select, At
<1>6. TypeOfCall(call'[w])
  BY <1>4, <1>5 DEF TypeOfCall, IInv, TypeOK
<1>7. UNCHANGED <<now, bucket, admitted, audits>>
  BY DEF Select
<1>8. QED
  BY <1>3, <1>4, <1>6, <1>7, Advance

LEMMA WithWrite ==
    ASSUME NEW f, NEW k, NEW v
    PROVE  /\ DOMAIN With(f, k, v) = DOMAIN f \cup {k}
           /\ With(f, k, v)[k] = v
           /\ \A x \in DOMAIN f : x # k => With(f, k, v)[x] = f[x]
BY DEF With

LEMMA SweepIInv ==
    ASSUME IInv, NEW w \in Worker, NEW k \in Key, Sweep(w, k) PROVE IInv'
<1> DEFINE f == call[w].writes
           g == IF bucket[k] = call[w].sweep[k] THEN With(f, k, Absent) ELSE f
<1>1. call'[w] = Evaluation("write", call[w].now, call[w].todo,
                            Without(call[w].sweep, k), g)
  BY DEF Sweep, IInv, TypeOK
<1>2. call' = [call EXCEPT ![w] = call'[w]]
  BY <1>1 DEF Sweep
<1>3. /\ call'[w].writes = g
      /\ call'[w].now = call[w].now /\ call'[w].todo = call[w].todo
  BY <1>1 DEF Evaluation
<1>4. call[w] # NoCall /\ ~ Locked(k)
  BY DEF Sweep, At
<1>5. DOMAIN g \subseteq DOMAIN f \cup {k}
  <2>1. DOMAIN With(f, k, Absent) = DOMAIN f \cup {k}
    BY WithWrite
  <2>2. QED
    BY <2>1
<1>6. TypeOfCall(call'[w])
  BY <1>3, <1>4, <1>5 DEF TypeOfCall, IInv, TypeOK
<1>7. ASSUME NEW x \in DOMAIN g
      PROVE  \/ x \in DOMAIN f /\ g[x] = f[x]
             \/ x = k /\ g[x] = Absent
  BY <1>7 DEF With
<1>8. UNCHANGED <<now, bucket, admitted, audits>>
  BY DEF Sweep
<1>9. QED
  BY <1>2, <1>3, <1>4, <1>6, <1>7, <1>8, Advance

LEMMA CountIInv ==
    ASSUME IInv, NEW w \in Worker, NEW l \in UNION Request, Count(w, l) PROVE IInv'
<1> DEFINE k == KeyOf(l, call[w].now)
           f == call[w].writes
           g == With(f, k, Upserted(bucket[k]))
<1>1. call'[w] = Evaluation("write", call[w].now, call[w].todo \ {l}, call[w].sweep, g)
  BY DEF Count, IInv, TypeOK
<1>2. call' = [call EXCEPT ![w] = call'[w]]
  BY <1>1 DEF Count
<1>3. /\ call'[w].writes = g
      /\ call'[w].now = call[w].now /\ call'[w].todo = call[w].todo \ {l}
  BY <1>1 DEF Evaluation
<1>4. call[w] # NoCall /\ ~ Locked(k)
  BY DEF Count, Swept, At, Available
<1>5. TypeOfCall(call[w])
  BY <1>4 DEF IInv, TypeOK
<1>6. k \in Key
  BY <1>5, KeyOfInKey DEF TypeOfCall
<1> HIDE DEF k
<1>7. DOMAIN g = DOMAIN f \cup {k}
  BY WithWrite
<1>8. TypeOfCall(call'[w])
  BY <1>3, <1>5, <1>6, <1>7 DEF TypeOfCall
<1>9. ASSUME NEW x \in DOMAIN g
      PROVE  \/ x \in DOMAIN f /\ g[x] = f[x]
             \/ x = k /\ g[x] = Upserted(bucket[x])
  BY <1>9 DEF With
<1>10. UNCHANGED <<now, bucket, admitted, audits>>
  BY DEF Count
<1>11. QED
  BY <1>2, <1>3, <1>4, <1>8, <1>9, <1>10, Advance

LEMMA AbortIInv == ASSUME IInv, NEW w \in Worker, Abort(w) PROVE IInv'
<1>1. call' = [call EXCEPT ![w] = NoCall] /\ UNCHANGED <<now, bucket, admitted, audits>>
  BY DEF Abort
<1>2. call = [v \in Worker |-> call[v]]
  BY DEF IInv, TypeOK
<1>3. call'[w] = NoCall /\ \A v \in Worker : v # w => call'[v] = call[v]
  BY <1>1, <1>2
<1>4. TypeOK'
  <2>1. call' = [v \in Worker |-> call'[v]]
    BY <1>1, <1>2
  <2>2. QED
    BY <1>1, <1>3, <2>1 DEF IInv, TypeOK
<1>5. WritesAreCurrent'
  BY <1>1, <1>3 DEF IInv, WritesAreCurrent
<1>6. WritersExclude'
  BY <1>1, <1>3 DEF IInv, WritersExclude
<1>7. RowsAreTrue'
  BY <1>1 DEF IInv, RowsAreTrue
<1>8. QED
  BY <1>4, <1>5, <1>6, <1>7 DEF IInv

LEMMA TickIInv == ASSUME IInv, Tick PROVE IInv'
<1>1. UNCHANGED <<bucket, admitted, audits, call>> /\ now' \in 0 .. MaxTime
  BY PolicyAssumption DEF Tick, IInv, TypeOK
<1>2. TypeOK' /\ WritesAreCurrent' /\ WritersExclude' /\ RowsAreTrue'
  BY <1>1 DEF IInv, TypeOK, WritesAreCurrent, WritersExclude, RowsAreTrue
<1>3. QED
  BY <1>2 DEF IInv

\* The commit leaves every row it wrote deleted, or counted once and true.
LEMMA DecideIInv == ASSUME IInv, NEW w \in Worker, Decide(w) PROVE IInv'
<1> DEFINE c == call[w]
           admits == IF Denied(c) = {} THEN 1 ELSE 0
<1>1. /\ c # NoCall
      /\ bucket' = [k \in Key |-> IF k \in DOMAIN c.writes
                                  THEN Decided(c, k) ELSE bucket[k]]
      /\ admitted' = [k \in Key |-> IF k \notin DOMAIN c.writes THEN admitted[k]
                                    ELSE IF c.writes[k] = Absent THEN 0
                                    ELSE admitted[k] + admits]
      /\ audits' = [k \in Key |-> IF k \notin DOMAIN c.writes THEN audits[k]
                                  ELSE IF c.writes[k] = Absent THEN 0
                                  ELSE IF k \in Claimed(c) THEN audits[k] + 1
                                  ELSE audits[k]]
      /\ call' = [call EXCEPT ![w] = NoCall]
      /\ now' = now
  BY DEF Decide, Swept, At
<1>2. call = [v \in Worker |-> call[v]]
  BY DEF IInv, TypeOK
<1>3. call'[w] = NoCall /\ \A v \in Worker : v # w => call'[v] = call[v]
  BY <1>1, <1>2
<1>4. ASSUME NEW k \in Key
      PROVE  /\ bucket[k] \in {Absent} \cup Row
             /\ admitted[k] \in Nat /\ audits[k] \in Nat
             /\ TrueTo(k, bucket[k], admitted[k], audits[k])
  BY DEF IInv, TypeOK, RowsAreTrue
<1>5. ASSUME NEW k \in Key, k \notin DOMAIN c.writes
      PROVE  bucket'[k] = bucket[k] /\ admitted'[k] = admitted[k] /\ audits'[k] = audits[k]
  BY <1>1, <1>5
<1>6. ASSUME NEW k \in Key, k \in DOMAIN c.writes, c.writes[k] = Absent
      PROVE  bucket'[k] = Absent /\ admitted'[k] = 0 /\ audits'[k] = 0
  BY <1>1, <1>6 DEF Decided
<1>7. ASSUME NEW k \in Key, k \in DOMAIN c.writes, c.writes[k] # Absent
      PROVE  /\ bucket'[k] \in Row /\ admitted'[k] \in Nat /\ audits'[k] \in Nat
             /\ TrueTo(k, bucket'[k], admitted'[k], audits'[k])
  <2> DEFINE u == Upserted(bucket[k])
             claims == k \in Claimed(c)
  <2>1. c.writes[k] = u
    BY <1>1, <1>7 DEF IInv, WritesAreCurrent
  <2>2. u \in Row
    BY <1>4, UpsertedType
  <2>3. bucket'[k] = [count |-> u.count, audited |-> u.audited \/ claims]
    BY <1>1, <1>7, <2>1 DEF Decided
  <2>4. admitted'[k] = admitted[k] + admits
    BY <1>1, <1>7
  <2>5. audits'[k] = IF claims THEN audits[k] + 1 ELSE audits[k]
    BY <1>1, <1>7
  <2>6. k \in Denied(c) <=> Over(k, u)
    BY <1>7, <2>1 DEF Denied
  <2>7. claims <=> Over(k, u) /\ Unclaimed(u)
    BY <2>1, <2>6 DEF Claimed
  <2>8. admits \in {0, 1} /\ claims \in BOOLEAN /\ (Over(k, u) => admits = 0)
    BY <2>6
  <2>9. TrueTo(k, [count |-> u.count, audited |-> u.audited \/ claims],
               admitted[k] + admits, IF claims THEN audits[k] + 1 ELSE audits[k])
    <3> HIDE DEF admits, claims
    <3>1. QED
      BY <1>4, <2>7, <2>8, CountedIsTrue
  <2>10. bucket'[k] \in Row
    BY <2>2, <2>3 DEF Row
  <2>11. admitted'[k] \in Nat /\ audits'[k] \in Nat
    <3> HIDE DEF admits, claims
    <3>1. QED
      BY <1>4, <2>4, <2>5, <2>8
  <2>12. QED
    BY <2>3, <2>4, <2>5, <2>9, <2>10, <2>11
<1>8. TypeOK'
  <2>1. \A k \in Key : /\ bucket'[k] \in {Absent} \cup Row
                       /\ admitted'[k] \in Nat /\ audits'[k] \in Nat
    BY <1>4, <1>5, <1>6, <1>7
  <2>2. /\ bucket' \in [Key -> {Absent} \cup Row]
        /\ admitted' \in [Key -> Nat] /\ audits' \in [Key -> Nat]
    BY <1>1, <2>1
  <2>3. call' = [v \in Worker |-> call'[v]]
    BY <1>1, <1>2
  <2>4. \A v \in Worker : call'[v] # NoCall => TypeOfCall(call'[v])
    BY <1>3 DEF IInv, TypeOK
  <2>5. now' \in 0 .. MaxTime
    BY <1>1 DEF IInv, TypeOK
  <2>6. QED
    BY <2>2, <2>3, <2>4, <2>5 DEF TypeOK
<1>9. WritesAreCurrent'
  <2> SUFFICES ASSUME NEW v \in Worker, call'[v] # NoCall,
                      NEW k \in DOMAIN call'[v].writes
               PROVE  \/ call'[v].writes[k] = Absent
                      \/ call'[v].writes[k] = Upserted(bucket'[k])
    BY DEF WritesAreCurrent, Upserted
  <2>1. v # w /\ call'[v] = call[v]
    BY <1>3
  <2>2. k \in Key
    BY <2>1 DEF IInv, TypeOK, TypeOfCall
  <2>3. k \notin DOMAIN c.writes
    BY <1>1, <2>1, <2>2 DEF IInv, WritersExclude
  <2>4. bucket'[k] = bucket[k]
    BY <1>5, <2>2, <2>3
  <2>5. QED
    BY <2>1, <2>4 DEF IInv, WritesAreCurrent
<1>10. WritersExclude'
  BY <1>3 DEF IInv, WritersExclude
<1>11. RowsAreTrue'
  <2>1. \A k \in Key : TrueTo(k, bucket'[k], admitted'[k], audits'[k])
    <3> SUFFICES ASSUME NEW k \in Key
                 PROVE  TrueTo(k, bucket'[k], admitted'[k], audits'[k])
      OBVIOUS
    <3>1. CASE k \notin DOMAIN c.writes
      BY <1>4, <1>5, <3>1
    <3>2. CASE k \in DOMAIN c.writes /\ c.writes[k] = Absent
      BY <1>6, <3>2 DEF TrueTo
    <3>3. CASE k \in DOMAIN c.writes /\ c.writes[k] # Absent
      BY <1>7, <3>3
    <3>4. QED
      BY <3>1, <3>2, <3>3
  <2>2. QED
    BY <2>1 DEF RowsAreTrue, TrueTo
<1>12. QED
  BY <1>8, <1>9, <1>10, <1>11 DEF IInv

LEMMA NextIInv == IInv /\ [Next]_vars => IInv'
<1> SUFFICES ASSUME IInv, [Next]_vars PROVE IInv'
  OBVIOUS
<1>1. CASE UNCHANGED vars
  BY <1>1 DEF vars, IInv, TypeOK, WritesAreCurrent, WritersExclude, RowsAreTrue
<1>2. CASE Next
  BY <1>2, BeginIInv, SelectIInv, SweepIInv, CountIInv, DecideIInv, AbortIInv, TickIInv
  DEF Next
<1>3. QED
  BY <1>1, <1>2

LEMMA Invariance == Spec => []IInv
BY InitIInv, NextIInv, PTL DEF Spec

\* However many evaluations run at once, and whichever end without effect, the
\* evaluations a row has admitted never exceed the policy's maximum.
THEOREM LimitHolds == Spec => []AdmittedWithinLimit
<1>1. IInv => AdmittedWithinLimit
  <2> SUFFICES ASSUME IInv, NEW k \in Key PROVE admitted[k] <= Maximum[k.axis]
    BY DEF AdmittedWithinLimit
  <2>1. TrueTo(k, bucket[k], admitted[k], audits[k])
    BY DEF IInv, RowsAreTrue
  <2>2. CASE bucket[k] = Absent
    BY <2>1, <2>2, KeyType DEF TrueTo
  <2>3. CASE bucket[k] # Absent
    BY <2>1, <2>3 DEF TrueTo
  <2>4. QED
    BY <2>2, <2>3
<1>2. QED
  BY <1>1, Invariance, PTL

\* A row has one audited denial exactly when it has denied an evaluation that
\* was answered: rival claims write no second audit, and none is left out.
THEOREM DenialsAreAuditedOnce == Spec => []DenialAuditedOnce
<1>1. IInv => DenialAuditedOnce
  BY DEF IInv, RowsAreTrue, TrueTo, DenialAuditedOnce
<1>2. QED
  BY <1>1, Invariance, PTL

-----------------------------------------------------------------------------
(* What an evaluation has counted, and in which order.                     *)

\* The evaluation c of the limits r has counted those it has not left to do, in the
\* order of the axes, and has written no other row but those it deletes.
CountsFor(c, r) ==
    /\ c.todo \subseteq r
    /\ \A m \in r \ c.todo :
          /\ KeyOf(m, c.now) \in DOMAIN c.writes
          /\ c.writes[KeyOf(m, c.now)] # Absent
          /\ \A l \in c.todo : Rank[m.axis] < Rank[l.axis]
    /\ \A k \in DOMAIN c.writes :
          c.writes[k] # Absent => \E m \in r \ c.todo : k = KeyOf(m, c.now)

\* It deletes rows that had expired when it began and are still there.
SweepsExpired(c) ==
    /\ \A k \in DOMAIN c.sweep : k \in Key /\ Expires(k) <= c.now /\ c.sweep[k] # Absent
    /\ \A k \in DOMAIN c.writes :
          c.writes[k] = Absent => Expires(k) <= c.now /\ bucket[k] # Absent

EvaluationOK(c) ==
    /\ c.now <= now
    /\ c.step = "select" => DOMAIN c.writes = {}
    /\ \E r \in Request : CountsFor(c, r)
    /\ SweepsExpired(c)

EvaluationsOK == \A w \in Worker : call[w] # NoCall => EvaluationOK(call[w])

LEMMA WindowEnds ==
    ASSUME NEW l \in Limit, NEW t \in Nat PROVE ~ (Expires(KeyOf(l, t)) <= t)
<1> DEFINE length == Length[l.axis]
<1>1. length \in Nat /\ length > 0
  BY PolicyAssumption DEF Limit
<1>2. KeyOf(l, t).axis = l.axis /\ KeyOf(l, t).start = (t \div length) * length
  BY DEF KeyOf
<1> HIDE DEF length
<1>3. ~ ((t \div length) * length + length <= t)
  <2> DEFINE q == t \div length
  <2>1. q \in Nat /\ t = length * q + (t % length) /\ t % length < length /\ t % length \in Nat
    BY <1>1
  <2> HIDE DEF q
  <2>2. QED
    BY <1>1, <2>1 DEF q
<1>4. QED
  BY <1>2, <1>3 DEF Expires, length

LEMMA RequestType ==
    ASSUME NEW r \in Request
    PROVE  /\ r \subseteq Limit /\ r \subseteq UNION Request
           /\ \A l \in r : Rank[l.axis] \in 1 .. 5
           /\ \A l, m \in r : Rank[l.axis] = Rank[m.axis] => l = m
<1>1. r \subseteq Limit /\ \A l, m \in r : l.axis = m.axis => l = m
  BY PolicyAssumption
<1>2. \A l \in r : l.axis \in {"ACCOUNT", "DEVICE", "NETWORK", "SESSION", "TARGET"}
  BY <1>1 DEF Limit, Axis, Rank
<1>3. QED
  BY <1>1, <1>2 DEF Rank

\* An evaluation that goes on: the others keep theirs.
LEMMA EvaluationsStep ==
    ASSUME IInv, EvaluationsOK, NEW w \in Worker, UNCHANGED <<now, bucket>>,
           call' = [call EXCEPT ![w] = call'[w]],
           call'[w] # NoCall => EvaluationOK(call'[w])
    PROVE  EvaluationsOK'
<1>1. \A v \in Worker : v # w => call'[v] = call[v]
  BY DEF IInv, TypeOK
<1>2. ASSUME NEW c PROVE EvaluationOK(c)' <=> EvaluationOK(c)
  BY DEF EvaluationOK, SweepsExpired, CountsFor
<1>3. QED
  BY <1>1, <1>2 DEF EvaluationsOK

LEMMA BeginOK ==
    ASSUME IInv, EvaluationsOK, NEW w \in Worker, NEW r \in Request, Begin(w, r)
    PROVE  EvaluationsOK'
<1> PICK c : c = Evaluation("select", now, r, NoWrites, NoWrites)
  OBVIOUS
<1>1. call'[w] = c /\ call' = [call EXCEPT ![w] = call'[w]] /\ UNCHANGED <<now, bucket>>
  BY DEF Begin, IInv, TypeOK
<1>2. /\ DOMAIN c.writes = {} /\ DOMAIN c.sweep = {} /\ c.now = now /\ c.todo = r
      /\ now \in Nat
  BY PolicyAssumption DEF Evaluation, NoWrites, IInv, TypeOK
<1>3. EvaluationOK(c)
  BY <1>2 DEF EvaluationOK, CountsFor, SweepsExpired
<1>4. QED
  BY <1>1, <1>3, EvaluationsStep

LEMMA SelectOK ==
    ASSUME IInv, EvaluationsOK, NEW w \in Worker, Select(w)
    PROVE  EvaluationsOK'
<1> PICK d : d = call[w]
  OBVIOUS
<1>1. PICK s \in SUBSET Key :
         /\ Selected(d.now, s)
         /\ call' = [call EXCEPT ![w] =
               Evaluation("write", d.now, d.todo, [k \in s |-> bucket[k]], NoWrites)]
  BY DEF Select, ExpiredRows
<1> PICK c : c = Evaluation("write", d.now, d.todo, [k \in s |-> bucket[k]], NoWrites)
  OBVIOUS
<1>2. call'[w] = c /\ call' = [call EXCEPT ![w] = call'[w]] /\ UNCHANGED <<now, bucket>>
  BY <1>1 DEF Select, IInv, TypeOK
<1>3. d # NoCall /\ d.step = "select" /\ EvaluationOK(d)
  BY DEF Select, At, EvaluationsOK
<1>4. /\ DOMAIN c.writes = {} /\ c.sweep = [k \in s |-> bucket[k]]
      /\ c.now = d.now /\ c.todo = d.todo /\ c.step = "write"
  BY DEF Evaluation, NoWrites
<1>5. PICK r \in Request : CountsFor(d, r)
  BY <1>3 DEF EvaluationOK
<1>6. CountsFor(c, r)
  BY <1>3, <1>4, <1>5 DEF CountsFor, EvaluationOK
<1>7. SweepsExpired(c)
  BY <1>1, <1>4 DEF SweepsExpired, Selected, ExpiredRows
<1>8. EvaluationOK(c)
  BY <1>3, <1>4, <1>6, <1>7 DEF EvaluationOK
<1>9. QED
  BY <1>2, <1>8, EvaluationsStep

LEMMA SweepOK ==
    ASSUME IInv, EvaluationsOK, NEW w \in Worker, NEW k \in Key, Sweep(w, k)
    PROVE  EvaluationsOK'
<1> PICK d : d = call[w]
  OBVIOUS
<1> DEFINE g == IF bucket[k] = d.sweep[k] THEN With(d.writes, k, Absent) ELSE d.writes
<1> PICK c : c = Evaluation("write", d.now, d.todo, Without(d.sweep, k), g)
  OBVIOUS
<1>1. call'[w] = c /\ call' = [call EXCEPT ![w] = call'[w]] /\ UNCHANGED <<now, bucket>>
  BY DEF Sweep, IInv, TypeOK
<1>2. d # NoCall /\ d.step = "write" /\ k \in DOMAIN d.sweep /\ ~ Locked(k) /\ EvaluationOK(d)
  BY DEF Sweep, At, EvaluationsOK
<1>3. /\ c.writes = g /\ c.sweep = Without(d.sweep, k)
      /\ c.now = d.now /\ c.todo = d.todo /\ c.step = "write"
  BY DEF Evaluation
<1>4. k \notin DOMAIN d.writes
  BY <1>2 DEF Locked
<1>5. /\ \A x \in DOMAIN d.writes : x \in DOMAIN g /\ g[x] = d.writes[x]
      /\ \A x \in DOMAIN g : \/ x \in DOMAIN d.writes /\ g[x] = d.writes[x]
                             \/ x = k /\ g[x] = Absent /\ bucket[k] = d.sweep[k]
  BY <1>4 DEF With
<1> HIDE DEF g
<1>6. PICK r \in Request : CountsFor(d, r)
  BY <1>2 DEF EvaluationOK
<1>7. CountsFor(c, r)
  <2>1. c.todo \subseteq r
    BY <1>3, <1>6 DEF CountsFor
  <2>2. \A m \in r \ c.todo :
          /\ KeyOf(m, c.now) \in DOMAIN c.writes
          /\ c.writes[KeyOf(m, c.now)] # Absent
          /\ \A l \in c.todo : Rank[m.axis] < Rank[l.axis]
    BY <1>3, <1>5, <1>6 DEF CountsFor
  <2>3. \A x \in DOMAIN c.writes :
          c.writes[x] # Absent => \E m \in r \ c.todo : x = KeyOf(m, c.now)
    BY <1>3, <1>5, <1>6 DEF CountsFor
  <2>4. QED
    BY <2>1, <2>2, <2>3 DEF CountsFor
<1>8. SweepsExpired(c)
  <2>1. Expires(k) <= d.now /\ d.sweep[k] # Absent
    BY <1>2 DEF EvaluationOK, SweepsExpired
  <2>2. ASSUME NEW x \in DOMAIN c.sweep
        PROVE  x \in Key /\ Expires(x) <= c.now /\ c.sweep[x] # Absent
    BY <1>2, <1>3 DEF Without, EvaluationOK, SweepsExpired
  <2>3. ASSUME NEW x \in DOMAIN c.writes, c.writes[x] = Absent
        PROVE  Expires(x) <= c.now /\ bucket[x] # Absent
    BY <1>2, <1>3, <1>5, <2>1, <2>3 DEF EvaluationOK, SweepsExpired
  <2>4. QED
    BY <2>2, <2>3 DEF SweepsExpired
<1>9. EvaluationOK(c)
  BY <1>2, <1>3, <1>7, <1>8 DEF EvaluationOK
<1>10. QED
  BY <1>1, <1>9, EvaluationsStep

LEMMA CountOK ==
    ASSUME IInv, EvaluationsOK, NEW w \in Worker, NEW l \in UNION Request, Count(w, l)
    PROVE  EvaluationsOK'
<1> PICK d : d = call[w]
  OBVIOUS
<1> PICK k : k = KeyOf(l, d.now)
  OBVIOUS
<1> DEFINE g == With(d.writes, k, Upserted(bucket[k]))
<1> PICK c : c = Evaluation("write", d.now, d.todo \ {l}, d.sweep, g)
  OBVIOUS
<1>1. call'[w] = c /\ call' = [call EXCEPT ![w] = call'[w]] /\ UNCHANGED <<now, bucket>>
  BY DEF Count, IInv, TypeOK
<1>2. d # NoCall /\ d.step = "write" /\ First(l, d.todo) /\ ~ Locked(k) /\ EvaluationOK(d)
  BY DEF Count, Swept, At, Available, EvaluationsOK
<1>3. /\ c.writes = g /\ c.sweep = d.sweep
      /\ c.now = d.now /\ c.todo = d.todo \ {l} /\ c.step = "write"
  BY DEF Evaluation
<1>4. k \notin DOMAIN d.writes
  BY <1>2 DEF Locked
<1>5. Upserted(bucket[k]) # Absent
  <2>1. d.now \in 0 .. MaxTime
    BY <1>2 DEF IInv, TypeOK, TypeOfCall
  <2>2. bucket[k] \in {Absent} \cup Row
    BY <2>1, KeyOfInKey DEF IInv, TypeOK
  <2>3. QED
    BY <2>2, UpsertedType, RowAssumption
<1>6. /\ \A x \in DOMAIN d.writes : x \in DOMAIN g /\ g[x] = d.writes[x]
      /\ k \in DOMAIN g /\ g[k] # Absent
      /\ \A x \in DOMAIN g : (x \in DOMAIN d.writes /\ g[x] = d.writes[x]) \/ x = k
  BY <1>4, <1>5 DEF With
<1> HIDE DEF g
<1>7. PICK r \in Request : CountsFor(d, r)
  BY <1>2 DEF EvaluationOK
<1>8. CountsFor(c, r)
  <2>1. d.todo \subseteq r /\ l \in d.todo /\ l \in r
    BY <1>2, <1>7 DEF CountsFor, First
  <2>2. ASSUME NEW m \in r \ c.todo
        PROVE  /\ KeyOf(m, c.now) \in DOMAIN c.writes
               /\ c.writes[KeyOf(m, c.now)] # Absent
               /\ \A x \in c.todo : Rank[m.axis] < Rank[x.axis]
    <3>1. CASE m = l
      <4>1. ASSUME NEW x \in c.todo PROVE Rank[l.axis] < Rank[x.axis]
        <5>1. x \in d.todo /\ x # l /\ x \in r
          BY <1>3, <2>1
        <5>2. Rank[l.axis] <= Rank[x.axis]
          BY <1>2, <5>1 DEF First
        <5>3. Rank[l.axis] \in 1 .. 5 /\ Rank[x.axis] \in 1 .. 5
              /\ Rank[l.axis] # Rank[x.axis]
          BY <2>1, <5>1, RequestType
        <5>4. QED
          BY <5>2, <5>3
      <4>2. QED
        BY <1>3, <1>6, <3>1, <4>1
    <3>2. CASE m # l
      <4>1. m \in r \ d.todo
        BY <1>3, <3>2
      <4>2. KeyOf(m, d.now) \in DOMAIN d.writes /\ d.writes[KeyOf(m, d.now)] # Absent
        BY <1>7, <4>1 DEF CountsFor
      <4>3. \A x \in d.todo : Rank[m.axis] < Rank[x.axis]
        BY <1>7, <4>1 DEF CountsFor
      <4>4. KeyOf(m, d.now) \in DOMAIN g /\ g[KeyOf(m, d.now)] # Absent
        BY <1>6, <4>2
      <4>5. QED
        BY <1>3, <4>3, <4>4
    <3>3. QED
      BY <3>1, <3>2
  <2>3. ASSUME NEW x \in DOMAIN c.writes, c.writes[x] # Absent
        PROVE  \E m \in r \ c.todo : x = KeyOf(m, c.now)
    <3>1. CASE x = k
      BY <1>3, <2>1, <3>1
    <3>2. CASE x \in DOMAIN d.writes /\ g[x] = d.writes[x]
      <4>1. PICK m \in r \ d.todo : x = KeyOf(m, d.now)
        BY <1>3, <1>7, <2>3, <3>2 DEF CountsFor
      <4>2. QED
        BY <1>3, <4>1
    <3>3. QED
      BY <1>3, <1>6, <3>1, <3>2
  <2>4. QED
    BY <1>3, <2>1, <2>2, <2>3 DEF CountsFor
<1>9. SweepsExpired(c)
  <2>1. \A x \in DOMAIN c.sweep : x \in Key /\ Expires(x) <= c.now /\ c.sweep[x] # Absent
    BY <1>2, <1>3 DEF EvaluationOK, SweepsExpired
  <2>2. ASSUME NEW x \in DOMAIN c.writes, c.writes[x] = Absent
        PROVE  Expires(x) <= c.now /\ bucket[x] # Absent
    BY <1>2, <1>3, <1>6, <2>2 DEF EvaluationOK, SweepsExpired
  <2>3. QED
    BY <2>1, <2>2 DEF SweepsExpired
<1>10. EvaluationOK(c)
  BY <1>2, <1>3, <1>8, <1>9 DEF EvaluationOK
<1>11. QED
  BY <1>1, <1>10, EvaluationsStep

\* An evaluation that ends; the rows it leaves written are none of the others'.
LEMMA DecideOK ==
    ASSUME IInv, EvaluationsOK, NEW w \in Worker, Decide(w)
    PROVE  EvaluationsOK'
<1>1. /\ call[w] # NoCall /\ now' = now
      /\ call' = [call EXCEPT ![w] = NoCall]
      /\ \A k \in Key : k \notin DOMAIN call[w].writes => bucket'[k] = bucket[k]
  BY DEF Decide, Swept, At
<1>2. call'[w] = NoCall /\ \A v \in Worker : v # w => call'[v] = call[v]
  BY <1>1 DEF IInv, TypeOK
<1>3. ASSUME NEW v \in Worker, call'[v] # NoCall
      PROVE  EvaluationOK(call[v])'
  <2> PICK c : c = call[v]
    OBVIOUS
  <2>1. v # w /\ call'[v] = c /\ c # NoCall /\ EvaluationOK(c)
    BY <1>2, <1>3 DEF EvaluationsOK
  <2>2. ASSUME NEW k \in DOMAIN c.writes PROVE bucket'[k] = bucket[k]
    <3>1. k \in Key
      BY <2>1 DEF IInv, TypeOK, TypeOfCall
    <3>2. k \notin DOMAIN call[w].writes
      BY <1>1, <2>1, <3>1 DEF IInv, WritersExclude
    <3>3. QED
      BY <1>1, <3>1, <3>2
  <2>3. EvaluationOK(c)'
    BY <1>1, <2>1, <2>2 DEF EvaluationOK, SweepsExpired, CountsFor
  <2>4. QED
    BY <2>1, <2>3 DEF EvaluationOK, SweepsExpired, CountsFor
<1>4. QED
  BY <1>3 DEF EvaluationsOK

LEMMA AbortOK ==
    ASSUME IInv, EvaluationsOK, NEW w \in Worker, Abort(w) PROVE EvaluationsOK'
<1>1. call'[w] = NoCall /\ call' = [call EXCEPT ![w] = call'[w]] /\ UNCHANGED <<now, bucket>>
  BY DEF Abort, IInv, TypeOK
<1>2. QED
  BY <1>1, EvaluationsStep

LEMMA TickOK == ASSUME IInv, EvaluationsOK, Tick PROVE EvaluationsOK'
<1>1. now \in Nat /\ now' = now + 1 /\ UNCHANGED <<bucket, call>>
  BY PolicyAssumption DEF Tick, IInv, TypeOK
<1>2. ASSUME NEW w \in Worker, call[w] # NoCall PROVE EvaluationOK(call[w])'
  <2> PICK c : c = call[w]
    OBVIOUS
  <2>1. EvaluationOK(c) /\ c.now \in Nat
    BY <1>2, PolicyAssumption DEF EvaluationsOK, IInv, TypeOK, TypeOfCall
  <2>2. EvaluationOK(c)'
    BY <1>1, <2>1 DEF EvaluationOK, SweepsExpired, CountsFor
  <2>3. QED
    BY <1>1, <2>2 DEF EvaluationOK, SweepsExpired, CountsFor
<1>3. QED
  BY <1>1, <1>2 DEF EvaluationsOK

LEMMA NextEvaluations == IInv /\ EvaluationsOK /\ [Next]_vars => EvaluationsOK'
<1> SUFFICES ASSUME IInv, EvaluationsOK, [Next]_vars PROVE EvaluationsOK'
  OBVIOUS
<1>1. CASE UNCHANGED vars
  <2>1. UNCHANGED <<now, bucket, call>>
    BY <1>1 DEF vars
  <2>2. QED
    BY <2>1 DEF EvaluationsOK, EvaluationOK, SweepsExpired, CountsFor
<1>2. CASE Next
  BY <1>2, BeginOK, SelectOK, SweepOK, CountOK, DecideOK, AbortOK, TickOK DEF Next
<1>3. QED
  BY <1>1, <1>2

LEMMA EvaluationsInvariance == Spec => []EvaluationsOK
<1>1. Init => EvaluationsOK
  BY DEF Init, EvaluationsOK
<1>2. QED
  BY <1>1, Invariance, NextEvaluations, PTL DEF Spec

-----------------------------------------------------------------------------
(* Deadlock.                                                               *)

LEMMA Largest ==
    ASSUME NEW S \in SUBSET (1 .. 5), S # {} PROVE \E n \in S : \A m \in S : m <= n
<1>1. CASE 5 \in S
  BY <1>1
<1>2. CASE 5 \notin S /\ 4 \in S
  BY <1>2
<1>3. CASE {4, 5} \cap S = {} /\ 3 \in S
  BY <1>3
<1>4. CASE {3, 4, 5} \cap S = {} /\ 2 \in S
  BY <1>4
<1>5. CASE {2, 3, 4, 5} \cap S = {} /\ 1 \in S
  BY <1>5
<1>6. 1 \in S \/ 2 \in S \/ 3 \in S \/ 4 \in S \/ 5 \in S
  <2>1. PICK n \in 1 .. 5 : n \in S
    OBVIOUS
  <2>2. n = 1 \/ n = 2 \/ n = 3 \/ n = 4 \/ n = 5
    OBVIOUS
  <2>3. QED
    BY <2>1, <2>2
<1>7. QED
  BY <1>1, <1>2, <1>3, <1>4, <1>5, <1>6

\* The holder of a row that others wait for is itself at a later axis.
LEMMA HolderIsLater ==
    ASSUME IInv, EvaluationsOK, NEW v \in Counting, NEW w \in Counting,
           NEW l \in call[w].todo, KeyOf(l, call[w].now) \in DOMAIN call[v].writes,
           NEW m \in call[v].todo
    PROVE  Rank[l.axis] < Rank[m.axis]
<1> PICK c : c = call[v]
  OBVIOUS
<1> PICK k : k = KeyOf(l, call[w].now)
  OBVIOUS
<1>1. c # NoCall /\ v \in Worker /\ k \in DOMAIN c.writes /\ c.writes[k] # Absent
  BY DEF Counting, Swept, At
<1>2. PICK r \in Request : CountsFor(c, r)
  BY <1>1 DEF EvaluationsOK, EvaluationOK
<1>3. PICK x \in r \ c.todo : k = KeyOf(x, c.now)
  BY <1>1, <1>2 DEF CountsFor
<1>4. x.axis = l.axis
  BY <1>3 DEF KeyOf
<1>5. Rank[x.axis] < Rank[m.axis]
  BY <1>2, <1>3 DEF CountsFor
<1>6. QED
  BY <1>4, <1>5

\* Evaluations that have deleted nothing wait for rows in the order of the axes:
\* of any that wait, the one at the latest axis waits for none of the others.
THEOREM CountersAvoidDeadlock == Spec => []CountersNeverDeadlock
<1>1. ASSUME IInv, EvaluationsOK, NEW s \in SUBSET Counting, s # {}
      PROVE  \E w \in s : \A v \in s : ~ Blocks(v, w)
  <2>1. CASE \E w \in s : \A l \in call[w].todo : ~ First(l, call[w].todo)
    BY <2>1 DEF Blocks
  <2>2. CASE \A w \in s : \E l \in call[w].todo : First(l, call[w].todo)
    <3> DEFINE Waits(w, n) == \E l \in call[w].todo :
                                 First(l, call[w].todo) /\ n = Rank[l.axis]
               R == {n \in 1 .. 5 : \E w \in s : Waits(w, n)}
    <3>1. ASSUME NEW w \in s, NEW l \in call[w].todo
          PROVE  Rank[l.axis] \in 1 .. 5
      <4>1. PICK r \in Request : CountsFor(call[w], r)
        BY <1>1 DEF Counting, Swept, At, EvaluationsOK, EvaluationOK
      <4>2. l \in r
        BY <4>1 DEF CountsFor
      <4>3. QED
        BY <4>2, RequestType
    <3>2. R # {}
      <4>1. PICK w \in s : TRUE
        BY <1>1
      <4>2. PICK l \in call[w].todo : First(l, call[w].todo)
        BY <2>2
      <4>3. Rank[l.axis] \in R
        BY <3>1, <4>2
      <4>4. QED
        BY <4>3
    <3>3. R \in SUBSET (1 .. 5)
      OBVIOUS
    <3>4. PICK n \in R : \A m \in R : m <= n
      <4> HIDE DEF R
      <4>1. QED
        BY <3>2, <3>3, Largest
    <3>5. PICK w \in s : Waits(w, n)
      BY <3>4
    <3>6. ASSUME NEW v \in s, Blocks(v, w) PROVE FALSE
      <4>1. PICK l \in call[w].todo : /\ First(l, call[w].todo)
                                      /\ KeyOf(l, call[w].now) \in DOMAIN call[v].writes
        BY <3>6 DEF Blocks
      <4>2. PICK x \in call[w].todo : First(x, call[w].todo) /\ n = Rank[x.axis]
        BY <3>5
      <4>3. PICK m \in call[v].todo : First(m, call[v].todo)
        BY <2>2
      <4>4. Rank[m.axis] \in R
        BY <3>1, <4>3
      <4>5. Rank[l.axis] < Rank[m.axis]
        BY <1>1, <4>1, <4>3, HolderIsLater
      <4>6. Rank[x.axis] <= Rank[l.axis]
        BY <4>1, <4>2 DEF First
      <4>7. Rank[m.axis] \in 1 .. 5 /\ Rank[l.axis] \in 1 .. 5 /\ n \in 1 .. 5
        BY <3>1, <4>1, <4>3
      <4>8. Rank[m.axis] <= n
        BY <3>4, <4>4
      <4> HIDE DEF R, Waits
      <4>9. QED
        BY <4>2, <4>5, <4>6, <4>7, <4>8
    <3>7. QED
      BY <3>5, <3>6
  <2>3. QED
    BY <2>1, <2>2
<1>2. IInv /\ EvaluationsOK => CountersNeverDeadlock
  BY <1>1 DEF CountersNeverDeadlock
<1>3. QED
  BY <1>2, Invariance, EvaluationsInvariance, PTL

-----------------------------------------------------------------------------
(* The counters without transactions.                                      *)

LEMMA SameWindows ==
    /\ Counters!Key = Key
    /\ \A k : Counters!Expires(k) = Expires(k)
    /\ \A r, t : Counters!RowsOf(r, t) = {KeyOf(l, t) : l \in r}
BY DEF Counters!Key, Key, Counters!Expires, Expires, Counters!RowsOf, Counters!KeyOf, KeyOf

LEMMA CountedIs ==
    ASSUME NEW k \in Key
    PROVE  /\ Counted[k] = IF bucket[k] = Absent THEN 0 ELSE bucket[k].count
           /\ Counters!Full(k) <=> Counted[k] >= Maximum[k.axis]
BY DEF Counted, Counters!Full

\* A commit is the evaluation of its limits, at the time it began.
LEMMA CommitEvaluates ==
    ASSUME IInv, IInv', EvaluationsOK, NEW w \in Worker, Decide(w)
    PROVE  \E r \in Request, t \in 0 .. now : Counters!Evaluate(r, t)
<1> PICK c : c = call[w]
  OBVIOUS
<1>1. /\ c # NoCall /\ c.todo = {}
      /\ bucket' = [k \in Key |-> IF k \in DOMAIN c.writes
                                  THEN Decided(c, k) ELSE bucket[k]]
      /\ admitted' = [k \in Key |-> IF k \notin DOMAIN c.writes THEN admitted[k]
                                    ELSE IF c.writes[k] = Absent THEN 0
                                    ELSE admitted[k] + IF Denied(c) = {} THEN 1 ELSE 0]
      /\ audits' = [k \in Key |-> IF k \notin DOMAIN c.writes THEN audits[k]
                                  ELSE IF c.writes[k] = Absent THEN 0
                                  ELSE IF k \in Claimed(c) THEN audits[k] + 1
                                  ELSE audits[k]]
      /\ now' = now
  BY DEF Decide, Swept, At
<1>2. /\ DOMAIN c.writes \subseteq Key
      /\ c.now \in 0 .. MaxTime /\ c.now <= now /\ now \in Nat
      /\ SweepsExpired(c)
  BY <1>1, PolicyAssumption DEF IInv, TypeOK, TypeOfCall, EvaluationsOK, EvaluationOK
<1>3. PICK r \in Request : CountsFor(c, r)
  BY <1>1 DEF EvaluationsOK, EvaluationOK
<1> DEFINE rows == {KeyOf(l, c.now) : l \in r}
           gone == {k \in DOMAIN c.writes : c.writes[k] = Absent}
           admits == IF \E k \in rows : Counters!Full(k) THEN 0 ELSE 1
<1>4. /\ rows \subseteq Key /\ gone \subseteq Key
      /\ \A k \in Key : k \in rows <=> k \in DOMAIN c.writes /\ c.writes[k] # Absent
  BY <1>1, <1>2, <1>3 DEF CountsFor
<1>5. gone \subseteq Counters!Expired(c.now)
  <2> SUFFICES ASSUME NEW k \in gone PROVE k \in Counters!Expired(c.now)
    OBVIOUS
  <2>1. k \in Key /\ bucket[k] # Absent /\ Expires(k) <= c.now
    BY <1>2, <1>4 DEF SweepsExpired
  <2>2. Counted[k] > 0
    BY <2>1, CountedIs DEF IInv, TypeOK, Row
  <2>3. QED
    BY <2>1, <2>2, SameWindows DEF Counters!Expired
<1> HIDE DEF rows, gone
<1>6. ASSUME NEW k \in Key, k \in rows
      PROVE  /\ c.writes[k] = Upserted(bucket[k])
             /\ c.writes[k].count = Counted[k] + 1
             /\ Counters!Full(k) <=> k \in Denied(c)
             /\ bucket'[k] # Absent /\ bucket'[k].count = Counted[k] + 1
  <2>1. k \in DOMAIN c.writes /\ c.writes[k] # Absent
    BY <1>4, <1>6
  <2>2. c.writes[k] = Upserted(bucket[k]) /\ bucket[k] \in {Absent} \cup Row
    BY <1>1, <2>1 DEF IInv, TypeOK, WritesAreCurrent
  <2>3. c.writes[k].count = Counted[k] + 1 /\ Counted[k] \in Nat
    <3>1. Upserted(bucket[k]).count = IF bucket[k] = Absent THEN 1 ELSE bucket[k].count + 1
      BY <2>2, UpsertedType
    <3>2. bucket[k] # Absent => bucket[k].count \in Nat
      BY <2>2 DEF Row
    <3>3. QED
      BY <2>2, <3>1, <3>2, CountedIs
  <2>4. Counters!Full(k) <=> k \in Denied(c)
    <3>1. k \in Denied(c) <=> Over(k, c.writes[k])
      BY <2>1 DEF Denied
    <3>2. Over(k, c.writes[k]) <=> Counted[k] + 1 > Maximum[k.axis]
      BY <2>3 DEF Over
    <3>3. Counters!Full(k) <=> Counted[k] >= Maximum[k.axis]
      BY CountedIs
    <3>4. QED
      BY <2>3, <3>1, <3>2, <3>3, KeyType
  <2>5. bucket'[k] = [count |-> c.writes[k].count,
                      audited |-> c.writes[k].audited \/ k \in Claimed(c)]
    BY <1>1, <2>1 DEF Decided
  <2>6. bucket'[k] # Absent
    <3>1. Upserted(bucket[k]) \in Row
      BY <2>2, UpsertedType
    <3>2. bucket'[k] \in Row
      BY <2>2, <2>5, <3>1 DEF Row
    <3>3. QED
      BY <3>2, RowAssumption
  <2>7. QED
    BY <2>2, <2>3, <2>4, <2>5, <2>6
<1>7. Denied(c) = {} <=> ~ \E k \in rows : Counters!Full(k)
  <2>1. \A k \in Denied(c) : k \in rows
    BY <1>2, <1>4 DEF Denied
  <2>2. QED
    BY <1>4, <1>6, <2>1
<1>8. Counted' = [k \in Key |-> IF k \in rows THEN Counted[k] + 1
                                ELSE IF k \in gone THEN 0 ELSE Counted[k]]
  <2>1. Counted' = [k \in Key |-> IF bucket'[k] = Absent THEN 0 ELSE bucket'[k].count]
    BY DEF Counted
  <2>2. ASSUME NEW k \in Key
        PROVE  (IF bucket'[k] = Absent THEN 0 ELSE bucket'[k].count)
               = IF k \in rows THEN Counted[k] + 1
                 ELSE IF k \in gone THEN 0 ELSE Counted[k]
    <3>1. CASE k \in rows
      BY <1>6, <3>1
    <3>2. CASE k \notin rows /\ k \in gone
      BY <1>1, <3>2 DEF gone, Decided
    <3>3. CASE k \notin rows /\ k \notin gone
      <4>1. bucket'[k] = bucket[k]
        BY <1>1, <1>4, <3>3 DEF gone
      <4>2. QED
        BY <3>3, <4>1, CountedIs
    <3>4. QED
      BY <3>1, <3>2, <3>3
  <2>3. QED
    BY <2>1, <2>2
<1>9. admitted' = [k \in Key |-> IF k \in rows THEN admitted[k] + admits
                                 ELSE IF k \in gone THEN 0 ELSE admitted[k]]
  <2>1. (IF Denied(c) = {} THEN 1 ELSE 0) = admits
    BY <1>7
  <2>2. ASSUME NEW k \in Key
        PROVE  admitted'[k] = IF k \in rows THEN admitted[k] + admits
                              ELSE IF k \in gone THEN 0 ELSE admitted[k]
    <3> HIDE DEF admits
    <3>1. QED
      BY <1>1, <1>4, <2>1 DEF gone
  <2>3. admitted' = [k \in Key |-> admitted'[k]]
    BY DEF IInv, TypeOK
  <2>4. QED
    BY <2>2, <2>3
<1>10. audits' = [k \in Key |-> IF k \in rows THEN (IF Counters!Full(k) THEN 1 ELSE 0)
                                ELSE IF k \in gone THEN 0 ELSE audits[k]]
  <2>1. ASSUME NEW k \in Key
        PROVE  audits'[k] = IF k \in rows THEN (IF Counters!Full(k) THEN 1 ELSE 0)
                            ELSE IF k \in gone THEN 0 ELSE audits[k]
    <3>1. CASE k \in rows
      <4>1. audits'[k] = IF bucket'[k].count > Maximum[k.axis] THEN 1 ELSE 0
        BY <1>6, <3>1 DEF IInv, RowsAreTrue, TrueTo
      <4>2. Over(k, c.writes[k]) <=> bucket'[k].count > Maximum[k.axis]
        BY <1>6, <3>1 DEF Over
      <4>3. Counters!Full(k) <=> Over(k, c.writes[k])
        BY <1>4, <1>6, <3>1 DEF Denied
      <4>4. QED
        BY <3>1, <4>1, <4>2, <4>3
    <3>2. CASE k \notin rows
      BY <1>1, <1>4, <3>2 DEF gone
    <3>3. QED
      BY <3>1, <3>2
  <2>2. audits' = [k \in Key |-> audits'[k]]
    BY DEF IInv, TypeOK
  <2>3. QED
    BY <2>1, <2>2
<1>11. ASSUME NEW k \in rows PROVE Counters!Counts(k, admits)
  BY <1>4, <1>8, <1>9, <1>10, <1>11 DEF Counters!Counts
<1>12. ASSUME NEW k \in Key \ rows
       PROVE  Counters!Keeps(k) \/ (k \in Counters!Expired(c.now) /\ Counters!Forgets(k))
  BY <1>5, <1>8, <1>9, <1>10, <1>12 DEF Counters!Keeps, Counters!Forgets
<1>13. {Counted', admitted', audits'} \subseteq [Key -> Nat]
  <2>1. admitted' \in [Key -> Nat] /\ audits' \in [Key -> Nat]
        /\ bucket' \in [Key -> {Absent} \cup Row]
    BY DEF IInv, TypeOK
  <2>2. Counted' \in [Key -> Nat]
    BY <2>1 DEF Counted, Row
  <2>3. QED
    BY <2>1, <2>2
<1>14. Counters!RowsOf(r, c.now) = rows /\ Counters!Key = Key
  BY SameWindows DEF rows
<1> HIDE DEF admits
<1>15. admits = IF \E k \in rows : Counters!Full(k) THEN 0 ELSE 1
  BY DEF admits
<1>16. Counters!Evaluate(r, c.now)
  BY <1>1, <1>11, <1>12, <1>13, <1>14, <1>15 DEF Counters!Evaluate
<1>17. QED
  BY <1>2, <1>16

\* Evaluations that interleave, wait, abort and crash are, to whoever asks whether
\* an attempt is admitted, evaluations done one after the other.
THEOREM CountersImplemented == Spec => ImplementsCounters
<1>1. Init => Counters!Init
  <2> SUFFICES ASSUME Init PROVE Counters!Init
    OBVIOUS
  <2>1. Counted = [k \in Key |-> 0]
    BY DEF Init, Counted
  <2>2. QED
    BY <2>1, SameWindows DEF Init, Counters!Init
<1>2. IInv /\ IInv' /\ EvaluationsOK /\ [Next]_vars => [Counters!Next]_(Counters!vars)
  <2> SUFFICES ASSUME IInv, IInv', EvaluationsOK, [Next]_vars
               PROVE  [Counters!Next]_(Counters!vars)
    OBVIOUS
  <2>1. UNCHANGED <<now, bucket, admitted, audits>> => UNCHANGED Counters!vars
    BY DEF Counters!vars, Counted
  <2>2. CASE UNCHANGED vars
    BY <2>1, <2>2 DEF vars
  <2>3. CASE \E w \in Worker, r \in Request : Begin(w, r)
    BY <2>1, <2>3 DEF Begin
  <2>4. CASE \E w \in Worker : Select(w) \/ Abort(w)
    BY <2>1, <2>4 DEF Select, Abort
  <2>5. CASE \E w \in Worker, k \in Key : Sweep(w, k)
    BY <2>1, <2>5 DEF Sweep
  <2>6. CASE \E w \in Worker, l \in UNION Request : Count(w, l)
    BY <2>1, <2>6 DEF Count
  <2>7. CASE \E w \in Worker : Decide(w)
    BY <2>7, CommitEvaluates DEF Counters!Next
  <2>8. CASE Tick
    <3>1. Counted' = Counted
      BY <2>8 DEF Tick, Counted
    <3>2. QED
      BY <2>8, <3>1 DEF Tick, Counters!Tick, Counters!Next
  <2>9. QED
    BY <2>2, <2>3, <2>4, <2>5, <2>6, <2>7, <2>8 DEF Next
<1>3. QED
  BY <1>1, <1>2, Invariance, EvaluationsInvariance, PTL
  DEF Spec, ImplementsCounters, Counters!Spec

=============================================================================
