--------------------------- MODULE SessionsProofs ---------------------------
(***************************************************************************)
(* The invariant of Sessions is inductive, and what follows from it, for   *)
(* any workers, accounts, clocks and lifetimes.                            *)
(***************************************************************************)
EXTENDS SessionsInvariant, TLAPS

-----------------------------------------------------------------------------
\* Rows

LEMMA RowFields ==
  ASSUME NEW r \in Row
  PROVE  /\ r.account \in Account /\ r.family \in Nat \ {0} /\ r.parent \in Nat
         /\ r.version \in Nat \ {0} /\ r.status \in Status
         /\ r.idle \in Nat /\ r.absolute \in Nat /\ r.idle <= r.absolute
  BY DEF Row

LEMMA RowsAreTyped ==
  ASSUME TypeOK
  PROVE  /\ Len(session) \in Nat
         /\ session \in [1 .. Len(session) -> Row]
         /\ \A i \in 1 .. Len(session) : session[i] \in Row
  BY DEF TypeOK

\* rows only move on, and a family that has ended does not come back
MovesOn ==
    /\ session' \in Seq(Row)
    /\ Len(session) <= Len(session')
    /\ \A i \in 1 .. Len(session) : RowMovedOn(session[i], session'[i])
    /\ \A i \in 1 .. Len(session') :
          session'[i].status = "ACTIVE" /\ session'[i].family \in 1 .. Len(session) =>
              \E j \in 1 .. Len(session) :
                  session[j].family = session'[i].family /\ session[j].status = "ACTIVE"

\* ... and no session is added
Quiet == MovesOn /\ Len(session') = Len(session)

LEMMA SameIsQuiet ==
  ASSUME TypeOK, UNCHANGED session
  PROVE  Quiet
  BY RowsAreTyped DEF Quiet, MovesOn, RowMovedOn, TypeOK

LEMMA QuietIfEachMovesOn ==
  ASSUME TypeOK, session' \in Seq(Row), Len(session') = Len(session),
         \A i \in 1 .. Len(session) : RowMovedOn(session[i], session'[i])
  PROVE  Quiet
  <1>1. \A i \in 1 .. Len(session) :
           session'[i].status = "ACTIVE" => session[i].status = "ACTIVE"
                                              /\ session[i].family = session'[i].family
    BY DEF RowMovedOn
  <1> QED
    BY <1>1, RowsAreTyped DEF Quiet, MovesOn

LEMMA EndedIsQuiet ==
  ASSUME TypeOK, NEW rows \in SUBSET (1 .. Len(session)), NEW status \in Status,
         status # "ACTIVE", \A i \in rows : session[i].status = "ACTIVE",
         session' = Ended(rows, status)
  PROVE  /\ Quiet
         /\ \A i \in rows : session'[i].status = status
         /\ \A i \in 1 .. Len(session) \ rows : session'[i] = session[i]
  <1> DEFINE n == Len(session)
  <1>1. n \in Nat /\ \A i \in 1 .. n : session[i] \in Row
    BY RowsAreTyped
  <1>2. \A i \in 1 .. n : [session[i] EXCEPT !.status = status] \in Row
    BY <1>1 DEF Row
  <1>3. session' \in [1 .. n -> Row]
    BY <1>1, <1>2 DEF Ended
  <1>4. session' \in Seq(Row) /\ Len(session') = n
    BY <1>1, <1>3
  <1>5. \A i \in 1 .. n : session'[i] = IF i \in rows
                                        THEN [session[i] EXCEPT !.status = status]
                                        ELSE session[i]
    BY DEF Ended
  <1>6. \A i \in 1 .. n : RowMovedOn(session[i], session'[i])
    BY <1>1, <1>5 DEF RowMovedOn, Row
  <1>7. \A i \in rows : session'[i].status = status
    BY <1>1, <1>5 DEF Row
  <1> QED
    BY <1>4, <1>5, <1>6, <1>7, QuietIfEachMovesOn

LEMMA IdleIsBounded ==
  ASSUME NEW at \in Nat, NEW absolute \in Nat
  PROVE  IdleFrom(at, absolute) \in Nat /\ IdleFrom(at, absolute) <= absolute
  BY TtlAssumption DEF IdleFrom

LEMMA TouchedIsQuiet ==
  ASSUME TypeOK, NEW s \in 1 .. Len(session), NEW at \in Nat,
         session' = [session EXCEPT ![s].idle = SlidIdle(at, session[s].absolute)]
  PROVE  Quiet /\ session'[s].status = session[s].status
  <1> DEFINE n == Len(session)
             x == SlidIdle(at, session[s].absolute)
  <1>1. n \in Nat /\ session \in [1 .. n -> Row] /\ session[s] \in Row
    BY RowsAreTyped
  <1>2. x \in Nat /\ x <= session[s].absolute
    BY <1>1, RowFields, IdleIsBounded DEF SlidIdle
  <1> HIDE DEF x
  <1>3. [session[s] EXCEPT !.idle = x] \in Row
    BY <1>1, <1>2 DEF Row
  <1>4. session' = [session EXCEPT ![s] = [session[s] EXCEPT !.idle = x]]
    BY DEF x
  <1>5. session' \in [1 .. n -> Row]
    BY <1>1, <1>3, <1>4
  <1>6. session' \in Seq(Row) /\ Len(session') = n
    BY <1>1, <1>5
  <1>7. \A i \in 1 .. n : RowMovedOn(session[i], session'[i])
    BY <1>1, <1>4 DEF RowMovedOn, Row
  <1>8. session'[s].status = session[s].status
    BY <1>1, <1>4 DEF Row
  <1> QED
    BY <1>6, <1>7, <1>8, QuietIfEachMovesOn

VersionsGrow == \A a \in Account : version[a] \in Nat /\ version'[a] \in Nat
                                      /\ version[a] <= version'[a]

-----------------------------------------------------------------------------
\* What every change of the rows keeps

LEMMA MovedOnTwice ==
  ASSUME NEW q, NEW r, NEW t, RowMovedOn(q, r), RowMovedOn(r, t)
  PROVE  RowMovedOn(q, t)
  BY DEF RowMovedOn

LEMMA ViewFields ==
  ASSUME NEW v \in View
  PROVE  /\ v.account \in Account /\ v.subject \in Nat /\ v.began \in Nat
         /\ v.seen \in Seq(Row) /\ Len(v.seen) \in Nat
         /\ v.version \in Nat \ {0} /\ v.active \in BOOLEAN
         /\ \A i \in 1 .. Len(v.seen) : v.seen[i] \in Row
  <1>1. v.seen \in Seq(Row)
    BY DEF View
  <1> QED
    BY <1>1 DEF View

LEMMA ViewsAreKept ==
  ASSUME TypeOK, NEW v \in Worker, ViewInv(v), MovesOn, VersionsGrow,
         now' \in Nat, now <= now', pc'[v] = pc[v], view'[v] = view[v]
  PROVE  ViewInv(v)'
  <1> SUFFICES ASSUME pc[v] # "idle"
               PROVE  ViewInv(v)'
    BY DEF ViewInv
  <1> DEFINE seen == view[v].seen
  <1>1. /\ view[v] \in View /\ view[v].began <= now /\ SeesThePast(v) /\ EndedStaysEnded(v)
        /\ HasSubject(v) /\ view[v].version <= version[view[v].account]
    BY DEF ViewInv
  <1>2. /\ Len(seen) \in Nat /\ Len(session) \in Nat /\ Len(session') \in Nat
        /\ Len(seen) <= Len(session) /\ Len(session) <= Len(session')
        /\ view[v].account \in Account /\ view[v].version \in Nat /\ view[v].began \in Nat
    BY <1>1, ViewFields, RowsAreTyped DEF MovesOn, SeesThePast
  <1>3. view[v].began <= now'
    BY <1>1, <1>2 DEF TypeOK
  <1>4. view[v].version <= version'[view[v].account]
    BY <1>1, <1>2 DEF VersionsGrow
  <1>5. HasSubject(v)'
    BY <1>1 DEF HasSubject, Seen
  <1>6. SeesThePast(v)'
    <2>1. ASSUME NEW i \in 1 .. Len(seen)
          PROVE  RowMovedOn(seen[i], session'[i])
      <3>1. i \in 1 .. Len(session) /\ RowMovedOn(seen[i], session[i])
        BY <1>1, <1>2 DEF SeesThePast
      <3>2. RowMovedOn(session[i], session'[i])
        BY <3>1 DEF MovesOn
      <3> QED
        BY <3>1, <3>2, MovedOnTwice
    <2>2. Len(seen) <= Len(session')
      BY <1>2
    <2> QED
      BY <2>1, <2>2 DEF SeesThePast
  <1>7. EndedStaysEnded(v)'
    <2> SUFFICES ASSUME NEW i \in 1 .. Len(session'), session'[i].status = "ACTIVE",
                        session'[i].family \in 1 .. Len(seen)
                 PROVE  \E j \in 1 .. Len(seen) : /\ seen[j].family = session'[i].family
                                                  /\ seen[j].status = "ACTIVE"
      BY DEF EndedStaysEnded
    <2>1. session'[i].family \in 1 .. Len(session)
      BY <1>2
    <2>2. PICK j \in 1 .. Len(session) :
             session[j].family = session'[i].family /\ session[j].status = "ACTIVE"
      BY <2>1 DEF MovesOn
    <2> QED
      BY <1>1, <2>2 DEF EndedStaysEnded
  <1> QED
    BY <1>1, <1>3, <1>4, <1>5, <1>6, <1>7 DEF ViewInv

LEMMA QuietRowsAreKept ==
  ASSUME TypeOK, RowsInv, Quiet, VersionsGrow
  PROVE  RowsInv'
  <1> DEFINE n == Len(session)
  <1>1. /\ n \in Nat /\ Len(session') = n
        /\ \A i \in 1 .. n : session[i] \in Row /\ RowMovedOn(session[i], session'[i])
    BY RowsAreTyped DEF Quiet, MovesOn
  <1>2. \A i \in 1 .. n :
           /\ session'[i].account = session[i].account
           /\ session'[i].family = session[i].family
           /\ session'[i].parent = session[i].parent
           /\ session'[i].version = session[i].version
           /\ session'[i].absolute = session[i].absolute
           /\ session[i].status # "ACTIVE" => session'[i].status = session[i].status
    BY <1>1 DEF RowMovedOn
  <1>3. FamiliesHaveRoots'
    <2>1. \A i \in 1 .. n : session[i].family \in 1 .. n
      BY <1>1 DEF RowsInv, FamiliesHaveRoots
    <2> QED
      BY <1>1, <1>2, <2>1 DEF RowsInv, FamiliesHaveRoots
  <1>4. VersionsArePast'
    <2> SUFFICES ASSUME NEW i \in 1 .. n
                 PROVE  session'[i].version <= version'[session'[i].account]
      BY <1>1 DEF VersionsArePast
    <2>1. session[i].version \in Nat /\ session[i].account \in Account
      BY <1>1, RowFields
    <2>2. session[i].version <= version[session[i].account]
      BY DEF RowsInv, VersionsArePast
    <2> QED
      BY <1>2, <2>1, <2>2 DEF VersionsGrow
  <1>5. OneActivePerFamily'
    BY <1>1, <1>2 DEF RowsInv, FamiliesAreChains, OneActivePerFamily
  <1>6. ASSUME NEW i \in 1 .. n
        PROVE  IF session'[i].parent = 0 THEN session'[i].family = i
                                         ELSE Succeeds(i, session[i].parent)'
    <2>1. CASE session[i].parent = 0
      BY <1>2, <2>1 DEF RowsInv, FamiliesAreChains
    <2>2. CASE session[i].parent # 0
      <3>1. Succeeds(i, session[i].parent)
        BY <2>2 DEF RowsInv, FamiliesAreChains
      <3>2. session[i].parent \in 1 .. n
        BY <3>1 DEF Succeeds
      <3> HIDE DEF n
      <3>3. session[session[i].parent].status = "ROTATED" /\ "ROTATED" # "ACTIVE"
        BY <3>1 DEF Succeeds
      <3>4. session'[session[i].parent].status = "ROTATED"
        BY <1>2, <3>2, <3>3
      <3> QED
        BY <1>1, <1>2, <2>2, <3>1, <3>2, <3>4 DEF Succeeds
    <2> QED
      BY <2>1, <2>2
  <1>7. \A i, j \in 1 .. n :
           session'[i].parent = session'[j].parent /\ session'[i].parent # 0 => i = j
    BY <1>2 DEF RowsInv, FamiliesAreChains
  <1>8. FamiliesAreChains'
    BY <1>1, <1>2, <1>5, <1>6, <1>7 DEF FamiliesAreChains, Succeeds
  <1> QED
    BY <1>3, <1>4, <1>8 DEF RowsInv

-----------------------------------------------------------------------------
\* A new row

LEMMA NewSessionIsARow ==
  ASSUME NEW a \in Account, NEW f \in Nat \ {0}, NEW p \in Nat, NEW v \in Nat \ {0},
         NEW at \in Nat, NEW absolute \in Nat
  PROVE  NewSession(a, f, p, v, at, absolute) \in Row
  BY IdleIsBounded DEF NewSession, Row, Status

\* the rows after `rows` was stored and `row` appended to it
Appended(rows, row) ==
    /\ session' \in Seq(Row)
    /\ Len(session') = Len(session) + 1
    /\ session'[Len(session) + 1] = row
    /\ \A i \in 1 .. Len(session) : session'[i] = rows[i]

LEMMA AppendedRows ==
  ASSUME TypeOK, NEW rows \in Seq(Row), Len(rows) = Len(session), NEW row \in Row,
         session' = Append(rows, row)
  PROVE  Appended(rows, row)
  BY DEF TypeOK, Appended

LEMMA CreateKeepsRows ==
  ASSUME TypeOK, RowsInv, VersionsGrow, NEW row \in Row, Appended(session, row),
         row.family = Len(session) + 1, row.parent = 0,
         row.version <= version[row.account]
  PROVE  MovesOn /\ RowsInv'
  <1> DEFINE n == Len(session)
  <1>1. /\ n \in Nat /\ Len(session') = n + 1 /\ session' \in Seq(Row)
        /\ session'[n + 1] = row
        /\ \A i \in 1 .. n : session'[i] = session[i] /\ session[i] \in Row
        /\ \A i \in 1 .. n + 1 : i \in 1 .. n \/ i = n + 1
    BY RowsAreTyped DEF Appended
  <1>2. MovesOn
    BY <1>1 DEF MovesOn, RowMovedOn
  <1>3. \A i \in 1 .. n : session[i].family \in 1 .. n /\ session[i].parent \in 0 .. n
    BY <1>1, RowFields DEF RowsInv, FamiliesHaveRoots
  <1>4. FamiliesHaveRoots'
    <2>1. ASSUME NEW i \in 1 .. n
          PROVE  /\ session'[i].family \in 1 .. i
                 /\ session'[session'[i].family].parent = 0
                 /\ session'[session'[i].family].absolute = session'[i].absolute
                 /\ session'[i].parent < i
      BY <1>1, <1>3 DEF RowsInv, FamiliesHaveRoots
    <2>2. /\ row.family \in 1 .. n + 1 /\ session'[row.family] = row /\ row.parent < n + 1
      BY <1>1
    <2> QED
      BY <1>1, <2>1, <2>2 DEF FamiliesHaveRoots
  <1>5. VersionsArePast'
    <2>1. ASSUME NEW i \in 1 .. n + 1
          PROVE  session'[i].version <= version[session'[i].account]
      BY <1>1 DEF RowsInv, VersionsArePast
    <2>2. ASSUME NEW i \in 1 .. n + 1
          PROVE  session'[i].version \in Nat /\ session'[i].account \in Account
      BY <1>1, RowFields
    <2>3. ASSUME NEW i \in 1 .. n + 1
          PROVE  session'[i].version <= version'[session'[i].account]
      BY <2>1, <2>2 DEF VersionsGrow
    <2> QED
      BY <1>1, <2>3 DEF VersionsArePast
  <1>6. OneActivePerFamily'
    <2>1. \A i \in 1 .. n : session'[i].family # n + 1
      BY <1>1, <1>3
    <2> QED
      BY <1>1, <2>1 DEF RowsInv, FamiliesAreChains, OneActivePerFamily
  <1>7. ASSUME NEW i \in 1 .. n + 1
        PROVE  IF session'[i].parent = 0 THEN session'[i].family = i
                                         ELSE Succeeds(i, session[i].parent)'
    <2>1. CASE i = n + 1
      BY <1>1, <2>1
    <2>2. CASE i \in 1 .. n /\ session[i].parent = 0
      BY <1>1, <2>2 DEF RowsInv, FamiliesAreChains
    <2>3. CASE i \in 1 .. n /\ session[i].parent # 0
      <3>1. Succeeds(i, session[i].parent)
        BY <2>3 DEF RowsInv, FamiliesAreChains
      <3> QED
        BY <1>1, <2>3, <3>1 DEF Succeeds
    <2> QED
      BY <1>1, <2>1, <2>2, <2>3
  <1>8. \A i, j \in 1 .. n + 1 :
           session'[i].parent = session'[j].parent /\ session'[i].parent # 0 => i = j
    BY <1>1 DEF RowsInv, FamiliesAreChains
  <1>9. FamiliesAreChains'
    <2>1. Len(session') = n + 1
      BY <1>1
    <2> QED
      BY <2>1, <1>6, <1>7, <1>8 DEF FamiliesAreChains, Succeeds
  <1> QED
    BY <1>2, <1>4, <1>5, <1>9 DEF RowsInv

LEMMA RotateKeepsRows ==
  ASSUME TypeOK, RowsInv, VersionsGrow, NEW s \in 1 .. Len(session), NEW row \in Row,
         Appended(RotatedFrom(s), row), session[s].status = "ACTIVE",
         \A i \in 1 .. Len(session) : session[i].parent # s,
         row.parent = s, row.family = session[s].family,
         row.account = session[s].account, row.version = session[s].version,
         row.absolute = session[s].absolute
  PROVE  MovesOn /\ RowsInv'
  <1> DEFINE n == Len(session)
             old == [session[s] EXCEPT !.status = "ROTATED"]
  <1>1. /\ n \in Nat /\ Len(session') = n + 1 /\ session' \in Seq(Row)
        /\ session \in [1 .. n -> Row]
        /\ session'[n + 1] = row
        /\ \A i \in 1 .. n + 1 : i \in 1 .. n \/ i = n + 1
    <2>1. n \in Nat /\ session \in [1 .. n -> Row]
      BY RowsAreTyped
    <2>2. session' \in Seq(Row) /\ Len(session') = n + 1 /\ session'[n + 1] = row
      BY DEF Appended
    <2>3. \A i \in 1 .. n + 1 : i \in 1 .. n \/ i = n + 1
      BY <2>1
    <2> HIDE DEF n
    <2> QED
      BY <2>1, <2>2, <2>3
  <1>2. /\ session'[s] = old
        /\ \A i \in 1 .. n : i # s => session'[i] = session[i]
    BY <1>1 DEF Appended, RotatedFrom
  <1>3. /\ old.status = "ROTATED" /\ old.family = session[s].family
        /\ old.account = session[s].account /\ old.parent = session[s].parent
        /\ old.version = session[s].version /\ old.absolute = session[s].absolute
    BY <1>1 DEF Row
  <1> HIDE DEF old
  <1>4. \A i \in 1 .. n : RowMovedOn(session[i], session'[i])
    BY <1>2, <1>3 DEF RowMovedOn
  <1>5. \A i \in 1 .. n :
           /\ session[i] \in Row
           /\ session'[i].account = session[i].account
           /\ session'[i].family = session[i].family
           /\ session'[i].parent = session[i].parent
           /\ session'[i].version = session[i].version
           /\ session'[i].absolute = session[i].absolute
           /\ session'[i].status = "ACTIVE" => i # s /\ session[i].status = "ACTIVE"
           /\ session[i].status = "ROTATED" => session'[i].status = "ROTATED"
    BY <1>1, <1>2, <1>3
  <1>6. MovesOn
    BY <1>1, <1>4, <1>5 DEF MovesOn
  <1>7. \A i \in 1 .. n : session[i].family \in 1 .. n /\ session[i].parent \in 0 .. n
    BY <1>1, <1>5, RowFields DEF RowsInv, FamiliesHaveRoots
  <1>8. FamiliesHaveRoots'
    <2>1. ASSUME NEW i \in 1 .. n
          PROVE  /\ session'[i].family \in 1 .. i
                 /\ session'[session'[i].family].parent = 0
                 /\ session'[session'[i].family].absolute = session'[i].absolute
                 /\ session'[i].parent < i
      <3>1. /\ session[i].family \in 1 .. i
            /\ session[session[i].family].parent = 0
            /\ session[session[i].family].absolute = session[i].absolute
            /\ session[i].parent < i
        BY DEF RowsInv, FamiliesHaveRoots
      <3>2. session[i].family \in 1 .. n
        BY <1>7
      <3> HIDE DEF n
      <3> QED
        BY <1>5, <3>1, <3>2
    <2>2. /\ row.family \in 1 .. n + 1 /\ session'[row.family].parent = 0
          /\ session'[row.family].absolute = row.absolute
          /\ row.parent < n + 1
      BY <1>1, <1>5, <1>7, <2>1
    <2> QED
      BY <1>1, <2>1, <2>2 DEF FamiliesHaveRoots
  <1>9. VersionsArePast'
    <2>1. ASSUME NEW i \in 1 .. n + 1
          PROVE  session'[i].version <= version[session'[i].account]
      <3>1. \A j \in 1 .. n : session[j].version <= version[session[j].account]
        BY DEF RowsInv, VersionsArePast
      <3>2. CASE i \in 1 .. n
        BY <1>5, <3>1, <3>2
      <3>3. CASE i = n + 1
        BY <1>1, <3>1, <3>3
      <3> QED
        BY <1>1, <3>2, <3>3
    <2>2. ASSUME NEW i \in 1 .. n + 1
          PROVE  session'[i].version \in Nat /\ session'[i].account \in Account
      BY <1>1, RowFields
    <2>3. ASSUME NEW i \in 1 .. n + 1
          PROVE  session'[i].version <= version'[session'[i].account]
      BY <2>1, <2>2 DEF VersionsGrow
    <2> QED
      BY <1>1, <2>3 DEF VersionsArePast
  <1>10. OneActivePerFamily'
    <2>1. \A i \in 1 .. n :
             session'[i].status = "ACTIVE" => session'[i].family # session[s].family
      BY <1>5 DEF RowsInv, FamiliesAreChains, OneActivePerFamily
    <2>2. \A i, j \in 1 .. n :
             session'[i].family = session'[j].family
               /\ session'[i].status = "ACTIVE" /\ session'[j].status = "ACTIVE" => i = j
      BY <1>5 DEF RowsInv, FamiliesAreChains, OneActivePerFamily
    <2> QED
      BY <1>1, <2>1, <2>2 DEF OneActivePerFamily
  <1>11. ASSUME NEW i \in 1 .. n + 1
         PROVE  IF session'[i].parent = 0 THEN session'[i].family = i
                                          ELSE Succeeds(i, session[i].parent)'
    <2>1. CASE i = n + 1
      <3>1. s \in 1 .. Len(session') /\ s # 0
        BY <1>1
      <3> QED
        BY <1>1, <1>2, <1>3, <2>1, <3>1 DEF Succeeds
    <2>2. CASE i \in 1 .. n /\ session[i].parent = 0
      BY <1>5, <2>2 DEF RowsInv, FamiliesAreChains
    <2>3. CASE i \in 1 .. n /\ session[i].parent # 0
      <3>1. Succeeds(i, session[i].parent)
        BY <2>3 DEF RowsInv, FamiliesAreChains
      <3>2. session[i].parent \in 1 .. n /\ session[i].parent \in 1 .. Len(session')
        BY <1>1, <3>1 DEF Succeeds
      <3>3. session[session[i].parent].status = "ROTATED"
        BY <3>1 DEF Succeeds
      <3>4. session'[session[i].parent].status = "ROTATED"
        BY <1>5, <3>2, <3>3
      <3> DEFINE p == session[i].parent
      <3>5. /\ session[i].family = session[p].family
            /\ session[i].account = session[p].account
            /\ session[i].version = session[p].version
            /\ session[i].absolute = session[p].absolute
        BY <3>1 DEF Succeeds
      <3>6. /\ session'[i].parent = p /\ p # 0
            /\ session'[i].family = session'[p].family
            /\ session'[i].account = session'[p].account
            /\ session'[i].version = session'[p].version
            /\ session'[i].absolute = session'[p].absolute
        BY <1>5, <2>3, <3>2, <3>5
      <3> QED
        BY <3>2, <3>4, <3>6 DEF Succeeds
    <2> QED
      BY <1>1, <2>1, <2>2, <2>3
  <1>12. \A i, j \in 1 .. n + 1 :
            session'[i].parent = session'[j].parent /\ session'[i].parent # 0 => i = j
    BY <1>1, <1>5 DEF RowsInv, FamiliesAreChains
  <1>13. FamiliesAreChains'
    <2>1. Len(session') = n + 1
      BY <1>1
    <2> QED
      BY <2>1, <1>10, <1>11, <1>12 DEF FamiliesAreChains, Succeeds
  <1> QED
    BY <1>6, <1>8, <1>9, <1>13 DEF RowsInv

-----------------------------------------------------------------------------
\* What a transaction may rely on when it commits

LEMMA SeenRows ==
  ASSUME SessionInv, NEW w \in Worker, pc[w] # "idle"
  PROVE  /\ view[w] \in View /\ view[w].account \in Account
         /\ view[w].version \in Nat \ {0} /\ view[w].version <= version[view[w].account]
         /\ \A i \in 1 .. Len(view[w].seen) :
               /\ i \in 1 .. Len(session) /\ view[w].seen[i] \in Row
               /\ RowMovedOn(view[w].seen[i], session[i])
  <1>1. view[w] \in View /\ SeesThePast(w) /\ view[w].version <= version[view[w].account]
    BY DEF SessionInv, ViewInv
  <1>2. Len(view[w].seen) \in Nat /\ Len(session) \in Nat
    BY <1>1, ViewFields, RowsAreTyped DEF SessionInv
  <1> QED
    BY <1>1, <1>2, ViewFields DEF SeesThePast

LEMMA SubjectSeen ==
  ASSUME SessionInv, NEW w \in Worker, pc[w] \in {"validate", "rotate"}
  PROVE  /\ view[w].subject \in 1 .. Len(session)
         /\ view[w].subject \in 1 .. Len(view[w].seen)
         /\ Seen(w) = view[w].seen[view[w].subject]
         /\ Seen(w) \in Row /\ view[w].account = Seen(w).account
         /\ RowMovedOn(Seen(w), session[view[w].subject])
  <1>1. HasSubject(w)
    BY DEF SessionInv, ViewInv
  <1> QED
    BY <1>1, SeenRows DEF HasSubject, Seen

LEMMA ReadingsAreInstants ==
  ASSUME SessionInv, NEW w \in Worker, pc[w] # "idle", NEW at \in Readings(w)
  PROVE  at \in Nat
  <1>1. view[w].began \in Nat /\ now \in Nat
    BY SeenRows, ViewFields DEF SessionInv, TypeOK
  <1> QED
    BY <1>1, WorldAssumption DEF Readings

LEMMA VersionsStay ==
  ASSUME TypeOK, UNCHANGED version
  PROVE  VersionsGrow /\ version' \in [Account -> Nat \ {0}]
  BY DEF TypeOK, VersionsGrow

LEMMA FinishedStep ==
  ASSUME SessionInv, NEW w \in Worker, Finish(w), MovesOn, RowsInv', VersionsGrow,
         version' \in [Account -> Nat \ {0}], active' \subseteq Account
  PROVE  SessionInv'
  <1>1. TypeOK'
    BY DEF SessionInv, TypeOK, Finish, MovesOn
  <1>2. ASSUME NEW v \in Worker
        PROVE  ViewInv(v)'
    <2>1. CASE v = w
      BY <2>1 DEF SessionInv, TypeOK, Finish, ViewInv
    <2>2. CASE v # w
      <3>1. pc'[v] = pc[v] /\ view'[v] = view[v] /\ now' \in Nat /\ now <= now'
        BY <2>2 DEF SessionInv, TypeOK, Finish
      <3> QED
        BY <3>1, ViewsAreKept DEF SessionInv
    <2> QED
      BY <2>1, <2>2
  <1> QED
    BY <1>1, <1>2 DEF SessionInv

LEMMA QuietFinish ==
  ASSUME SessionInv, NEW w \in Worker, Finish(w), Quiet, UNCHANGED <<version, active>>
  PROVE  SessionInv'
  <1>1. /\ VersionsGrow /\ version' \in [Account -> Nat \ {0}]
        /\ active' \subseteq Account /\ MovesOn
    BY VersionsStay DEF SessionInv, TypeOK, Quiet
  <1>2. RowsInv'
    BY <1>1, QuietRowsAreKept DEF SessionInv
  <1> QED
    BY <1>1, <1>2, FinishedStep

\* rows seen ACTIVE and unchanged since are ended
LEMMA SeenRowsEnd ==
  ASSUME SessionInv, NEW w \in Worker, pc[w] # "idle",
         NEW rows \in SUBSET (1 .. Len(view[w].seen)),
         \A i \in rows : view[w].seen[i].status = "ACTIVE",
         RowsUnchanged(w, rows), NEW status \in Status, status # "ACTIVE",
         session' = Ended(rows, status)
  PROVE  /\ Quiet
         /\ \A i \in rows : session'[i].status = status
         /\ \A i \in 1 .. Len(session) \ rows : session'[i] = session[i]
  <1>1. rows \in SUBSET (1 .. Len(session))
    BY SeenRows
  <1>2. \A i \in rows : session[i].status = "ACTIVE"
    BY DEF RowsUnchanged
  <1> QED
    BY <1>1, <1>2, EndedIsQuiet DEF SessionInv

-----------------------------------------------------------------------------
\* The operations

LEMMA NewSessionStep ==
  ASSUME SessionInv, NEW w \in Worker, pc[w] = "create", Finish(w),
         UNCHANGED <<version, active>>, NEW at \in Readings(w),
         session' = Append(session,
                    NewSession(view[w].account, Len(session) + 1, 0, view[w].version,
                               at, at + AbsoluteTtl))
  PROVE  /\ SessionInv' /\ MovesOn
         /\ Appended(session, NewSession(view[w].account, Len(session) + 1, 0,
                                         view[w].version, at, at + AbsoluteTtl))
  <1> DEFINE row == NewSession(view[w].account, Len(session) + 1, 0, view[w].version,
                               at, at + AbsoluteTtl)
  <1>1. pc[w] # "idle" /\ TypeOK /\ RowsInv
    BY DEF SessionInv
  <1>2. at \in Nat /\ at + AbsoluteTtl \in Nat /\ Len(session) + 1 \in Nat \ {0}
    BY <1>1, ReadingsAreInstants, TtlAssumption, RowsAreTyped
  <1>3. row \in Row
    BY <1>1, <1>2, SeenRows, NewSessionIsARow
  <1>4. /\ row.family = Len(session) + 1 /\ row.parent = 0
        /\ row.version = view[w].version /\ row.account = view[w].account
    BY DEF NewSession
  <1>5. session \in Seq(Row) /\ session' = Append(session, row)
    BY <1>1 DEF TypeOK
  <1> HIDE DEF row
  <1>6. Appended(session, row)
    BY <1>1, <1>3, <1>5, AppendedRows
  <1>7. /\ VersionsGrow /\ version' \in [Account -> Nat \ {0}]
        /\ active' \subseteq Account
    BY <1>1, VersionsStay DEF TypeOK
  <1>8. row.version <= version[row.account]
    BY <1>1, <1>4, SeenRows
  <1>9. MovesOn /\ RowsInv'
    BY <1>1, <1>3, <1>4, <1>6, <1>7, <1>8, CreateKeepsRows
  <1>10. SessionInv'
    BY <1>7, <1>9, FinishedStep
  <1> QED
    BY <1>6, <1>9, <1>10 DEF row

LEMMA CreateStep ==
  ASSUME SessionInv, NEW w \in Worker, Create(w)
  PROVE  SessionInv'
  <1>1. pc[w] = "create" /\ Finish(w)
    BY DEF Create
  <1>2. CASE UNCHANGED database
    BY <1>1, <1>2, SameIsQuiet, QuietFinish DEF SessionInv, database
  <1> QED
    BY <1>1, <1>2, NewSessionStep DEF Create

LEMMA ReusedFamilySeen ==
  ASSUME NEW w
  PROVE  /\ ReusedFamily(w) \in SUBSET (1 .. Len(view[w].seen))
         /\ \A i \in ReusedFamily(w) : view[w].seen[i].status = "ACTIVE"
  BY DEF ReusedFamily

LEMMA ValidateRotatedStep ==
  ASSUME SessionInv, NEW w \in Worker, ValidateRotated(w)
  PROVE  SessionInv' /\ Quiet
  <1>1. /\ pc[w] # "idle" /\ Finish(w) /\ UNCHANGED <<version, active>>
        /\ RowsUnchanged(w, ReusedFamily(w))
        /\ session' = Ended(ReusedFamily(w), "REVOKED")
    BY DEF ValidateRotated
  <1>2. "REVOKED" \in Status /\ "REVOKED" # "ACTIVE"
    BY DEF Status
  <1>3. Quiet
    BY <1>1, <1>2, ReusedFamilySeen, SeenRowsEnd
  <1> QED
    BY <1>1, <1>3, QuietFinish

LEMMA ValidateUnusableStep ==
  ASSUME SessionInv, NEW w \in Worker, ValidateUnusable(w)
  PROVE  SessionInv'
  <1> DEFINE open == {i \in {view[w].subject} : Seen(w).status = "ACTIVE"}
  <1>1. /\ pc[w] \in {"validate", "rotate"} /\ pc[w] # "idle" /\ Finish(w)
        /\ UNCHANGED <<version, active>>
    BY DEF ValidateUnusable
  <1>2. PICK status \in {"REVOKED", "EXPIRED"} :
           RowsUnchanged(w, open) /\ session' = Ended(open, status)
    BY DEF ValidateUnusable
  <1>3. status \in Status /\ status # "ACTIVE"
    BY <1>2 DEF Status
  <1>4. /\ open \in SUBSET (1 .. Len(view[w].seen))
        /\ \A i \in open : view[w].seen[i].status = "ACTIVE"
    BY <1>1, SubjectSeen
  <1> HIDE DEF open
  <1>5. Quiet
    BY <1>1, <1>2, <1>3, <1>4, SeenRowsEnd
  <1> QED
    BY <1>1, <1>5, QuietFinish

LEMMA ValidateUsableStep ==
  ASSUME SessionInv, NEW w \in Worker, ValidateUsable(w)
  PROVE  SessionInv' /\ session'[view[w].subject].status = "ACTIVE"
  <1> DEFINE s == view[w].subject
  <1>1. /\ pc[w] \in {"validate", "rotate"} /\ pc[w] # "idle" /\ Finish(w) /\ TypeOK
        /\ UNCHANGED <<version, active>>
        /\ RowsUnchanged(w, {s}) /\ Entitled(Seen(w), view[w])
    BY DEF ValidateUsable, SessionInv
  <1>2. PICK at \in Readings(w) :
           session' = [session EXCEPT ![s].idle = SlidIdle(at, session[s].absolute)]
    BY DEF ValidateUsable
  <1>3. s \in 1 .. Len(session) /\ session[s] = Seen(w) /\ Seen(w).status = "ACTIVE"
    BY <1>1, SubjectSeen DEF RowsUnchanged, Entitled
  <1>4. at \in Nat
    BY <1>1, ReadingsAreInstants
  <1> HIDE DEF s
  <1>5. Quiet /\ session'[s].status = "ACTIVE"
    BY <1>1, <1>2, <1>3, <1>4, TouchedIsQuiet
  <1> QED
    BY <1>1, <1>5, QuietFinish DEF s

\* the successor of a session that has not changed since it was seen
LEMMA SuccessorStep ==
  ASSUME SessionInv, NEW w \in Worker, pc[w] = "rotate", Finish(w),
         UNCHANGED <<version, active>>,
         Entitled(Seen(w), view[w]), RowsUnchanged(w, {view[w].subject}),
         \A i \in 1 .. Len(session) : session[i].parent # view[w].subject,
         NEW again \in Readings(w),
         session' = Append(RotatedFrom(view[w].subject),
                        NewSession(Seen(w).account, Seen(w).family, view[w].subject,
                                   view[w].version, again, AbsoluteInherited(Seen(w), again)))
  PROVE  /\ SessionInv' /\ MovesOn
         /\ Appended(RotatedFrom(view[w].subject),
                NewSession(Seen(w).account, Seen(w).family, view[w].subject,
                           view[w].version, again, AbsoluteInherited(Seen(w), again)))
  <1> DEFINE s == view[w].subject
             r == Seen(w)
             row == NewSession(r.account, r.family, s, view[w].version, again,
                               AbsoluteInherited(r, again))
             rows == RotatedFrom(s)
  <1>1. pc[w] \in {"validate", "rotate"} /\ pc[w] # "idle" /\ TypeOK /\ RowsInv
    BY DEF SessionInv
  <1>2. /\ s \in 1 .. Len(session) /\ session[s] = r /\ r \in Row
        /\ r.status = "ACTIVE" /\ r.version = view[w].version
    BY <1>1, SubjectSeen DEF RowsUnchanged, Entitled
  <1>3. again \in Nat
    BY <1>1, ReadingsAreInstants
  <1>4. row \in Row
    <2>1. /\ r.account \in Account /\ r.family \in Nat \ {0} /\ s \in Nat
          /\ view[w].version \in Nat \ {0} /\ AbsoluteInherited(r, again) \in Nat
      BY <1>1, <1>2, RowFields, SeenRows, RowsAreTyped DEF AbsoluteInherited
    <2> QED
      BY <1>3, <2>1, NewSessionIsARow
  <1>5. /\ row.parent = s /\ row.family = r.family /\ row.account = r.account
        /\ row.version = r.version /\ row.absolute = r.absolute
    BY <1>2 DEF NewSession, AbsoluteInherited
  <1>6. rows \in Seq(Row) /\ Len(rows) = Len(session)
    <2>1. Len(session) \in Nat /\ session \in [1 .. Len(session) -> Row]
      BY <1>1, RowsAreTyped
    <2>2. [session[s] EXCEPT !.status = "ROTATED"] \in Row
      BY <1>2 DEF Row, Status
    <2>3. rows = [session EXCEPT ![s] = [session[s] EXCEPT !.status = "ROTATED"]]
      BY DEF RotatedFrom
    <2>4. rows \in [1 .. Len(session) -> Row]
      BY <2>1, <2>2, <2>3
    <2> QED
      BY <2>1, <2>4
  <1>7. session' = Append(rows, row)
    OBVIOUS
  <1>8. \A i \in 1 .. Len(session) : session[i].parent # s
    OBVIOUS
  <1>9. /\ VersionsGrow /\ version' \in [Account -> Nat \ {0}] /\ active' \subseteq Account
    BY <1>1, VersionsStay DEF TypeOK
  <1> HIDE DEF row, rows, s, r
  <1>10. Appended(rows, row)
    BY <1>1, <1>4, <1>6, <1>7, AppendedRows
  <1>11. MovesOn /\ RowsInv'
    BY <1>1, <1>2, <1>4, <1>5, <1>8, <1>9, <1>10, RotateKeepsRows DEF rows
  <1>12. SessionInv'
    BY <1>9, <1>11, FinishedStep
  <1> QED
    BY <1>10, <1>11, <1>12 DEF row, rows, s, r

LEMMA RotateStep ==
  ASSUME SessionInv, NEW w \in Worker, Rotate(w)
  PROVE  SessionInv'
  <1>1. pc[w] = "rotate" /\ Finish(w) /\ UNCHANGED <<version, active>>
    BY DEF Rotate, database
  <1>2. CASE UNCHANGED session
    BY <1>1, <1>2, SameIsQuiet, QuietFinish DEF SessionInv
  <1>3. CASE session' # session
    <2>1. /\ Entitled(Seen(w), view[w]) /\ RowsUnchanged(w, {view[w].subject})
          /\ \A i \in 1 .. Len(session) : session[i].parent # view[w].subject
      BY <1>3 DEF Rotate, database
    <2>2. PICK again \in Readings(w) :
             session' = Append(RotatedFrom(view[w].subject),
                        NewSession(Seen(w).account, Seen(w).family, view[w].subject,
                                   view[w].version, again, AbsoluteInherited(Seen(w), again)))
      BY <1>3 DEF Rotate, database
    <2> QED
      BY <1>1, <2>1, <2>2, SuccessorStep
  <1> QED
    BY <1>2, <1>3

LEMMA RevokeAllRows ==
  ASSUME SessionInv, NEW w \in Worker, RevokeAll(w)
  PROVE  /\ pc[w] # "idle" /\ Quiet
         /\ \A i \in OpenSessions(w) : session'[i].status = "REVOKED"
         /\ VersionsGrow /\ version' \in [Account -> Nat \ {0}]
         /\ version'[view[w].account] = version[view[w].account] + 1
  <1>1. /\ pc[w] # "idle" /\ RowsUnchanged(w, OpenSessions(w))
        /\ session' = Ended(OpenSessions(w), "REVOKED")
        /\ version' = [version EXCEPT ![view[w].account] = @ + 1]
    BY DEF RevokeAll
  <1>2. /\ OpenSessions(w) \in SUBSET (1 .. Len(view[w].seen))
        /\ \A i \in OpenSessions(w) : view[w].seen[i].status = "ACTIVE"
    BY DEF OpenSessions
  <1>3. "REVOKED" \in Status /\ "REVOKED" # "ACTIVE"
    BY DEF Status
  <1>4. Quiet /\ \A i \in OpenSessions(w) : session'[i].status = "REVOKED"
    BY <1>1, <1>2, <1>3, SeenRowsEnd
  <1>5. /\ VersionsGrow /\ version' \in [Account -> Nat \ {0}]
        /\ version'[view[w].account] = version[view[w].account] + 1
    <2>1. version \in [Account -> Nat \ {0}] /\ view[w].account \in Account
      BY <1>1, SeenRows DEF SessionInv, TypeOK
    <2> QED
      BY <1>1, <2>1 DEF VersionsGrow
  <1> QED
    BY <1>1, <1>4, <1>5

LEMMA RevokeAllStep ==
  ASSUME SessionInv, NEW w \in Worker, RevokeAll(w)
  PROVE  SessionInv'
  <1>1. Finish(w) /\ active' \subseteq Account /\ TypeOK /\ RowsInv
    BY DEF RevokeAll, SessionInv, TypeOK
  <1>2. RowsInv'
    BY <1>1, RevokeAllRows, QuietRowsAreKept
  <1> QED
    BY <1>1, <1>2, RevokeAllRows, FinishedStep DEF Quiet

\* a step that changes no view
LEMMA OutsideStep ==
  ASSUME SessionInv, Quiet, UNCHANGED <<version, pc, view>>,
         active' \subseteq Account, now' \in Nat, now <= now'
  PROVE  SessionInv'
  <1>1. VersionsGrow /\ TypeOK /\ RowsInv
    BY VersionsStay DEF SessionInv
  <1>2. RowsInv'
    BY <1>1, QuietRowsAreKept
  <1>3. TypeOK'
    BY <1>1 DEF TypeOK, Quiet, MovesOn
  <1>4. ASSUME NEW v \in Worker
        PROVE  ViewInv(v)'
    BY <1>1, ViewsAreKept DEF SessionInv, Quiet
  <1> QED
    BY <1>2, <1>3, <1>4 DEF SessionInv

LEMMA RevokeStep ==
  ASSUME SessionInv, NEW s \in 1 .. Len(session), Revoke(s)
  PROVE  SessionInv'
  <1>1. /\ "REVOKED" \in Status /\ {s} \in SUBSET (1 .. Len(session))
        /\ \A i \in {s} : session[i].status = "ACTIVE"
        /\ session' = Ended({s}, "REVOKED")
    BY DEF Revoke, Status
  <1>2. Quiet
    BY <1>1, EndedIsQuiet DEF SessionInv
  <1> QED
    BY <1>2, OutsideStep DEF Revoke, SessionInv, TypeOK

LEMMA BeginStep ==
  ASSUME SessionInv, NEW w \in Worker, NEW operation \in Operation, NEW a \in Account,
         NEW s \in Nat, Begin(w, operation, a, s),
         operation \in {"validate", "rotate"} =>
             s \in 1 .. Len(session) /\ a = session[s].account
  PROVE  SessionInv'
  <1> DEFINE v == [account |-> a, subject |-> s, began |-> now, seen |-> session,
                   version |-> version[a], active |-> a \in active]
  <1>1. TypeOK /\ RowsInv /\ UNCHANGED <<now, session, version, active>>
    BY DEF SessionInv, Begin, database
  <1>2. v \in View
    BY <1>1 DEF View, TypeOK
  <1>3. /\ v.account = a /\ v.subject = s /\ v.began = now /\ v.seen = session
        /\ v.version = version[a]
    OBVIOUS
  <1>4. view' = [view EXCEPT ![w] = v] /\ pc' = [pc EXCEPT ![w] = operation]
    BY DEF Begin
  <1> HIDE DEF v
  <1>5. TypeOK'
    BY <1>1, <1>2, <1>4 DEF TypeOK
  <1>6. RowsInv'
    BY <1>1, SameIsQuiet, VersionsStay, QuietRowsAreKept
  <1>7. ASSUME NEW u \in Worker, u # w
        PROVE  ViewInv(u)'
    <2>1. /\ pc'[u] = pc[u] /\ view'[u] = view[u] /\ now' \in Nat /\ now <= now'
      BY <1>1, <1>4, <1>7 DEF TypeOK
    <2>2. MovesOn /\ VersionsGrow
      BY <1>1, SameIsQuiet, VersionsStay DEF Quiet
    <2> QED
      BY <1>1, <2>1, <2>2, ViewsAreKept DEF SessionInv
  <1>8. ViewInv(w)'
    <2>1. view'[w] = v /\ pc'[w] = operation
      BY <1>1, <1>4 DEF TypeOK
    <2>2. (view[w] \in View)' /\ (view[w].began <= now)'
          /\ (view[w].version <= version[view[w].account])'
      BY <1>1, <1>2, <1>3, <2>1 DEF TypeOK
    <2>3. HasSubject(w)'
      BY <1>3, <2>1 DEF HasSubject, Seen
    <2>4. SeesThePast(w)'
      BY <1>1, <1>3, <2>1, RowsAreTyped DEF SeesThePast, RowMovedOn
    <2>5. EndedStaysEnded(w)'
      BY <1>1, <1>3, <2>1 DEF EndedStaysEnded
    <2> QED
      BY <2>2, <2>3, <2>4, <2>5 DEF ViewInv
  <1> QED
    BY <1>5, <1>6, <1>7, <1>8 DEF SessionInv

-----------------------------------------------------------------------------
LEMMA InitialState ==
  ASSUME Init
  PROVE  SessionInv
  <1>1. session \in Seq(Row) /\ Len(session) = 0
    BY DEF Init
  <1>2. TypeOK
    BY <1>1 DEF Init, TypeOK
  <1>3. RowsInv
    BY <1>1 DEF RowsInv, FamiliesAreChains, OneActivePerFamily, FamiliesHaveRoots,
                VersionsArePast
  <1>4. \A w \in Worker : ViewInv(w)
    BY DEF Init, ViewInv
  <1> QED
    BY <1>2, <1>3, <1>4 DEF SessionInv

LEMMA WorkerStep ==
  ASSUME SessionInv, NEW w \in Worker, Start(w) \/ Commit(w) \/ Fail(w)
  PROVE  SessionInv'
  <1>1. ASSUME NEW a \in Account, NEW operation \in {"create", "revokeAll"},
               Begin(w, operation, a, 0)
        PROVE  SessionInv'
    BY <1>1, BeginStep DEF Operation
  <1>2. ASSUME NEW s \in 1 .. Len(session), NEW operation \in {"validate", "rotate"},
               Begin(w, operation, session[s].account, s)
        PROVE  SessionInv'
    <2>1. session[s].account \in Account /\ s \in Nat /\ operation \in Operation
      BY <1>2, RowsAreTyped, RowFields DEF SessionInv, Operation
    <2> QED
      BY <1>2, <2>1, BeginStep
  <1>3. CASE Commit(w)
    BY <1>3, CreateStep, ValidateRotatedStep, ValidateUnusableStep, ValidateUsableStep,
       RotateStep, RevokeAllStep DEF Commit
  <1>4. CASE Fail(w)
    <2>1. Finish(w) /\ UNCHANGED <<session, version, active>>
      BY <1>4 DEF Fail, database
    <2> QED
      BY <2>1, SameIsQuiet, QuietFinish DEF SessionInv
  <1> QED
    BY <1>1, <1>2, <1>3, <1>4 DEF Start

LEMMA Step ==
  ASSUME SessionInv, [Next]_vars
  PROVE  SessionInv'
  <1>1. ASSUME NEW w \in Worker, Start(w) \/ Commit(w) \/ Fail(w)
        PROVE  SessionInv'
    BY <1>1, WorkerStep
  <1>2. ASSUME NEW s \in 1 .. Len(session), Revoke(s)
        PROVE  SessionInv'
    BY <1>2, RevokeStep
  <1>3. CASE (\E a \in Unsteady : Suspend(a)) \/ Tick \/ UNCHANGED vars
    <2>1. /\ UNCHANGED <<session, version, pc, view>>
          /\ active' \subseteq Account /\ now' \in Nat /\ now <= now'
      BY <1>3 DEF Suspend, Tick, vars, database, SessionInv, TypeOK
    <2> QED
      BY <2>1, SameIsQuiet, OutsideStep DEF SessionInv
  <1> QED
    BY <1>1, <1>2, <1>3 DEF Next

(***************************************************************************)
(* The inductive invariant holds in every reachable state.                 *)
(***************************************************************************)
THEOREM SessionInvariance == Spec => []SessionInv
  <1>1. Init => SessionInv
    BY InitialState
  <1>2. SessionInv /\ [Next]_vars => SessionInv'
    BY Step
  <1> QED
    BY <1>1, <1>2, PTL DEF Spec

(***************************************************************************)
(* Every variable keeps its type: no session idles beyond its absolute     *)
(* expiry (createPersistedGrant, validate).                                *)
(***************************************************************************)
THEOREM SessionTypes == Spec => []TypeOK
  <1>1. SessionInv => TypeOK
    BY DEF SessionInv
  <1> QED
    BY <1>1, SessionInvariance, PTL

(***************************************************************************)
(* However rotations, validations and revocations interleave, a family is  *)
(* a chain with one ACTIVE session at most (rotate).                       *)
(***************************************************************************)
THEOREM RotationsFormChains == Spec => []FamiliesAreChains
  <1>1. SessionInv => FamiliesAreChains
    BY DEF SessionInv, RowsInv
  <1> QED
    BY <1>1, SessionInvariance, PTL

LEMMA ReuseLeavesNone ==
  ASSUME SessionInv, NEW w \in Worker, ValidateRotated(w), NEW i \in 1 .. Len(session'),
         session'[i].family = Seen(w).family, session'[i].status = "ACTIVE"
  PROVE  FALSE
  <1> DEFINE seen == view[w].seen
  <1>1. /\ pc[w] \in {"validate", "rotate"} /\ pc[w] # "idle"
        /\ RowsUnchanged(w, ReusedFamily(w))
        /\ session' = Ended(ReusedFamily(w), "REVOKED")
    BY DEF ValidateRotated
  <1>2. "REVOKED" \in Status /\ "REVOKED" # "ACTIVE"
    BY DEF Status
  <1>3. Quiet /\ \A j \in ReusedFamily(w) : session'[j].status = "REVOKED"
    BY <1>1, <1>2, ReusedFamilySeen, SeenRowsEnd
  <1>4. i \in 1 .. Len(session) /\ RowMovedOn(session[i], session'[i])
    BY <1>3 DEF Quiet, MovesOn
  <1>5. session[i].status = "ACTIVE" /\ session[i].family = Seen(w).family
    BY <1>4 DEF RowMovedOn
  <1>6. Seen(w).family \in 1 .. Len(seen)
    <2>1. /\ view[w].subject \in 1 .. Len(session) /\ view[w].subject \in 1 .. Len(seen)
          /\ Seen(w).family = session[view[w].subject].family
      BY <1>1, SubjectSeen DEF RowMovedOn
    <2>2. Seen(w).family \in 1 .. view[w].subject
      BY <2>1 DEF SessionInv, RowsInv, FamiliesHaveRoots
    <2>3. Len(seen) \in Nat
      BY <1>1, SeenRows, ViewFields
    <2> QED
      BY <2>1, <2>2, <2>3
  <1>7. EndedStaysEnded(w)
    BY <1>1 DEF SessionInv, ViewInv
  <1>8. PICK j \in 1 .. Len(seen) : seen[j].family = Seen(w).family /\ seen[j].status = "ACTIVE"
    BY <1>4, <1>5, <1>6, <1>7 DEF EndedStaysEnded
  <1>9. j \in ReusedFamily(w)
    BY <1>8 DEF ReusedFamily
  <1>10. session[j] = seen[j] /\ j \in 1 .. Len(session)
    BY <1>1, <1>8, <1>9, SeenRows DEF RowsUnchanged
  <1>11. i = j
    BY <1>4, <1>5, <1>8, <1>10
       DEF SessionInv, RowsInv, FamiliesAreChains, OneActivePerFamily
  <1> QED
    BY <1>3, <1>9, <1>11

(***************************************************************************)
(* A rotated token that is presented again ends its family, whatever is    *)
(* rotated meanwhile (validate).                                           *)
(***************************************************************************)
THEOREM ReuseEndsTheFamily == Spec => ReuseEndsFamily
  <1>1. SessionInv /\ [Next]_vars =>
           [\A w \in Worker : ValidateRotated(w) =>
              \A i \in 1 .. Len(session') :
                 session'[i].family = Seen(w).family => session'[i].status # "ACTIVE"]_vars
    BY ReuseLeavesNone
  <1> QED
    BY <1>1, SessionInvariance, PTL DEF Spec, ReuseEndsFamily

LEMMA RevokedAreUnusable ==
  ASSUME SessionInv, NEW w \in Worker, RevokeAll(w), NEW i \in 1 .. Len(session'),
         session'[i].account = view[w].account
  PROVE  ~Usable(i)'
  <1>1. i \in 1 .. Len(session) /\ RowMovedOn(session[i], session'[i]) /\ session[i] \in Row
    BY RevokeAllRows, RowsAreTyped DEF Quiet, MovesOn, SessionInv
  <1>2. /\ session[i].account = view[w].account
        /\ session'[i].version = session[i].version
    BY <1>1 DEF RowMovedOn
  <1>3. session[i].version <= version[view[w].account]
    BY <1>1, <1>2 DEF SessionInv, RowsInv, VersionsArePast
  <1>4. session[i].version \in Nat /\ version[view[w].account] \in Nat
    BY <1>1, <1>2, RowFields DEF SessionInv, TypeOK
  <1>5. session'[i].version # version'[session'[i].account]
    BY <1>2, <1>3, <1>4, RevokeAllRows
  <1> QED
    BY <1>5 DEF Usable, Entitled

(***************************************************************************)
(* Account-wide revocation leaves no usable session, not even one created  *)
(* while it was running (revokeAll).                                       *)
(***************************************************************************)
THEOREM RevocationReachesAll == Spec => RevocationIsTotal
  <1>1. SessionInv /\ [Next]_vars =>
           [\A w \in Worker : RevokeAll(w) =>
              \A i \in 1 .. Len(session') :
                 session'[i].account = view[w].account => ~Usable(i)']_vars
    BY RevokedAreUnusable
  <1> QED
    BY <1>1, SessionInvariance, PTL DEF Spec, RevocationIsTotal

(***************************************************************************)
(* A request is taken for authenticated only on a session that is ACTIVE   *)
(* at the commit (validate).                                               *)
(***************************************************************************)
THEOREM AcceptanceIsCurrent == Spec => AcceptedWhileActive
  <1>1. SessionInv /\ [Next]_vars =>
           [\A w \in Worker :
              ValidateUsable(w) => session'[view[w].subject].status = "ACTIVE"]_vars
    BY ValidateUsableStep
  <1> QED
    BY <1>1, SessionInvariance, PTL DEF Spec, AcceptedWhileActive
=============================================================================
