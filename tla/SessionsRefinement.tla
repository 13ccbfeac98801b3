-------------------------- MODULE SessionsRefinement --------------------------
(***************************************************************************)
(* Sessions implement SessionFamilies: every change of the rows is one     *)
(* step of the families, or none.                                          *)
(***************************************************************************)
EXTENDS SessionsProofs

-----------------------------------------------------------------------------
\* The head of a family is its ACTIVE session

IsHead(f, i) == session[i].family = f /\ session[i].status = "ACTIVE"

LEMMA HeadIs ==
  ASSUME RowsInv, NEW i \in 1 .. Len(session), session[i].status = "ACTIVE"
  PROVE  HeadOf(session[i].family) = i
  <1> DEFINE f == session[i].family
             heads == {j \in 1 .. Len(session) :
                          session[j].family = f /\ session[j].status = "ACTIVE"}
  <1>1. heads = {i}
    BY DEF RowsInv, FamiliesAreChains, OneActivePerFamily
  <1>2. HeadOf(f) = IF heads = {} THEN 0 ELSE CHOOSE j \in heads : TRUE
    BY DEF HeadOf
  <1> HIDE DEF heads, f
  <1>3. HeadOf(f) = CHOOSE j \in {i} : TRUE
    BY <1>1, <1>2
  <1>4. HeadOf(f) = i
    BY <1>3
  <1> QED
    BY <1>4 DEF f

LEMMA NoHead ==
  ASSUME NEW f, \A i \in 1 .. Len(session) : ~IsHead(f, i)
  PROVE  HeadOf(f) = 0
  BY DEF HeadOf, IsHead

\* the same of the next state
LEMMA HeadIsNext ==
  ASSUME RowsInv', NEW i \in 1 .. Len(session'), session'[i].status = "ACTIVE",
         NEW f, f = session'[i].family
  PROVE  HeadOf(f)' = i
  <1> DEFINE heads == {j \in 1 .. Len(session') :
                          session'[j].family = f /\ session'[j].status = "ACTIVE"}
  <1>1. heads = {i}
    BY DEF RowsInv, FamiliesAreChains, OneActivePerFamily
  <1>2. HeadOf(f)' = IF heads = {} THEN 0 ELSE CHOOSE j \in heads : TRUE
    BY DEF HeadOf
  <1> HIDE DEF heads
  <1>3. HeadOf(f)' = CHOOSE j \in {i} : TRUE
    BY <1>1, <1>2
  <1> QED
    BY <1>3

LEMMA NoHeadNext ==
  ASSUME NEW f, \A i \in 1 .. Len(session') : ~IsHead(f, i)'
  PROVE  HeadOf(f)' = 0
  BY DEF HeadOf, IsHead

LEMMA HeadOrNone ==
  ASSUME SessionInv, NEW f
  PROVE  \/ HeadOf(f) = 0 /\ \A i \in 1 .. Len(session) : ~IsHead(f, i)
         \/ HeadOf(f) \in 1 .. Len(session) /\ IsHead(f, HeadOf(f))
  <1>1. ASSUME NEW i \in 1 .. Len(session), IsHead(f, i)
        PROVE  HeadOf(f) = i
    BY <1>1, HeadIs DEF IsHead, SessionInv
  <1> QED
    BY <1>1, NoHead

-----------------------------------------------------------------------------
\* What a step does to a family it does not touch

Roots == {i \in 1 .. Len(session) : session[i].parent = 0}

LEMMA FamilyOfRow ==
  ASSUME SessionInv, NEW i \in 1 .. Len(session)
  PROVE  /\ session[i].family \in Roots
         /\ session[session[i].family].absolute = session[i].absolute
         /\ session[i].family <= i
  <1>1. Len(session) \in Nat
    BY RowsAreTyped DEF SessionInv
  <1> QED
    BY <1>1 DEF SessionInv, RowsInv, FamiliesHaveRoots, Roots

LEMMA RootsOwnTheirFamily ==
  ASSUME SessionInv, NEW f \in Roots
  PROVE  f \in 1 .. Len(session) /\ session[f].family = f
  BY DEF SessionInv, RowsInv, FamiliesAreChains, Roots

LEMMA FamilyKept ==
  ASSUME SessionInv, SessionInv', MovesOn, NEW f \in Roots,
         \A i \in 1 .. Len(session) : session[i].family = f => session'[i] = session[i],
         \A i \in 1 .. Len(session') :
             session'[i].family = f => i \in 1 .. Len(session)
  PROVE  Family(f)' = Family(f)
  <1>1. \A i \in 1 .. Len(session) :
           i \in 1 .. Len(session') /\ session'[i].family = session[i].family
    BY RowsAreTyped DEF MovesOn, RowMovedOn, SessionInv, TypeOK
  <1>2. session'[f] = session[f]
    BY RootsOwnTheirFamily
  <1>3. CASE HeadOf(f) = 0 /\ \A i \in 1 .. Len(session) : ~IsHead(f, i)
    <2>1. \A i \in 1 .. Len(session') : ~IsHead(f, i)'
      BY <1>1, <1>3 DEF IsHead
    <2>2. HeadOf(f)' = 0
      BY <2>1, NoHeadNext
    <2> QED
      BY <1>2, <1>3, <2>2 DEF Family
  <1>4. CASE HeadOf(f) \in 1 .. Len(session) /\ IsHead(f, HeadOf(f))
    <2> DEFINE h == HeadOf(f)
    <2>1. h \in 1 .. Len(session') /\ session'[h] = session[h]
          /\ session'[h].status = "ACTIVE" /\ session'[h].family = f
      BY <1>1, <1>4 DEF IsHead
    <2> HIDE DEF h
    <2>2. HeadOf(f)' = h
      BY <2>1, HeadIsNext DEF SessionInv
    <2>3. HeadOf(f)' = HeadOf(f) /\ session'[HeadOf(f)] = session[HeadOf(f)]
      BY <2>1, <2>2 DEF h
    <2>4. Family(f)' = [endsAt |-> session'[f].absolute, head |-> HeadOf(f)',
                        idle |-> IF HeadOf(f)' = 0 THEN 0 ELSE session'[HeadOf(f)'].idle]
      BY DEF Family
    <2>5. Family(f)' = [endsAt |-> session[f].absolute, head |-> HeadOf(f),
                        idle |-> IF HeadOf(f) = 0 THEN 0 ELSE session[HeadOf(f)].idle]
      BY <1>2, <2>3, <2>4
    <2> QED
      BY <2>5 DEF Family
  <1> QED
    BY <1>3, <1>4, HeadOrNone

-----------------------------------------------------------------------------
\* What a step does to the families

LEMMA FamiliesAre ==
  /\ families = [f \in Roots |-> Family(f)]
  /\ families' = [f \in Roots' |-> Family(f)']
  BY DEF families, Roots

LEMMA QuietRoots ==
  ASSUME SessionInv, Quiet
  PROVE  Roots' = Roots
  BY RowsAreTyped DEF Quiet, MovesOn, RowMovedOn, Roots, SessionInv

LEMMA SameFamilies ==
  ASSUME SessionInv, SessionInv', UNCHANGED session
  PROVE  families' = families
  <1>1. Quiet
    BY SameIsQuiet DEF SessionInv
  <1>2. \A f \in Roots : Family(f)' = Family(f)
    BY <1>1, FamilyKept DEF Quiet
  <1> QED
    BY <1>1, <1>2, QuietRoots, FamiliesAre

LEMMA EndedEnds ==
  ASSUME SessionInv, SessionInv', NEW rows \in SUBSET (1 .. Len(session)),
         NEW status \in Status, status # "ACTIVE",
         \A i \in rows : session[i].status = "ACTIVE", session' = Ended(rows, status)
  PROVE  Families!Change
  <1> DEFINE F == {session[i].family : i \in rows}
  <1>1. /\ Quiet /\ MovesOn /\ Len(session') = Len(session)
        /\ \A i \in rows : session'[i].status = status
        /\ \A i \in 1 .. Len(session) \ rows : session'[i] = session[i]
    BY EndedIsQuiet DEF SessionInv, Quiet
  <1>2. F \in SUBSET Roots
    BY FamilyOfRow
  <1>3. Roots' = Roots
    BY <1>1, QuietRoots
  <1>4. ASSUME NEW f \in Roots, f \notin F
        PROVE  Family(f)' = Family(f)
    <2>1. \A i \in 1 .. Len(session) : session[i].family = f => session'[i] = session[i]
      BY <1>1, <1>4
    <2> QED
      BY <1>1, <2>1, FamilyKept
  <1>5. ASSUME NEW f \in F
        PROVE  Family(f)' = [endsAt |-> Family(f).endsAt, head |-> 0, idle |-> 0]
    <2>1. PICK i \in rows : session[i].family = f
      OBVIOUS
    <2>2. f \in Roots /\ f \in 1 .. Len(session)
      BY <1>2, RootsOwnTheirFamily
    <2>3. ASSUME NEW j \in 1 .. Len(session'), IsHead(f, j)'
          PROVE  FALSE
      <3>1. j \in 1 .. Len(session) /\ session'[j].family = f /\ session'[j].status = "ACTIVE"
        BY <1>1, <2>3 DEF IsHead
      <3>2. j \notin rows /\ session'[j] = session[j]
        BY <1>1, <3>1
      <3>3. i = j
        BY <2>1, <3>1, <3>2 DEF SessionInv, RowsInv, FamiliesAreChains, OneActivePerFamily
      <3> QED
        BY <3>2, <3>3
    <2>4. HeadOf(f)' = 0
      BY <2>3, NoHeadNext
    <2>5. session'[f].absolute = session[f].absolute
      BY <1>1, <2>2 DEF MovesOn, RowMovedOn
    <2>6. Family(f)' = [endsAt |-> session'[f].absolute, head |-> HeadOf(f)',
                        idle |-> IF HeadOf(f)' = 0 THEN 0 ELSE session'[HeadOf(f)'].idle]
      BY DEF Family
    <2>7. Family(f)' = [endsAt |-> session[f].absolute, head |-> 0, idle |-> 0]
      BY <2>4, <2>5, <2>6
    <2>8. Family(f).endsAt = session[f].absolute
      BY DEF Family
    <2> QED
      BY <2>7, <2>8
  <1> HIDE DEF F
  <1>6. families' = [f \in Roots |->
                        IF f \in F THEN [endsAt |-> Family(f).endsAt, head |-> 0, idle |-> 0]
                                   ELSE Family(f)]
    BY <1>3, <1>4, <1>5, FamiliesAre
  <1>7. DOMAIN families = Roots /\ \A f \in Roots : families[f] = Family(f)
    BY FamiliesAre
  <1>8. Families!End(F)
    BY <1>6, <1>7 DEF Families!End
  <1> QED
    BY <1>2, <1>7, <1>8 DEF Families!Change

LEMMA OneFamilyChanges ==
  ASSUME NEW f \in Roots, NEW life, Family(f)' = life, Roots' = Roots,
         \A g \in Roots : g # f => Family(g)' = Family(g)
  PROVE  /\ DOMAIN families = Roots
         /\ \A g \in Roots : families[g] = Family(g)
         /\ families' = [families EXCEPT ![f] = life]
  <1>1. DOMAIN families = Roots /\ \A g \in Roots : families[g] = Family(g)
    BY FamiliesAre
  <1>2. \A g \in Roots : Family(g)' = IF g = f THEN life ELSE families[g]
    BY <1>1
  <1>3. families' = [g \in Roots |-> IF g = f THEN life ELSE families[g]]
    BY <1>2, FamiliesAre
  <1>4. families = [g \in Roots |-> Family(g)]
    BY FamiliesAre
  <1>5. [families EXCEPT ![f] = life] = [g \in Roots |-> IF g = f THEN life ELSE families[g]]
    BY <1>1, <1>4
  <1> QED
    BY <1>1, <1>3, <1>5

LEMMA ReadingsAreReadings ==
  ASSUME SessionInv, NEW w \in Worker, pc[w] # "idle", NEW at \in Readings(w)
  PROVE  at \in Families!Readings
  <1>1. view[w].began \in Nat /\ now \in Nat
    BY SeenRows, ViewFields DEF SessionInv, TypeOK
  <1>2. PICK t \in view[w].began .. now : at = t + Skew[w]
    BY DEF Readings
  <1>3. t \in 0 .. now
    BY <1>1
  <1> QED
    BY <1>2, <1>3 DEF Families!Readings

LEMMA SameIdle ==
  ASSUME NEW at, NEW absolute
  PROVE  IdleFrom(at, absolute) = Families!IdlesAt(at, absolute)
  BY DEF IdleFrom, Families!IdlesAt

LEMMA HeadOfRow ==
  ASSUME SessionInv, NEW s \in 1 .. Len(session), session[s].status = "ACTIVE"
  PROVE  /\ session[s].family \in Roots
         /\ Family(session[s].family) =
               [endsAt |-> session[s].absolute, head |-> s, idle |-> session[s].idle]
  <1>1. HeadOf(session[s].family) = s /\ s # 0
    BY HeadIs DEF SessionInv
  <1>2. Family(session[s].family) =
           [endsAt |-> session[s].absolute, head |-> s, idle |-> session[s].idle]
    BY <1>1, FamilyOfRow DEF Family
  <1> QED
    BY <1>2, FamilyOfRow

LEMMA TouchedUses ==
  ASSUME SessionInv, SessionInv', NEW s \in 1 .. Len(session), session[s].status = "ACTIVE",
         NEW at \in Families!Readings, at \in Nat, Unexpired(session[s], at),
         session' = [session EXCEPT ![s].idle = SlidIdle(at, session[s].absolute)]
  PROVE  Families!Change
  <1>f. PICK f : f = session[s].family
    OBVIOUS
  <1>x. PICK x : x = IdleFrom(at, session[s].absolute)
    OBVIOUS
  <1>1. /\ Quiet /\ MovesOn /\ session[s] \in Row
        /\ Len(session) \in Nat /\ Len(session') = Len(session)
        /\ session \in [1 .. Len(session) -> Row]
    BY TouchedIsQuiet, RowsAreTyped DEF SessionInv, Quiet
  <1>2. /\ session'[s] = [session[s] EXCEPT !.idle = x]
        /\ \A i \in 1 .. Len(session) : i # s => session'[i] = session[i]
    BY <1>1, <1>x DEF SlidIdle
  <1>3. /\ session'[s].status = "ACTIVE" /\ session'[s].family = f
        /\ session'[s].absolute = session[s].absolute /\ session'[s].idle = x
    BY <1>1, <1>2, <1>f DEF Row
  <1>4. /\ f \in Roots /\ f \in 1 .. Len(session) /\ Roots' = Roots
        /\ Family(f) = [endsAt |-> session[s].absolute, head |-> s, idle |-> session[s].idle]
    BY <1>1, <1>f, HeadOfRow, RootsOwnTheirFamily, QuietRoots
  <1>5. ASSUME NEW g \in Roots, g # f
        PROVE  Family(g)' = Family(g)
    <2>1. \A i \in 1 .. Len(session) : session[i].family = g => session'[i] = session[i]
      BY <1>2, <1>5, <1>f
    <2> QED
      BY <1>1, <2>1, FamilyKept
  <1>6. Family(f)' = [endsAt |-> session[s].absolute, head |-> s, idle |-> x]
    <2>1. HeadOf(f)' = s
      BY <1>1, <1>3, HeadIsNext DEF SessionInv
    <2>2. Family(f)' = [endsAt |-> session'[f].absolute, head |-> HeadOf(f)',
                        idle |-> IF HeadOf(f)' = 0 THEN 0 ELSE session'[HeadOf(f)'].idle]
      BY DEF Family
    <2>3. session'[f].absolute = session[s].absolute
      <3>1. session'[f].absolute = session[f].absolute
        BY <1>1, <1>4 DEF MovesOn, RowMovedOn
      <3> QED
        BY <1>f, <3>1, FamilyOfRow
    <2> QED
      BY <1>3, <2>1, <2>2, <2>3
  <1>7. x = Families!IdlesAt(at, session[s].absolute)
    BY <1>x, SameIdle
  <1>8. at < session[s].idle /\ at < session[s].absolute
    BY DEF Unexpired
  <1>9. /\ DOMAIN families = Roots
        /\ \A g \in Roots : families[g] = Family(g)
        /\ families' = [families EXCEPT ![f] =
              [endsAt |-> session[s].absolute, head |-> s, idle |-> x]]
    BY <1>4, <1>5, <1>6, OneFamilyChanges
  <1>10. Families!Use(f, at)
    <2>1. families[f] = [endsAt |-> session[s].absolute, head |-> s, idle |-> session[s].idle]
      BY <1>4, <1>9
    <2>2. /\ families[f].head = s /\ families[f].idle = session[s].idle
          /\ families[f].endsAt = session[s].absolute
          /\ [families[f] EXCEPT !.idle = x]
                = [endsAt |-> session[s].absolute, head |-> s, idle |-> x]
      BY <2>1
    <2>3. families' = [families EXCEPT ![f].idle = x]
      BY <1>9, <2>2
    <2>4. s # 0
      OBVIOUS
    <2> QED
      BY <1>7, <1>8, <2>2, <2>3, <2>4 DEF Families!Use, Families!Alive, Families!InTime
  <1>11. f \in DOMAIN families
    BY <1>4, <1>9
  <1> QED
    BY <1>10, <1>11 DEF Families!Change

LEMMA SuccessorRenews ==
  ASSUME SessionInv, SessionInv', MovesOn,
         NEW s \in 1 .. Len(session), session[s].status = "ACTIVE",
         Len(session) < MaxSessions,
         NEW at \in Families!Readings, NEW again \in Families!Readings,
         Unexpired(session[s], at), at <= again, again < session[s].absolute,
         NEW v,
         Appended(RotatedFrom(s),
             NewSession(session[s].account, session[s].family, s, v, again,
                        session[s].absolute))
  PROVE  Families!Change
  <1>f. PICK f : f = session[s].family
    OBVIOUS
  <1>x. PICK x : x = IdleFrom(again, session[s].absolute)
    OBVIOUS
  <1>h. PICK h : h = Len(session) + 1
    OBVIOUS
  <1>1. /\ Len(session) \in Nat /\ session \in [1 .. Len(session) -> Row]
        /\ session[s] \in Row /\ Len(session') = h
    BY <1>h, RowsAreTyped DEF SessionInv, Appended
  <1>2. /\ session'[s] = [session[s] EXCEPT !.status = "ROTATED"]
        /\ \A i \in 1 .. Len(session) : i # s => session'[i] = session[i]
    BY <1>1 DEF Appended, RotatedFrom
  <1>3. /\ session'[h].status = "ACTIVE" /\ session'[h].family = f
        /\ session'[h].parent = s /\ session'[h].idle = x
    BY <1>f, <1>x, <1>h DEF Appended, NewSession
  <1>4. /\ f \in Roots /\ f \in 1 .. Len(session)
        /\ Family(f) = [endsAt |-> session[s].absolute, head |-> s, idle |-> session[s].idle]
    BY <1>1, <1>f, HeadOfRow, RootsOwnTheirFamily
  <1>5. \A i \in 1 .. Len(session) :
           session'[i].parent = session[i].parent /\ session'[i].family = session[i].family
    BY DEF MovesOn, RowMovedOn
  <1>6. Roots' = Roots
    <2>1. \A i \in 1 .. Len(session') : i \in 1 .. Len(session) \/ i = h
      BY <1>1, <1>h
    <2>2. \A i \in 1 .. Len(session) : i \in 1 .. Len(session')
      BY <1>1, <1>h
    <2>3. s # 0
      OBVIOUS
    <2> QED
      BY <1>3, <1>5, <2>1, <2>2, <2>3 DEF Roots
  <1>7. ASSUME NEW g \in Roots, g # f
        PROVE  Family(g)' = Family(g)
    <2>1. \A i \in 1 .. Len(session) : session[i].family = g => session'[i] = session[i]
      BY <1>2, <1>7, <1>f
    <2>2. \A i \in 1 .. Len(session') : session'[i].family = g => i \in 1 .. Len(session)
      BY <1>1, <1>3, <1>7, <1>h
    <2> QED
      BY <2>1, <2>2, FamilyKept
  <1>8. Family(f)' = [endsAt |-> session[s].absolute, head |-> h, idle |-> x]
    <2>1. HeadOf(f)' = h /\ h # 0
      BY <1>1, <1>3, <1>h, HeadIsNext DEF SessionInv
    <2>2. Family(f)' = [endsAt |-> session'[f].absolute, head |-> HeadOf(f)',
                        idle |-> IF HeadOf(f)' = 0 THEN 0 ELSE session'[HeadOf(f)'].idle]
      BY DEF Family
    <2>3. session'[f].absolute = session[f].absolute
      BY <1>4 DEF MovesOn, RowMovedOn
    <2>4. session[f].absolute = session[s].absolute
      BY <1>f, FamilyOfRow
    <2> QED
      BY <1>3, <2>1, <2>2, <2>3, <2>4
  <1>9. x = Families!IdlesAt(again, session[s].absolute)
    BY <1>x, SameIdle
  <1>10. at < session[s].idle /\ at < session[s].absolute
    BY DEF Unexpired
  <1>11. /\ DOMAIN families = Roots
         /\ \A g \in Roots : families[g] = Family(g)
         /\ families' = [families EXCEPT ![f] =
               [endsAt |-> session[s].absolute, head |-> h, idle |-> x]]
    BY <1>4, <1>6, <1>7, <1>8, OneFamilyChanges
  <1>12. Families!Renew(f, h, at, again)
    <2>1. families[f] = [endsAt |-> session[s].absolute, head |-> s, idle |-> session[s].idle]
      BY <1>4, <1>11
    <2>2. /\ families[f].head = s /\ families[f].idle = session[s].idle
          /\ families[f].endsAt = session[s].absolute
      BY <2>1
    <2>3. s # 0 /\ s < h
      BY <1>1, <1>h
    <2>4. families' = [families EXCEPT ![f] =
             [endsAt |-> families[f].endsAt, head |-> h,
              idle |-> Families!IdlesAt(again, families[f].endsAt)]]
      BY <1>9, <1>11, <2>2
    <2> QED
      BY <1>10, <2>2, <2>3, <2>4 DEF Families!Renew, Families!Alive, Families!InTime
  <1>13. f \in DOMAIN families /\ h \in 1 .. MaxSessions
    BY <1>1, <1>4, <1>11, <1>h, SessionBounds
  <1> QED
    BY <1>12, <1>13 DEF Families!Change

LEMMA NewSessionOpens ==
  ASSUME SessionInv, SessionInv', MovesOn, Len(session) < MaxSessions,
         NEW at \in Families!Readings, NEW a, NEW v,
         Appended(session, NewSession(a, Len(session) + 1, 0, v, at, at + AbsoluteTtl))
  PROVE  Families!Change
  <1>h. PICK h : h = Len(session) + 1
    OBVIOUS
  <1>1. Len(session) \in Nat /\ Len(session') = h
    BY <1>h, RowsAreTyped DEF SessionInv, Appended
  <1>2. \A i \in 1 .. Len(session) : session'[i] = session[i]
    BY DEF Appended
  <1>3. /\ session'[h].status = "ACTIVE" /\ session'[h].family = h /\ session'[h].parent = 0
        /\ session'[h].absolute = at + AbsoluteTtl
        /\ session'[h].idle = Families!IdlesAt(at, at + AbsoluteTtl)
    BY <1>h, SameIdle DEF Appended, NewSession
  <1>4. /\ h \in 1 .. Len(session') /\ h \notin 1 .. Len(session) /\ h # 0
        /\ \A i \in 1 .. Len(session') : i \in 1 .. Len(session) \/ i = h
        /\ \A i \in 1 .. Len(session) : i \in 1 .. Len(session')
    BY <1>1, <1>h
  <1>5. Roots' = Roots \cup {h}
    BY <1>2, <1>3, <1>4 DEF Roots
  <1>6. h \notin Roots
    BY <1>4 DEF Roots
  <1>7. ASSUME NEW g \in Roots
        PROVE  Family(g)' = Family(g)
    BY <1>2, <1>3, <1>4, <1>6, FamilyKept
  <1>8. Family(h)' = [endsAt |-> at + AbsoluteTtl, head |-> h,
                      idle |-> Families!IdlesAt(at, at + AbsoluteTtl)]
    <2>1. HeadOf(h)' = h
      BY <1>3, <1>4, HeadIsNext DEF SessionInv
    <2>2. Family(h)' = [endsAt |-> session'[h].absolute, head |-> HeadOf(h)',
                        idle |-> IF HeadOf(h)' = 0 THEN 0 ELSE session'[HeadOf(h)'].idle]
      BY DEF Family
    <2> QED
      BY <1>3, <1>4, <2>1, <2>2
  <1>9. DOMAIN families = Roots /\ \A g \in Roots : families[g] = Family(g)
    BY FamiliesAre
  <1>10. Families!Open(h, at)
    <2>1. \A g \in Roots \cup {h} :
             Family(g)' = IF g = h
                          THEN [endsAt |-> at + AbsoluteTtl, head |-> h,
                                idle |-> Families!IdlesAt(at, at + AbsoluteTtl)]
                          ELSE families[g]
      BY <1>6, <1>7, <1>8, <1>9
    <2>2. families' = [g \in Roots \cup {h} |->
                          IF g = h
                          THEN [endsAt |-> at + AbsoluteTtl, head |-> h,
                                idle |-> Families!IdlesAt(at, at + AbsoluteTtl)]
                          ELSE families[g]]
      BY <1>5, <2>1, FamiliesAre
    <2> QED
      BY <1>6, <1>9, <2>2 DEF Families!Open
  <1>11. h \in 1 .. MaxSessions
    BY <1>1, <1>h, SessionBounds
  <1> QED
    BY <1>10, <1>11 DEF Families!Change

-----------------------------------------------------------------------------
\* The operations

LEMMA SeenRowsEnding ==
  ASSUME SessionInv, SessionInv', NEW w \in Worker, pc[w] # "idle",
         NEW rows \in SUBSET (1 .. Len(view[w].seen)),
         \A i \in rows : view[w].seen[i].status = "ACTIVE",
         RowsUnchanged(w, rows), NEW status \in Status, status # "ACTIVE",
         session' = Ended(rows, status)
  PROVE  Families!Change
  <1>1. rows \in SUBSET (1 .. Len(session))
    BY SeenRows
  <1>2. \A i \in rows : session[i].status = "ACTIVE"
    BY DEF RowsUnchanged
  <1> QED
    BY <1>1, <1>2, EndedEnds

LEMMA CreateRefines ==
  ASSUME SessionInv, SessionInv', NEW w \in Worker, Create(w)
  PROVE  families' = families \/ Families!Change
  <1>1. CASE UNCHANGED database
    BY <1>1, SameFamilies DEF database
  <1>2. ASSUME NEW at \in Readings(w), Finish(w), UNCHANGED <<version, active>>,
               Len(session) < MaxSessions,
               session' = Append(session,
                    NewSession(view[w].account, Len(session) + 1, 0, view[w].version,
                               at, at + AbsoluteTtl))
        PROVE  Families!Change
    <2>1. pc[w] = "create" /\ pc[w] # "idle"
      BY DEF Create
    <2>2. /\ MovesOn
          /\ Appended(session, NewSession(view[w].account, Len(session) + 1, 0,
                                          view[w].version, at, at + AbsoluteTtl))
      BY <1>2, <2>1, NewSessionStep
    <2>3. at \in Families!Readings
      BY <2>1, ReadingsAreReadings
    <2> QED
      BY <1>2, <2>2, <2>3, NewSessionOpens
  <1> QED
    BY <1>1, <1>2 DEF Create

LEMMA ValidateRefines ==
  ASSUME SessionInv, SessionInv', NEW w \in Worker,
         ValidateRotated(w) \/ ValidateUnusable(w) \/ ValidateUsable(w)
  PROVE  Families!Change
  <1>1. pc[w] \in {"validate", "rotate"} /\ pc[w] # "idle"
    BY DEF ValidateRotated, ValidateUnusable, ValidateUsable
  <1>2. /\ "REVOKED" \in Status /\ "REVOKED" # "ACTIVE"
        /\ "EXPIRED" \in Status /\ "EXPIRED" # "ACTIVE"
    BY DEF Status
  <1>3. CASE ValidateRotated(w)
    <2>1. /\ RowsUnchanged(w, ReusedFamily(w))
          /\ session' = Ended(ReusedFamily(w), "REVOKED")
      BY <1>3 DEF ValidateRotated
    <2> QED
      BY <1>1, <1>2, <2>1, ReusedFamilySeen, SeenRowsEnding
  <1>4. CASE ValidateUnusable(w)
    <2> DEFINE open == {i \in {view[w].subject} : Seen(w).status = "ACTIVE"}
    <2>1. PICK at \in Readings(w) :
             /\ RowsUnchanged(w, open)
             /\ session' =
                   Ended(open, IF Unexpired(Seen(w), at) THEN "REVOKED" ELSE "EXPIRED")
      BY <1>4 DEF ValidateUnusable
    <2>2. /\ open \in SUBSET (1 .. Len(view[w].seen))
          /\ \A i \in open : view[w].seen[i].status = "ACTIVE"
      <3>1. view[w].subject \in 1 .. Len(view[w].seen)
        BY <1>1, SubjectSeen
      <3> QED
        BY <3>1 DEF Seen
    <2> HIDE DEF open
    <2>3. CASE Unexpired(Seen(w), at)
      BY <1>1, <1>2, <2>1, <2>2, <2>3, SeenRowsEnding
    <2>4. CASE ~Unexpired(Seen(w), at)
      BY <1>1, <1>2, <2>1, <2>2, <2>4, SeenRowsEnding
    <2> QED
      BY <2>3, <2>4
  <1>5. CASE ValidateUsable(w)
    <2>s. PICK s : s = view[w].subject
      OBVIOUS
    <2>1. PICK at \in Readings(w) :
             /\ Unexpired(Seen(w), at)
             /\ session' = [session EXCEPT ![s].idle = SlidIdle(at, session[s].absolute)]
      BY <1>5, <2>s DEF ValidateUsable
    <2>2. s \in 1 .. Len(session) /\ session[s] = Seen(w) /\ Seen(w).status = "ACTIVE"
      BY <1>1, <1>5, <2>s, SubjectSeen DEF ValidateUsable, RowsUnchanged, Entitled
    <2>3. at \in Nat /\ at \in Families!Readings
      BY <1>1, ReadingsAreInstants, ReadingsAreReadings
    <2> QED
      BY <2>1, <2>2, <2>3, TouchedUses
  <1> QED
    BY <1>3, <1>4, <1>5

LEMMA RotateRefines ==
  ASSUME SessionInv, SessionInv', NEW w \in Worker, Rotate(w)
  PROVE  families' = families \/ Families!Change
  <1>1. /\ pc[w] = "rotate" /\ pc[w] # "idle" /\ pc[w] \in {"validate", "rotate"}
        /\ Finish(w) /\ UNCHANGED <<version, active>>
    BY DEF Rotate, database
  <1>2. CASE UNCHANGED session
    BY <1>2, SameFamilies
  <1>3. CASE session' # session
    <2>s. PICK s : s = view[w].subject
      OBVIOUS
    <2>1. /\ Entitled(Seen(w), view[w]) /\ RowsUnchanged(w, {view[w].subject})
          /\ Len(session) < MaxSessions
          /\ \A i \in 1 .. Len(session) : session[i].parent # view[w].subject
      BY <1>3 DEF Rotate, database
    <2>2. PICK at \in Readings(w), again \in Readings(w) :
             /\ Unexpired(Seen(w), at) /\ at <= again
             /\ again < AbsoluteInherited(Seen(w), again)
             /\ session' = Append(RotatedFrom(view[w].subject),
                        NewSession(Seen(w).account, Seen(w).family, view[w].subject,
                                   view[w].version, again, AbsoluteInherited(Seen(w), again)))
      BY <1>3 DEF Rotate, database
    <2>3. /\ MovesOn
          /\ Appended(RotatedFrom(view[w].subject),
                NewSession(Seen(w).account, Seen(w).family, view[w].subject,
                           view[w].version, again, AbsoluteInherited(Seen(w), again)))
      BY <1>1, <2>1, <2>2, SuccessorStep
    <2>4. /\ s \in 1 .. Len(session) /\ session[s] = Seen(w) /\ session[s].status = "ACTIVE"
      BY <1>1, <2>1, <2>s, SubjectSeen DEF RowsUnchanged, Entitled
    <2>5. at \in Families!Readings /\ again \in Families!Readings
      BY <1>1, ReadingsAreReadings
    <2>6. /\ again < session[s].absolute
          /\ Appended(RotatedFrom(s),
                NewSession(session[s].account, session[s].family, s, view[w].version, again,
                           session[s].absolute))
      BY <2>2, <2>3, <2>4, <2>s DEF AbsoluteInherited
    <2>7. Unexpired(session[s], at)
      BY <2>2, <2>4
    <2> QED
      BY <2>1, <2>2, <2>3, <2>4, <2>5, <2>6, <2>7, SuccessorRenews
  <1> QED
    BY <1>2, <1>3

LEMMA RevocationsRefine ==
  ASSUME SessionInv, SessionInv',
         \/ \E w \in Worker : RevokeAll(w)
         \/ \E s \in 1 .. Len(session) : Revoke(s)
  PROVE  Families!Change
  <1>1. "REVOKED" \in Status /\ "REVOKED" # "ACTIVE"
    BY DEF Status
  <1>2. ASSUME NEW w \in Worker, RevokeAll(w)
        PROVE  Families!Change
    <2>1. /\ pc[w] # "idle" /\ RowsUnchanged(w, OpenSessions(w))
          /\ session' = Ended(OpenSessions(w), "REVOKED")
      BY <1>2 DEF RevokeAll
    <2>2. /\ OpenSessions(w) \in SUBSET (1 .. Len(view[w].seen))
          /\ \A i \in OpenSessions(w) : view[w].seen[i].status = "ACTIVE"
      BY DEF OpenSessions
    <2> QED
      BY <1>1, <2>1, <2>2, SeenRowsEnding
  <1>3. ASSUME NEW s \in 1 .. Len(session), Revoke(s)
        PROVE  Families!Change
    <2>1. /\ {s} \in SUBSET (1 .. Len(session)) /\ session' = Ended({s}, "REVOKED")
          /\ \A i \in {s} : session[i].status = "ACTIVE"
      BY <1>3 DEF Revoke
    <2> QED
      BY <1>1, <2>1, EndedEnds
  <1> QED
    BY <1>2, <1>3

LEMMA StepRefines ==
  ASSUME SessionInv, SessionInv', [Next]_vars
  PROVE  [Families!Next]_(Families!vars)
  <1>1. ASSUME UNCHANGED now, families' = families \/ Families!Change
        PROVE  [Families!Next]_(Families!vars)
    BY <1>1 DEF Families!Next, Families!vars
  <1>2. CASE UNCHANGED session /\ UNCHANGED now
    BY <1>1, <1>2, SameFamilies
  <1>3. CASE Tick
    <2>1. families' = families /\ now' = now + 1
      BY <1>3, SameFamilies DEF Tick, database
    <2> QED
      BY <2>1 DEF Families!Next, Families!Tick
  <1>4. ASSUME NEW w \in Worker, Commit(w)
        PROVE  [Families!Next]_(Families!vars)
    <2>1. UNCHANGED now
      BY <1>4 DEF Commit, Create, ValidateRotated, ValidateUnusable, ValidateUsable,
                  Rotate, RevokeAll, Finish
    <2>2. families' = families \/ Families!Change
      BY <1>4, CreateRefines, ValidateRefines, RotateRefines, RevocationsRefine DEF Commit
    <2> QED
      BY <1>1, <2>1, <2>2
  <1>5. ASSUME NEW s \in 1 .. Len(session), Revoke(s)
        PROVE  [Families!Next]_(Families!vars)
    <2>1. UNCHANGED now
      BY <1>5 DEF Revoke
    <2> QED
      BY <1>1, <1>5, <2>1, RevocationsRefine
  <1>6. ASSUME NEW w \in Worker, Start(w) \/ Fail(w)
        PROVE  UNCHANGED session /\ UNCHANGED now
    BY <1>6 DEF Start, Begin, Fail, Finish, database
  <1>7. ASSUME NEW a \in Unsteady, Suspend(a)
        PROVE  UNCHANGED session /\ UNCHANGED now
    BY <1>7 DEF Suspend
  <1>8. CASE UNCHANGED vars
    BY <1>2, <1>8 DEF vars, database
  <1> QED
    BY <1>2, <1>3, <1>4, <1>5, <1>6, <1>7, <1>8 DEF Next

(***************************************************************************)
(* What a family's successive sessions are used for is what one session    *)
(* with a changing token could be used for: used and renewed only in time, *)
(* never past the expiry it began with, and never again once ended (the    *)
(* whole of PostgresSessionAuthority).                                     *)
(***************************************************************************)
THEOREM FamiliesImplemented == Spec => ImplementsFamilies
  <1>1. Init => Families!Init
    <2> SUFFICES ASSUME Init PROVE Families!Init
      OBVIOUS
    <2>1. now = 0 /\ Roots = {}
      BY DEF Init, Roots
    <2>2. families = [f \in {} |-> << >>]
      BY <2>1, FamiliesAre
    <2> QED
      BY <2>1, <2>2 DEF Families!Init
  <1>2. SessionInv /\ SessionInv' /\ [Next]_vars => [Families!Next]_(Families!vars)
    BY StepRefines
  <1> QED
    BY <1>1, <1>2, SessionInvariance, PTL DEF Spec, ImplementsFamilies, Families!Spec
=============================================================================
