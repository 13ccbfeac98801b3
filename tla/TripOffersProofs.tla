-------------------------- MODULE TripOffersProofs --------------------------
(***************************************************************************)
(* For any accounts, trips, schedules, workers and clocks: an offer is     *)
(* decided once, offers and discussions are what the catalogue promises,   *)
(* and pages miss nothing.  Where the clocks of all instances agree, every *)
(* published trip can be shown.                                            *)
(***************************************************************************)
EXTENDS TripOffers, FiniteSetTheorems, SequenceTheorems, TLAPS

IsPublished(t) == trip[t] # NoTrip /\ trip[t].status = "PUBLISHED"

\* What a command relies on: the question it answers is there, and an offer it
\* saw published has not changed.
CallOK(c) ==
    /\ c.operation = "answer" =>
          c.question \in DOMAIN question /\ question[c.question].trip = c.trip
    /\ c.view # NoView /\ HasStatus(c, "PUBLISHED") => trip[c.trip] = c.view.trip

CallsOK == \A w \in Worker : call[w] # NoCall => CallOK(call[w])

\* An answer is of a question, and the only one.
AnswersOK ==
    /\ \A i \in DOMAIN answer : answer[i].question \in DOMAIN question
    /\ \A q \in Nat : Answers(q) \in {0, 1}

SchedulesOK == \A t \in Trip : trip[t] # NoTrip => ValidSchedule(trip[t].schedule)

IInv == TypeOK /\ CallsOK /\ AnswersOK /\ SchedulesOK /\ DecidedOnce

\* What no step takes back.
Later ==
    /\ now \in Nat /\ now' \in Nat /\ now <= now'
    /\ \A t \in Trip : IsPublished(t) => trip'[t] = trip[t]
    /\ \A q \in DOMAIN question : q \in DOMAIN question' /\ question'[q] = question[q]

-----------------------------------------------------------------------------
LEMMA SequenceType ==
    ASSUME NEW S, NEW s \in Seq(S)
    PROVE  Len(s) \in Nat /\ DOMAIN s = 1 .. Len(s) /\ \A i \in DOMAIN s : s[i] \in S
OBVIOUS

LEMMA Appended ==
    ASSUME NEW S, NEW s \in Seq(S), NEW e \in S
    PROVE  /\ Append(s, e) \in Seq(S) /\ Len(Append(s, e)) = Len(s) + 1
           /\ DOMAIN Append(s, e) = 1 .. Len(s) + 1
           /\ \A i \in DOMAIN s : i \in DOMAIN Append(s, e) /\ Append(s, e)[i] = s[i]
           /\ \A i \in DOMAIN Append(s, e) : i \notin DOMAIN s => i = Len(s) + 1
           /\ Append(s, e)[Len(s) + 1] = e
OBVIOUS

\* A sequence with one more element is the one appended to.
LEMMA AppendedIs ==
    ASSUME NEW S, NEW s \in Seq(S), NEW u \in Seq(S), NEW e \in S,
           Len(u) = Len(s) + 1, \A i \in 1 .. Len(s) : u[i] = s[i], u[Len(s) + 1] = e
    PROVE  u = Append(s, e)
<1>1. Append(s, e) \in Seq(S) /\ Len(Append(s, e)) = Len(s) + 1
      /\ \A i \in DOMAIN s : Append(s, e)[i] = s[i]
      /\ Append(s, e)[Len(s) + 1] = e
  BY Appended
<1>2. Len(s) \in Nat /\ DOMAIN s = 1 .. Len(s)
  BY SequenceType
<1>3. \A i \in 1 .. Len(s) + 1 : u[i] = Append(s, e)[i]
  BY <1>1, <1>2
<1>4. QED
  BY <1>1, <1>3, SeqEqual

QuestionRow == [trip : Trip, at : Nat]
AnswerRow == [question : Nat \ {0}, at : Nat]

LEMMA Typed ==
    ASSUME TypeOK
    PROVE  /\ now \in Nat
           /\ \A t \in Trip : trip[t] \in Row \cup {NoTrip}
           /\ \A w \in Worker : call[w] \in Call \cup {NoCall}
           /\ question \in Seq(QuestionRow) /\ answer \in Seq(AnswerRow)
           /\ Len(question) \in Nat /\ DOMAIN question = 1 .. Len(question)
           /\ \A q \in DOMAIN question : question[q] \in QuestionRow
           /\ Len(answer) \in Nat /\ DOMAIN answer = 1 .. Len(answer)
           /\ \A i \in DOMAIN answer : answer[i] \in AnswerRow
<1>1. question \in Seq(QuestionRow) /\ answer \in Seq(AnswerRow)
  BY DEF TypeOK, QuestionRow, AnswerRow
<1>2. /\ Len(question) \in Nat /\ DOMAIN question = 1 .. Len(question)
      /\ \A q \in DOMAIN question : question[q] \in QuestionRow
  BY <1>1, SequenceType
<1>3. /\ Len(answer) \in Nat /\ DOMAIN answer = 1 .. Len(answer)
      /\ \A i \in DOMAIN answer : answer[i] \in AnswerRow
  BY <1>1, SequenceType
<1>4. QED
  BY <1>1, <1>2, <1>3 DEF TypeOK

\* A row that exists has a status, and the version that goes with it.
LEMMA RowType ==
    ASSUME NEW r \in Row
    PROVE  /\ r.owner \in Account /\ r.schedule \in Schedule /\ r # NoTrip
           /\ r.status \in {"DRAFT", "PENDING_MODERATION", "PUBLISHED", "REJECTED"}
           /\ r.status = "DRAFT" => r.version = 1
           /\ r.status = "PENDING_MODERATION" => r.version = 2
           /\ r.version \in 1 .. 3
<1>1. <<r.status, r.version>> \in Lifecycle /\ r.version \in 1 .. 3
      /\ r.owner \in Account /\ r.schedule \in Schedule
  BY DEF Row
<1>2. r # NoTrip
  BY RowAssumption
<1>3. QED
  BY <1>1, <1>2 DEF Lifecycle

\* Rows of each state the lifecycle has, made by a draft or a save.
LEMMA DraftType ==
    ASSUME NEW a \in Account, NEW s \in Schedule
    PROVE  [owner |-> a, status |-> "DRAFT", version |-> 1, schedule |-> s] \in Row
<1>1. <<"DRAFT", 1>> \in Lifecycle /\ "DRAFT" \in {m[1] : m \in Lifecycle}
  BY DEF Lifecycle
<1>2. QED
  BY <1>1 DEF Row

LEMMA MovedType ==
    ASSUME NEW r \in Row, NEW status,
           \/ r.status = "DRAFT" /\ status = "PENDING_MODERATION"
           \/ r.status = "PENDING_MODERATION" /\ status \in {"PUBLISHED", "REJECTED"}
    PROVE  /\ Moved(r, status) \in Row
           /\ Moved(r, status).status = status
           /\ Moved(r, status).schedule = r.schedule
<1> DEFINE m == Moved(r, status)
<1>1. /\ m = [owner |-> r.owner, status |-> status, version |-> r.version + 1,
              schedule |-> r.schedule]
      /\ r.owner \in Account /\ r.schedule \in Schedule
  BY DEF Moved, Row
<1>2. <<status, r.version + 1>> \in Lifecycle
  BY RowType DEF Lifecycle
<1>3. status \in {x[1] : x \in Lifecycle} /\ r.version + 1 \in 1 .. 3
  BY RowType DEF Lifecycle
<1>4. QED
  BY <1>1, <1>2, <1>3 DEF Row

LEMMA CallStays ==
    ASSUME Later, NEW c, CallOK(c), c.trip \in Trip
    PROVE  CallOK(c)'
<1>1. c.operation = "answer" =>
         c.question \in DOMAIN question' /\ question'[c.question].trip = c.trip
  BY DEF CallOK, Later
<1>2. c.view # NoView /\ HasStatus(c, "PUBLISHED") => trip'[c.trip] = c.view.trip
  BY DEF CallOK, Later, IsPublished, HasStatus
<1>3. QED
  BY <1>1, <1>2 DEF CallOK, HasStatus

\* Answers, counted.
LEMMA AnswersFinite ==
    ASSUME TypeOK, NEW q
    PROVE  /\ IsFiniteSet({i \in DOMAIN answer : answer[i].question = q})
           /\ Answers(q) \in Nat
           /\ Answers(q) = 0 <=> \A i \in DOMAIN answer : answer[i].question # q
<1> DEFINE S == {i \in DOMAIN answer : answer[i].question = q}
<1>1. Len(answer) \in Nat /\ DOMAIN answer = 1 .. Len(answer)
  BY Typed
<1>2. IsFiniteSet(1 .. Len(answer))
  BY <1>1, FS_Interval
<1>3. IsFiniteSet(S)
  BY <1>1, <1>2, FS_Subset
<1>4. Cardinality(S) \in Nat /\ (Cardinality(S) = 0 <=> S = {})
  BY <1>3, FS_CardinalityType, FS_EmptySet
<1>5. QED
  BY <1>3, <1>4 DEF Answers

\* One more answer, to a question that had none.
LEMMA AnswerCounts ==
    ASSUME TypeOK, NEW e \in AnswerRow, answer' = Append(answer, e)
    PROVE  /\ \A q : q # e.question => Answers(q)' = Answers(q)
           /\ Answers(e.question) = 0 => \A q : q = e.question => Answers(q)' = 1
<1>1. answer \in Seq(AnswerRow) /\ Len(answer) \in Nat /\ DOMAIN answer = 1 .. Len(answer)
  BY Typed
<1>2. /\ DOMAIN answer' = 1 .. Len(answer) + 1
      /\ \A i \in DOMAIN answer : i \in DOMAIN answer' /\ answer'[i] = answer[i]
      /\ \A i \in DOMAIN answer' : i \notin DOMAIN answer => i = Len(answer) + 1
      /\ answer'[Len(answer) + 1] = e
  BY <1>1, Appended
<1>3. ASSUME NEW q, q # e.question PROVE Answers(q)' = Answers(q)
  <2>1. {i \in DOMAIN answer' : answer'[i].question = q}
           = {i \in DOMAIN answer : answer[i].question = q}
    BY <1>2, <1>3
  <2>2. QED
    BY <2>1 DEF Answers
<1>4. ASSUME Answers(e.question) = 0, NEW q, q = e.question PROVE Answers(q)' = 1
  <2>1. \A i \in DOMAIN answer : answer[i].question # q
    BY <1>4, AnswersFinite
  <2>2. {i \in DOMAIN answer' : answer'[i].question = q} = {Len(answer) + 1}
    BY <1>1, <1>2, <1>4, <2>1
  <2>3. Cardinality({Len(answer) + 1}) = 1
    BY FS_Singleton
  <2>4. QED
    BY <2>2, <2>3 DEF Answers
<1>5. QED
  BY <1>3, <1>4
-----------------------------------------------------------------------------
\* the schedule of a request, whatever its operation
LEMMA ScheduleIsThere == AnySchedule \in Schedule
BY WorldAssumption DEF AnySchedule

LEMMA SnapshotType ==
    ASSUME TypeOK, NEW c, c.actor \in Account, c.trip \in Trip, Answers(c.question) \in {0, 1}
    PROVE  Snapshot(c) \in View
<1>1. {e[2] : e \in {e \in entitled : e[1] = c.actor}} \subseteq {"session", "profile", "grant"}
  BY DEF TypeOK, Entitlement
<1>2. profiles[c.actor] \in {0, 1} /\ trip[c.trip] \in Row \cup {NoTrip}
  BY DEF TypeOK
<1>3. QED
  BY <1>1, <1>2 DEF Snapshot, View

LEMMA InitIInv == Init => IInv
<1> SUFFICES ASSUME Init PROVE IInv
  OBVIOUS
<1>1. \A t \in Trip : trip[t] = NoTrip
                        \/ /\ trip[t] \in Row /\ trip[t] # NoTrip
                           /\ trip[t].status = "PUBLISHED" /\ ValidSchedule(trip[t].schedule)
  BY RowAssumption DEF Init
<1>2. TypeOK
  <2>1. entitled \subseteq Entitlement
    BY WorldAssumption DEF Init, Entitlement
  <2>2. profiles \in [Account -> {0, 1}]
    BY DEF Init
  <2>3. trip \in [Trip -> Row \cup {NoTrip}]
    BY RowAssumption DEF Init
  <2>4. decided \in [Trip -> Seq({"APPROVED", "REJECTED"})]
    <3>1. << >> \in Seq({"APPROVED", "REJECTED"}) /\ <<"APPROVED">> \in Seq({"APPROVED", "REJECTED"})
      OBVIOUS
    <3>2. QED
      BY <3>1 DEF Init
  <2>5. question \in Seq([trip : Trip, at : Nat]) /\ answer \in Seq([question : Nat \ {0}, at : Nat])
    BY DEF Init
  <2>6. QED
    BY <2>1, <2>2, <2>3, <2>4, <2>5 DEF Init, TypeOK
<1>3. CallsOK /\ AnswersOK
  <2>1. answer = << >>
    BY DEF Init
  <2>2. \A q : Answers(q) = 0
    BY <1>2, <2>1, AnswersFinite
  <2>3. QED
    BY <2>1, <2>2 DEF Init, CallsOK, AnswersOK
<1>4. SchedulesOK
  BY <1>1 DEF SchedulesOK
<1>5. DecidedOnce
  BY <1>1 DEF Init, DecidedOnce, Published
<1>6. QED
  BY <1>2, <1>3, <1>4, <1>5 DEF IInv

-----------------------------------------------------------------------------
\* A worker that goes on with a call, or ends it; the others rely on what they did.
LEMMA CallsMove ==
    ASSUME IInv, Later, NEW w \in Worker, NEW c \in Call \cup {NoCall},
           call' = [call EXCEPT ![w] = c], c # NoCall => CallOK(c)'
    PROVE  CallsOK' /\ call' \in [Worker -> Call \cup {NoCall}]
<1>1. /\ call' \in [Worker -> Call \cup {NoCall}]
      /\ call'[w] = c /\ \A v \in Worker \ {w} : call'[v] = call[v]
  BY DEF IInv, TypeOK
<1>2. ASSUME NEW v \in Worker, call'[v] # NoCall PROVE CallOK(call[v])'
  <2>1. PICK d : d = call'[v]
    OBVIOUS
  <2>2. CallOK(d)'
    <3>1. CASE v = w
      BY <1>1, <1>2, <2>1, <3>1
    <3>2. CASE v # w
      <4>1. d = call[v] /\ d \in Call
        BY <1>1, <1>2, <2>1, <3>2 DEF IInv, TypeOK
      <4>2. CallOK(d) /\ d.trip \in Trip
        BY <1>2, <2>1, <4>1 DEF IInv, CallsOK, Call
      <4>3. QED
        BY <4>2, CallStays
    <3>3. QED
      BY <3>1, <3>2
  <2>3. QED
    BY <2>1, <2>2 DEF CallOK, HasStatus
<1>3. QED
  BY <1>1, <1>2 DEF CallsOK

LEMMA QuietIInv ==
    ASSUME IInv, NEW w \in Worker, NEW c \in Call \cup {NoCall},
           call' = [call EXCEPT ![w] = c], c # NoCall => CallOK(c),
           UNCHANGED <<now, database>>
    PROVE  IInv'
<1>1. Later
  BY Typed DEF Later, database, IInv
<1>2. c # NoCall => CallOK(c)'
  BY DEF CallOK, HasStatus, database
<1>3. CallsOK' /\ call' \in [Worker -> Call \cup {NoCall}]
  BY <1>1, <1>2, CallsMove
<1>4. TypeOK'
  BY <1>3 DEF IInv, TypeOK, database
<1>5. AnswersOK' /\ SchedulesOK' /\ DecidedOnce'
  BY DEF IInv, AnswersOK, Answers, SchedulesOK, DecidedOnce, Published, database
<1>6. QED
  BY <1>3, <1>4, <1>5 DEF IInv

\* What must have been decided of a row.
DecisionOf(r) ==
    IF r # NoTrip /\ r.status = "PUBLISHED" THEN <<"APPROVED">>
    ELSE IF r # NoTrip /\ r.status = "REJECTED" THEN <<"REJECTED">>
    ELSE << >>

LEMMA DecidedPerRow == DecidedOnce <=> \A t \in Trip : decided[t] = DecisionOf(trip[t])
BY DEF DecidedOnce, DecisionOf, Published

\* A command that writes a row nobody has seen published.
LEMMA RowWritten ==
    ASSUME IInv, NEW w \in Worker, NEW t \in Trip, NEW r \in Row,
           call' = [call EXCEPT ![w] = NoCall], trip' = [trip EXCEPT ![t] = r],
           decided' = [decided EXCEPT ![t] = DecisionOf(r)],
           ValidSchedule(r.schedule), ~ IsPublished(t),
           UNCHANGED <<now, entitled, profiles, question, answer>>
    PROVE  IInv'
<1>1. /\ trip' \in [Trip -> Row \cup {NoTrip}]
      /\ trip'[t] = r /\ \A u \in Trip \ {t} : trip'[u] = trip[u]
  BY DEF IInv, TypeOK
<1>2. Later
  <2>1. \A u \in Trip : IsPublished(u) => u # t
    OBVIOUS
  <2>2. QED
    BY <1>1, <2>1, Typed DEF Later, IInv
<1>3. CallsOK' /\ call' \in [Worker -> Call \cup {NoCall}]
  BY <1>2, CallsMove
<1>4. decided' \in [Trip -> Seq({"APPROVED", "REJECTED"})]
  <2>1. DecisionOf(r) \in Seq({"APPROVED", "REJECTED"})
    <3>1. /\ << >> \in Seq({"APPROVED", "REJECTED"})
          /\ <<"APPROVED">> \in Seq({"APPROVED", "REJECTED"})
          /\ <<"REJECTED">> \in Seq({"APPROVED", "REJECTED"})
      OBVIOUS
    <3>2. QED
      BY <3>1 DEF DecisionOf
  <2>2. QED
    BY <2>1 DEF IInv, TypeOK
<1>5. TypeOK'
  BY <1>1, <1>3, <1>4 DEF IInv, TypeOK
<1>6. AnswersOK'
  BY DEF IInv, AnswersOK, Answers
<1>7. SchedulesOK'
  BY <1>1 DEF IInv, SchedulesOK
<1>8. DecidedOnce'
  <2> SUFFICES ASSUME NEW u \in Trip PROVE decided'[u] = DecisionOf(trip'[u])
    BY DecidedPerRow DEF DecidedOnce, DecisionOf, Published
  <2>1. CASE u = t
    BY <1>1, <2>1 DEF IInv, TypeOK
  <2>2. CASE u # t
    BY <1>1, <2>2, DecidedPerRow DEF IInv, TypeOK
  <2>3. QED
    BY <2>1, <2>2
<1>9. QED
  BY <1>3, <1>5, <1>6, <1>7, <1>8 DEF IInv

-----------------------------------------------------------------------------
\* A request that is received: an answer is of a question that is there.
LEMMA ReceiveIInv ==
    ASSUME IInv, NEW w \in Worker, NEW i, NEW q \in Nat, NEW s \in Schedule,
           i \in [operation : Operation, actor : Account, trip : Trip],
           i.operation = "answer" => q \in DOMAIN question /\ i.trip = question[q].trip,
           Receive(w, i, q, s)
    PROVE  IInv'
<1>1. PICK t : t = IF i.operation \in {"ask", "answer"} THEN now + Skew[w] ELSE 0
  OBVIOUS
<1>2. PICK b \in BOOLEAN : b <=> <<i.actor, "grant">> \in entitled
  OBVIOUS
<1> DEFINE c == [operation |-> i.operation, actor |-> i.actor, trip |-> i.trip, question |-> q,
                 schedule |-> s, view |-> NoView, at |-> t, capable |-> b]
<1>3. t \in Nat
  BY <1>1, Typed, WorldAssumption DEF IInv
<1>4. c \in Call
  BY <1>3 DEF Call
<1>5. call' = [call EXCEPT ![w] = c]
  BY <1>1, <1>2 DEF Receive
<1>6. CallOK(c)
  BY DEF CallOK
<1>7. QED
  BY <1>4, <1>5, <1>6, QuietIInv DEF Receive

LEMMA RequestIInv ==
    ASSUME IInv, NEW w \in Worker, Request(w)
    PROVE  IInv'
<1>1. ASSUME NEW i \in Input, NEW s \in Schedule,
             Receive(w, i, 0, IF i.operation = "draft" THEN s ELSE AnySchedule)
      PROVE  IInv'
  <2>1. /\ i \in [operation : Operation, actor : Account, trip : Trip]
        /\ i.operation # "answer"
    BY WorldAssumption
  <2>2. (IF i.operation = "draft" THEN s ELSE AnySchedule) \in Schedule
    BY ScheduleIsThere
  <2>3. QED
    BY <1>1, <2>1, <2>2, ReceiveIInv
<1>2. ASSUME NEW a \in Answerer, NEW q \in 1 .. Len(question),
             Receive(w, [operation |-> "answer", actor |-> a, trip |-> question[q].trip], q,
                     AnySchedule)
      PROVE  IInv'
  <2>1. q \in DOMAIN question /\ q \in Nat /\ question[q].trip \in Trip
    BY Typed DEF IInv, QuestionRow
  <2>2. PICK t : t = question[q].trip
    OBVIOUS
  <2> DEFINE i == [operation |-> "answer", actor |-> a, trip |-> t]
  <2>3. i \in [operation : Operation, actor : Account, trip : Trip]
    BY <2>1, <2>2, WorldAssumption DEF Operation
  <2>4. Receive(w, i, q, AnySchedule)
    BY <1>2, <2>2
  <2>5. QED
    BY <2>1, <2>2, <2>3, <2>4, ReceiveIInv, ScheduleIsThere
<1>3. QED
  BY <1>1, <1>2 DEF Request

\* a call with another view
LEMMA Viewed ==
    ASSUME NEW c \in Call, NEW v \in View \cup {NoView}
    PROVE  /\ [c EXCEPT !.view = v] \in Call
           /\ [c EXCEPT !.view = v].view = v
           /\ [c EXCEPT !.view = v].operation = c.operation
           /\ [c EXCEPT !.view = v].trip = c.trip
           /\ [c EXCEPT !.view = v].question = c.question
BY DEF Call

LEMMA BeginIInv ==
    ASSUME IInv, NEW w \in Worker, Begin(w)
    PROVE  IInv'
<1>1. PICK c \in Call : c = call[w]
  BY Typed DEF IInv, Begin
<1>2. CallOK(c) /\ c.question \in Nat /\ c.actor \in Account /\ c.trip \in Trip
  BY <1>1 DEF IInv, CallsOK, Begin, Call
<1>3. PICK v \in View : v = Snapshot(c)
  BY <1>2, SnapshotType DEF IInv, AnswersOK
<1> DEFINE m == [c EXCEPT !.view = v]
<1>4. call' = [call EXCEPT ![w] = m]
  BY <1>1, <1>3 DEF Begin
<1>5. v.trip = trip[c.trip]
  BY <1>3 DEF Snapshot
<1>6. CallOK(m)
  BY <1>2, <1>5, Viewed DEF CallOK, HasStatus
<1>7. QED
  BY <1>4, <1>6, Viewed, QuietIInv DEF Begin

LEMMA RetryIInv ==
    ASSUME IInv, NEW w \in Worker, Retry(w)
    PROVE  IInv'
<1>1. PICK c \in Call : c = call[w]
  BY Typed DEF IInv, Retry, Running
<1>2. CallOK(c)
  BY <1>1 DEF IInv, CallsOK, Retry, Running
<1> DEFINE m == [c EXCEPT !.view = NoView]
<1>3. call' = [call EXCEPT ![w] = m]
  BY <1>1 DEF Retry
<1>4. CallOK(m)
  BY <1>2, Viewed DEF CallOK
<1>5. QED
  BY <1>3, <1>4, Viewed, QuietIInv DEF Retry

LEMMA GoneIInv ==
    ASSUME IInv, NEW w \in Worker, Refuse(w) \/ Fail(w)
    PROVE  IInv'
BY QuietIInv DEF Refuse, Fail, Finish, database

\* What a command in its transaction has, and what it was permitted on.
LEMMA Allowed ==
    ASSUME IInv, NEW w \in Worker, NEW c, c = call[w], Running(w), Permitted(c)
    PROVE  /\ c \in Call /\ c.view \in View /\ CallOK(c)
           /\ c.view # NoView
           /\ c.operation = "draft" => ValidSchedule(c.schedule)
           /\ c.operation = "submit" => HasStatus(c, "DRAFT")
           /\ c.operation \in {"approve", "reject"} => HasStatus(c, "PENDING_MODERATION")
           /\ c.operation \in {"ask", "answer"} => HasStatus(c, "PUBLISHED")
<1>1. c \in Call /\ c.view # NoView /\ CallOK(c)
  BY Typed DEF IInv, Running, CallsOK
<1>2. c.view \in View /\ c.operation \in Operation
  BY <1>1 DEF Call
<1>3. QED
  BY <1>1, <1>2 DEF Permitted, ShapeChecked

LEMMA CreateProfileIInv ==
    ASSUME IInv, NEW w \in Worker, CreateProfile(w)
    PROVE  IInv'
<1>1. PICK a \in Account : a = call[w].actor
  BY Typed DEF IInv, CreateProfile, Executing, Running, Call
<1>2. call' = [call EXCEPT ![w] = NoCall] /\ UNCHANGED <<now, entitled, trip, decided, question, answer>>
  BY DEF CreateProfile, Finish
<1>3. profiles' \in [Account -> {0, 1}]
  <2>1. profiles[a] = 0 /\ profiles' = [profiles EXCEPT ![a] = 1]
    BY <1>1 DEF CreateProfile, ProfileKeyFree
  <2>2. QED
    BY <2>1 DEF IInv, TypeOK
<1>4. Later
  BY <1>2, Typed DEF Later, IInv
<1>5. CallsOK' /\ call' \in [Worker -> Call \cup {NoCall}]
  BY <1>2, <1>4, CallsMove
<1>6. TypeOK'
  BY <1>2, <1>3, <1>5 DEF IInv, TypeOK
<1>7. AnswersOK' /\ SchedulesOK' /\ DecidedOnce'
  BY <1>2 DEF IInv, AnswersOK, Answers, SchedulesOK, DecidedOnce, Published
<1>8. QED
  BY <1>5, <1>6, <1>7 DEF IInv

LEMMA CreateDraftIInv ==
    ASSUME IInv, NEW w \in Worker, CreateDraft(w)
    PROVE  IInv'
<1>1. PICK c : c = call[w]
  OBVIOUS
<1>2. c \in Call /\ c.operation = "draft" /\ ValidSchedule(c.schedule)
  BY <1>1, Allowed DEF CreateDraft, Executing
<1>3. PICK t \in Trip : t = c.trip
  BY <1>2 DEF Call
<1>4. PICK r : r = NewDraft(c)
  OBVIOUS
<1>5. r \in Row /\ r.status = "DRAFT" /\ ValidSchedule(r.schedule)
  BY <1>2, <1>4, DraftType DEF NewDraft, Call
<1>6. /\ trip[t] = NoTrip /\ trip' = [trip EXCEPT ![t] = r]
      /\ call' = [call EXCEPT ![w] = NoCall]
      /\ UNCHANGED <<now, entitled, profiles, decided, question, answer>>
  BY <1>1, <1>3, <1>4 DEF CreateDraft, Finish
<1>7. decided' = [decided EXCEPT ![t] = DecisionOf(r)]
  <2>1. decided[t] = << >>
    BY <1>6, DecidedPerRow DEF IInv, DecisionOf
  <2>2. DecisionOf(r) = << >>
    BY <1>5 DEF DecisionOf
  <2>3. QED
    BY <1>6, <2>1, <2>2 DEF IInv, TypeOK
<1>8. ~ IsPublished(t)
  BY <1>6 DEF IsPublished
<1>9. QED
  BY <1>5, <1>6, <1>7, <1>8, RowWritten

\* A row that is saved is the one that was read, moved along the lifecycle.
LEMMA SavedRow ==
    ASSUME IInv, NEW w \in Worker, NEW c \in Call, c = call[w], c.view \in View,
           NEW status, Save(w, status),
           \/ HasStatus(c, "DRAFT") /\ status = "PENDING_MODERATION"
           \/ HasStatus(c, "PENDING_MODERATION") /\ status \in {"PUBLISHED", "REJECTED"}
    PROVE  \E t \in Trip, r \in Row :
              /\ t = c.trip /\ trip[t] # NoTrip /\ trip[t] = c.view.trip
              /\ trip' = [trip EXCEPT ![t] = r]
              /\ r.status = status /\ ValidSchedule(r.schedule)
              /\ call' = [call EXCEPT ![w] = NoCall]
              /\ UNCHANGED <<now, entitled, profiles, question, answer>>
              /\ ~ IsPublished(t) /\ decided[t] = << >>
<1>1. PICK t \in Trip : t = c.trip
  BY DEF Call
<1>2. trip[t] = c.view.trip /\ trip[t] # NoTrip
  BY <1>1 DEF Save, Unmoved, HasStatus
<1>3. PICK o \in Row : o = trip[t]
  BY <1>2 DEF IInv, TypeOK
<1>4. PICK r : r = Moved(o, status)
  OBVIOUS
<1>5. \/ o.status = "DRAFT" /\ status = "PENDING_MODERATION"
      \/ o.status = "PENDING_MODERATION" /\ status \in {"PUBLISHED", "REJECTED"}
  BY <1>2, <1>3 DEF HasStatus
<1>6. r \in Row /\ r.status = status /\ r.schedule = o.schedule
  BY <1>4, <1>5, MovedType
<1>7. ValidSchedule(r.schedule)
  BY <1>2, <1>3, <1>6 DEF IInv, SchedulesOK
<1>8. trip' = [trip EXCEPT ![t] = r]
  BY <1>1, <1>2, <1>3, <1>4 DEF Save
<1>9. ~ IsPublished(t)
  BY <1>3, <1>5 DEF IsPublished
<1>10. decided[t] = << >>
  BY <1>3, <1>5, DecidedPerRow DEF IInv, DecisionOf
<1>11. QED
  BY <1>1, <1>2, <1>6, <1>7, <1>8, <1>9, <1>10 DEF Save, Finish

LEMMA SubmitIInv ==
    ASSUME IInv, NEW w \in Worker, SubmitForModeration(w)
    PROVE  IInv'
<1>1. PICK c : c = call[w]
  OBVIOUS
<1>2. c \in Call /\ c.view \in View /\ HasStatus(c, "DRAFT")
  BY <1>1, Allowed DEF SubmitForModeration, Executing
<1>3. PICK t \in Trip, r \in Row :
              /\ t = c.trip /\ trip[t] # NoTrip /\ trip[t] = c.view.trip
              /\ trip' = [trip EXCEPT ![t] = r]
              /\ r.status = "PENDING_MODERATION" /\ ValidSchedule(r.schedule)
              /\ call' = [call EXCEPT ![w] = NoCall]
              /\ UNCHANGED <<now, entitled, profiles, question, answer>>
              /\ ~ IsPublished(t) /\ decided[t] = << >>
  BY <1>1, <1>2, SavedRow DEF SubmitForModeration
<1>4. decided' = [decided EXCEPT ![t] = DecisionOf(r)]
  BY <1>3 DEF SubmitForModeration, DecisionOf, IInv, TypeOK
<1>5. QED
  BY <1>3, <1>4, RowWritten

LEMMA DecideIInv ==
    ASSUME IInv, NEW w \in Worker, NEW operation, NEW ruling, NEW status,
           Decide(w, operation, ruling, status),
           \/ operation = "approve" /\ ruling = "APPROVED" /\ status = "PUBLISHED"
           \/ operation = "reject" /\ ruling = "REJECTED" /\ status = "REJECTED"
    PROVE  IInv'
<1>1. PICK c : c = call[w]
  OBVIOUS
<1>2. c \in Call /\ c.view \in View /\ HasStatus(c, "PENDING_MODERATION")
  BY <1>1, Allowed DEF Decide, Executing
<1>3. PICK t \in Trip, r \in Row :
              /\ t = c.trip /\ trip[t] # NoTrip /\ trip[t] = c.view.trip
              /\ trip' = [trip EXCEPT ![t] = r]
              /\ r.status = status /\ ValidSchedule(r.schedule)
              /\ call' = [call EXCEPT ![w] = NoCall]
              /\ UNCHANGED <<now, entitled, profiles, question, answer>>
              /\ ~ IsPublished(t) /\ decided[t] = << >>
  BY <1>1, <1>2, SavedRow DEF Decide
<1>4. decided' = [decided EXCEPT ![t] = DecisionOf(r)]
  <2>1. Append(<< >>, ruling) = <<ruling>>
    OBVIOUS
  <2>2. decided' = [decided EXCEPT ![t] = <<ruling>>]
    BY <1>1, <1>3, <2>1 DEF Decide, IInv, TypeOK
  <2>3. DecisionOf(r) = <<ruling>>
    BY <1>3, RowType DEF DecisionOf
  <2>4. QED
    BY <2>2, <2>3
<1>5. QED
  BY <1>3, <1>4, RowWritten

\* An offer that was seen published still is when its discussion goes on.
LEMMA AskIInv ==
    ASSUME IInv, NEW w \in Worker, Ask(w)
    PROVE  /\ IInv'
           /\ \E t \in Trip, n \in Nat :
                 IsPublished(t) /\ question' = Append(question, [trip |-> t, at |-> n])
<1>1. PICK c : c = call[w]
  OBVIOUS
<1>2. c \in Call /\ c.view # NoView /\ CallOK(c) /\ HasStatus(c, "PUBLISHED")
  BY <1>1, Allowed DEF Ask, Executing
<1>3. PICK t \in Trip, n \in Nat : t = c.trip /\ n = c.at
  BY <1>2 DEF Call
<1> DEFINE e == [trip |-> t, at |-> n]
<1>4. /\ question' = Append(question, e)
      /\ call' = [call EXCEPT ![w] = NoCall]
      /\ UNCHANGED <<now, entitled, profiles, trip, decided, answer>>
  BY <1>1, <1>3 DEF Ask, Finish
<1>5. question \in Seq(QuestionRow) /\ e \in QuestionRow
  BY Typed DEF IInv, QuestionRow
<1>6. /\ question' \in Seq(QuestionRow)
      /\ \A q \in DOMAIN question : q \in DOMAIN question' /\ question'[q] = question[q]
  BY <1>4, <1>5, Appended
<1>7. Later
  BY <1>4, <1>6, Typed DEF Later, IInv
<1>8. CallsOK' /\ call' \in [Worker -> Call \cup {NoCall}]
  BY <1>4, <1>7, CallsMove
<1>9. TypeOK'
  BY <1>4, <1>6, <1>8 DEF IInv, TypeOK, QuestionRow
<1>10. AnswersOK' /\ SchedulesOK' /\ DecidedOnce'
  BY <1>4, <1>6 DEF IInv, AnswersOK, Answers, SchedulesOK, DecidedOnce, Published
<1>11. IsPublished(t)
  BY <1>2, <1>3 DEF CallOK, HasStatus, IsPublished
<1>12. QED
  BY <1>4, <1>8, <1>9, <1>10, <1>11 DEF IInv

LEMMA AnswerIInv ==
    ASSUME IInv, NEW w \in Worker, AnswerQuestion(w)
    PROVE  /\ IInv'
           /\ \E q \in DOMAIN question, n \in Nat :
                 /\ call[w] # NoCall /\ call[w].operation = "answer"
                 /\ q = call[w].question /\ n = call[w].at
                 /\ IsPublished(question[q].trip) /\ Answers(q) = 0
                 /\ answer' = Append(answer, [question |-> q, at |-> n])
                 /\ UNCHANGED <<now, trip, question>>
<1>1. PICK c : c = call[w]
  OBVIOUS
<1>2. /\ c \in Call /\ c.view # NoView /\ CallOK(c) /\ HasStatus(c, "PUBLISHED")
      /\ c # NoCall /\ c.operation = "answer"
  BY <1>1, Allowed DEF AnswerQuestion, Executing, Running
<1>3. PICK q \in DOMAIN question, n \in Nat :
         q = c.question /\ n = c.at /\ question[q].trip = c.trip
  BY <1>2 DEF Call, CallOK
<1> DEFINE e == [question |-> q, at |-> n]
<1>4. /\ answer' = Append(answer, e) /\ Answers(q) = 0
      /\ call' = [call EXCEPT ![w] = NoCall]
      /\ UNCHANGED <<now, entitled, profiles, trip, decided, question>>
  BY <1>1, <1>3 DEF AnswerQuestion, AnswerKeyFree, Finish
<1>5. answer \in Seq(AnswerRow) /\ e \in AnswerRow /\ q \in Nat
  BY Typed DEF IInv, AnswerRow
<1>6. /\ answer' \in Seq(AnswerRow)
      /\ \A i \in DOMAIN answer' :
            answer'[i] = e \/ (i \in DOMAIN answer /\ answer'[i] = answer[i])
  BY <1>4, <1>5, Appended
<1>7. Later
  BY <1>4, Typed DEF Later, IInv
<1>8. CallsOK' /\ call' \in [Worker -> Call \cup {NoCall}]
  BY <1>4, <1>7, CallsMove
<1>9. TypeOK'
  BY <1>4, <1>6, <1>8 DEF IInv, TypeOK, AnswerRow
<1>10. AnswersOK'
  <2>1. \A i \in DOMAIN answer' : answer'[i].question \in DOMAIN question'
    BY <1>4, <1>6 DEF IInv, AnswersOK
  <2>2. \A p \in Nat : Answers(p)' \in {0, 1}
    <3> SUFFICES ASSUME NEW p \in Nat PROVE Answers(p)' \in {0, 1}
      OBVIOUS
    <3>1. CASE p = q
      BY <1>4, <1>5, <3>1, AnswerCounts DEF IInv
    <3>2. CASE p # q
      BY <1>4, <1>5, <3>2, AnswerCounts DEF IInv, AnswersOK
    <3>3. QED
      BY <3>1, <3>2
  <2>3. QED
    BY <2>1, <2>2 DEF AnswersOK
<1>11. SchedulesOK' /\ DecidedOnce'
  BY <1>4 DEF IInv, SchedulesOK, DecidedOnce, Published
<1>12. IsPublished(question[q].trip)
  BY <1>2, <1>3 DEF CallOK, HasStatus, IsPublished
<1>13. QED
  BY <1>1, <1>2, <1>3, <1>4, <1>8, <1>9, <1>10, <1>11, <1>12 DEF IInv

\* The clock moves, or an entitlement is withdrawn, or nothing happens.
LEMMA WorldIInv ==
    ASSUME IInv, now' \in Nat, now <= now', entitled' \subseteq entitled,
           UNCHANGED <<profiles, trip, decided, question, answer, call>>
    PROVE  IInv'
<1>1. Later
  BY Typed DEF Later, IInv
<1>2. CallsOK'
  BY <1>1 DEF IInv, CallsOK, CallOK, HasStatus
<1>3. TypeOK'
  BY DEF IInv, TypeOK
<1>4. AnswersOK' /\ SchedulesOK' /\ DecidedOnce'
  BY DEF IInv, AnswersOK, Answers, SchedulesOK, DecidedOnce, Published
<1>5. QED
  BY <1>2, <1>3, <1>4 DEF IInv

LEMMA NextIInv == IInv /\ [Next]_vars => IInv'
<1> SUFFICES ASSUME IInv, [Next]_vars PROVE IInv'
  OBVIOUS
<1>1. ASSUME NEW w \in Worker, Moderate(w) PROVE IInv'
  BY <1>1, DecideIInv DEF Moderate
<1>2. ASSUME NEW w \in Worker, Commit(w) PROVE IInv'
  BY <1>1, <1>2, CreateProfileIInv, CreateDraftIInv, SubmitIInv, AskIInv, AnswerIInv DEF Commit
<1>3. now \in Nat
  BY Typed DEF IInv
<1>4. CASE Tick \/ \E e \in Unsteady : Withdraw(e)
  BY <1>3, <1>4, WorldIInv DEF Tick, Withdraw, database
<1>5. CASE UNCHANGED vars
  BY <1>3, <1>5, WorldIInv DEF vars, database
<1>6. QED
  BY <1>2, <1>4, <1>5, RequestIInv, BeginIInv, RetryIInv, GoneIInv DEF Next

LEMMA Invariance == Spec => []IInv
BY InitIInv, NextIInv, PTL DEF Spec

\* Rows, discussions and commands keep their types: a status has its version, an
\* account has one profile at most, however many commands run at once.
THEOREM OfferTypes == Spec => []TypeOK
<1>1. IInv => TypeOK
  BY DEF IInv
<1>2. QED
  BY <1>1, Invariance, PTL

\* Of moderators who decide on one offer, one leaves a decision, and the offer is
\* what was decided.
THEOREM OffersAreDecidedOnce == Spec => []DecidedOnce
<1>1. IInv => DecidedOnce
  BY DEF IInv
<1>2. QED
  BY <1>1, Invariance, PTL

-----------------------------------------------------------------------------
\* The catalogue that rows, questions and answers stand for.
Offers == [t \in Trip |-> StatusOf(t)]
Threads == [q \in 1 .. Len(question) |-> Asked(q)]
ThreadRow == [trip : Trip, answers : {0, 1}]

LEMMA ThreadType ==
    ASSUME IInv
    PROVE  /\ Threads \in Seq(ThreadRow) /\ Len(Threads) = Len(question)
           /\ \A q \in DOMAIN question : Threads[q] = Asked(q) /\ Asked(q) \in ThreadRow
<1>1. Len(question) \in Nat /\ DOMAIN question = 1 .. Len(question)
  BY Typed DEF IInv
<1>2. \A q \in DOMAIN question : Asked(q) \in ThreadRow
  <2> SUFFICES ASSUME NEW q \in DOMAIN question PROVE Asked(q) \in ThreadRow
    OBVIOUS
  <2>1. question[q].trip \in Trip /\ Answers(q) \in {0, 1}
    BY <1>1, Typed DEF IInv, AnswersOK, QuestionRow
  <2>2. QED
    BY <2>1 DEF Asked, ThreadRow
<1>3. Threads \in [1 .. Len(question) -> ThreadRow]
  BY <1>1, <1>2 DEF Threads
<1>4. Threads \in Seq(ThreadRow) /\ Len(Threads) = Len(question)
  BY <1>1, <1>3
<1>5. QED
  BY <1>1, <1>2, <1>4 DEF Threads

LEMMA CatalogueSame ==
    ASSUME UNCHANGED <<trip, question, answer>>
    PROVE  Offers' = Offers /\ Threads' = Threads
BY DEF Offers, StatusOf, Threads, Asked, Answers

\* A row that is written moves its offer, and nothing else.
LEMMA OfferMoves ==
    ASSUME IInv, NEW t \in Trip, NEW r \in Row, trip' = [trip EXCEPT ![t] = r],
           UNCHANGED <<question, answer>>, <<StatusOf(t), r.status>> \in Catalogue!Moves
    PROVE  Catalogue!Move(t)
<1>1. Threads' = Threads
  BY DEF Threads, Asked, Answers
<1>2. \A u \in Trip : StatusOf(u)' = IF u = t THEN r.status ELSE StatusOf(u)
  BY RowType DEF StatusOf, IInv, TypeOK
<1>3. Offers' = [Offers EXCEPT ![t] = r.status] /\ Offers[t] = StatusOf(t)
  BY <1>2 DEF Offers
<1>4. \E m \in Catalogue!Moves : Offers[t] = m[1] /\ Offers' = [Offers EXCEPT ![t] = m[2]]
  BY <1>3
<1>5. QED
  BY <1>1, <1>4 DEF Catalogue!Move, Offers, Threads

LEMMA DraftMoves ==
    ASSUME IInv, NEW w \in Worker, CreateDraft(w)
    PROVE  \E t \in Trip : Catalogue!Move(t)
<1>1. PICK c : c = call[w]
  OBVIOUS
<1>2. c \in Call
  BY <1>1, Allowed DEF CreateDraft, Executing
<1>3. PICK t \in Trip : t = c.trip
  BY <1>2 DEF Call
<1>4. PICK r : r = NewDraft(c)
  OBVIOUS
<1>5. r \in Row /\ r.status = "DRAFT"
  BY <1>2, <1>4, DraftType DEF NewDraft, Call
<1>6. trip[t] = NoTrip /\ trip' = [trip EXCEPT ![t] = r] /\ UNCHANGED <<question, answer>>
  BY <1>1, <1>3, <1>4 DEF CreateDraft
<1>7. <<StatusOf(t), r.status>> \in Catalogue!Moves
  BY <1>5, <1>6 DEF StatusOf, Catalogue!Moves
<1>8. QED
  BY <1>5, <1>6, <1>7, OfferMoves

LEMMA SaveMoves ==
    ASSUME IInv, NEW w \in Worker, SubmitForModeration(w) \/ Moderate(w)
    PROVE  \E t \in Trip : Catalogue!Move(t)
<1>1. PICK c : c = call[w]
  OBVIOUS
<1>2. PICK status :
         /\ c \in Call /\ c.view \in View /\ Save(w, status)
         /\ \/ HasStatus(c, "DRAFT") /\ status = "PENDING_MODERATION"
            \/ HasStatus(c, "PENDING_MODERATION") /\ status \in {"PUBLISHED", "REJECTED"}
  BY <1>1, Allowed DEF SubmitForModeration, Moderate, Decide, Executing
<1>3. PICK t \in Trip, r \in Row :
         /\ trip[t] # NoTrip /\ trip[t] = c.view.trip
         /\ trip' = [trip EXCEPT ![t] = r]
         /\ r.status = status
         /\ UNCHANGED <<question, answer>>
  BY <1>1, <1>2, SavedRow
<1>4. <<StatusOf(t), r.status>> \in Catalogue!Moves
  BY <1>2, <1>3 DEF StatusOf, HasStatus, Catalogue!Moves
<1>5. QED
  BY <1>3, <1>4, OfferMoves

LEMMA AskAsks ==
    ASSUME IInv, NEW w \in Worker, Ask(w)
    PROVE  \E t \in Trip : Catalogue!Ask(t)
<1>1. PICK t \in Trip, n \in Nat :
         IsPublished(t) /\ question' = Append(question, [trip |-> t, at |-> n])
  BY AskIInv
<1>0. PICK k : k = Len(question) + 1
  OBVIOUS
<1> DEFINE e == [trip |-> t, at |-> n]
           row == [trip |-> t, answers |-> 0]
<1>2. UNCHANGED <<trip, answer>> /\ IInv'
  BY AskIInv DEF Ask
<1>3. question \in Seq(QuestionRow) /\ e \in QuestionRow /\ Len(question) \in Nat
      /\ DOMAIN question = 1 .. Len(question)
  BY Typed DEF IInv, QuestionRow
<1>4. /\ Len(question') = k
      /\ \A q \in DOMAIN question : question'[q] = question[q]
      /\ question'[k] = e /\ DOMAIN question' = 1 .. k
  BY <1>0, <1>1, <1>3, Appended
<1>5. Answers(k) = 0
  <2>1. k \notin DOMAIN question
    BY <1>0, <1>3
  <2>2. \A i \in DOMAIN answer : answer[i].question # k
    BY <2>1 DEF IInv, AnswersOK
  <2>3. QED
    BY <2>2, AnswersFinite DEF IInv
<1>6. \A q : Answers(q)' = Answers(q)
  BY <1>2 DEF Answers
<1>7. /\ \A q \in 1 .. Len(question) : Threads'[q] = Threads[q]
      /\ Threads'[k] = row /\ row \in ThreadRow
  <2>1. \A q \in 1 .. Len(question) : Asked(q)' = Asked(q)
    BY <1>3, <1>4, <1>6 DEF Asked
  <2>2. Asked(k)' = row
    BY <1>4, <1>5, <1>6 DEF Asked
  <2>3. QED
    BY <1>0, <1>3, <1>4, <2>1, <2>2 DEF Threads, ThreadRow
<1>8. /\ Threads \in Seq(ThreadRow) /\ Len(Threads) = Len(question)
      /\ Threads' \in Seq(ThreadRow) /\ Len(Threads') = k
  <2>1. Threads \in Seq(ThreadRow) /\ Len(Threads) = Len(question)
    BY ThreadType
  <2>2. (Threads \in Seq(ThreadRow) /\ Len(Threads) = Len(question))'
    BY <1>2, ThreadType, PTL
  <2>3. QED
    BY <1>4, <2>1, <2>2
<1>9. Threads' = Append(Threads, row)
  BY <1>0, <1>3, <1>7, <1>8, AppendedIs
<1>10. Offers' = Offers /\ Offers[t] = "PUBLISHED"
  BY <1>1, <1>2 DEF Offers, StatusOf, IsPublished
<1>11. QED
  BY <1>9, <1>10 DEF Catalogue!Ask, Offers, Threads

LEMMA AnswerAnswers ==
    ASSUME IInv, NEW w \in Worker, AnswerQuestion(w)
    PROVE  \E q \in 1 .. Len(Threads) : Catalogue!Answer(q)
<1>1. PICK q \in DOMAIN question, n \in Nat :
         /\ IsPublished(question[q].trip) /\ Answers(q) = 0
         /\ answer' = Append(answer, [question |-> q, at |-> n])
         /\ UNCHANGED <<now, trip, question>>
  BY AnswerIInv
<1>2. DOMAIN question = 1 .. Len(question) /\ Len(question) \in Nat /\ question[q].trip \in Trip
  BY Typed DEF IInv, QuestionRow
<1>3. [question |-> q, at |-> n] \in AnswerRow
  BY <1>2 DEF AnswerRow
<1>4. /\ \A p : p # q => Answers(p)' = Answers(p)
      /\ Answers(q)' = 1
  BY <1>1, <1>3, AnswerCounts DEF IInv
<1>5. /\ \A p \in 1 .. Len(question) :
            Asked(p)' = IF p = q THEN [Asked(p) EXCEPT !.answers = 1] ELSE Asked(p)
      /\ Asked(q).answers = 0 /\ Asked(q).trip = question[q].trip
  BY <1>1, <1>4 DEF Asked
<1>6. /\ Threads' = [Threads EXCEPT ![q].answers = 1]
      /\ Threads[q] = Asked(q)
  BY <1>1, <1>2, <1>5 DEF Threads
<1>7. Offers' = Offers /\ Offers[question[q].trip] = "PUBLISHED"
  BY <1>1, <1>2 DEF Offers, StatusOf, IsPublished
<1>8. Threads[q].answers = 0 /\ Offers[Threads[q].trip] = "PUBLISHED"
  BY <1>5, <1>6, <1>7
<1>9. q \in 1 .. Len(Threads)
  BY <1>2, ThreadType
<1>10. QED
  BY <1>6, <1>7, <1>8, <1>9 DEF Catalogue!Answer, Offers, Threads

LEMMA CatalogueInit == Init => Catalogue!Init
<1> SUFFICES ASSUME Init PROVE Catalogue!Init
  OBVIOUS
<1>1. \A t \in Trip : Stored[t] # NoTrip => Stored[t].status = "PUBLISHED"
  BY RowAssumption
<1>2. Offers = [t \in Trip |-> IF Stored[t] = NoTrip THEN NoTrip ELSE "PUBLISHED"]
  BY <1>1 DEF Offers, StatusOf, Init
<1>3. Threads = << >>
  BY DEF Threads, Init
<1>4. QED
  BY <1>2, <1>3 DEF Catalogue!Init, Offers, Threads

LEMMA CatalogueStep ==
    ASSUME IInv, [Next]_vars
    PROVE  Catalogue!Next \/ (Offers' = Offers /\ Threads' = Threads)
<1>1. CASE \E w \in Worker : CreateDraft(w) \/ SubmitForModeration(w) \/ Moderate(w) \/ Ask(w)
  BY <1>1, DraftMoves, SaveMoves, AskAsks DEF Catalogue!Next
<1>2. CASE \E w \in Worker : AnswerQuestion(w)
  BY <1>2, AnswerAnswers DEF Catalogue!Next, Threads
<1>3. CASE UNCHANGED <<trip, question, answer>>
  BY <1>3, CatalogueSame
<1>4. QED
  <2>1. \/ \E w \in Worker : CreateDraft(w) \/ SubmitForModeration(w) \/ Moderate(w) \/ Ask(w)
        \/ \E w \in Worker : AnswerQuestion(w)
        \/ UNCHANGED <<trip, question, answer>>
    BY DEF Next, Request, Receive, Begin, Commit, CreateProfile, Refuse, Retry, Fail, Tick,
           Withdraw, vars, database
  <2>2. QED
    BY <1>1, <1>2, <1>3, <2>1

\* Whatever transactions read, retry and lose, offers and discussions move as the
\* catalogue promises.
THEOREM CatalogueImplemented == Spec => ImplementsCatalogue
<1>1. Catalogue!Next \/ (Offers' = Offers /\ Threads' = Threads)
         => [Catalogue!Next]_<<Offers, Threads>>
  OBVIOUS
<1>2. IInv /\ [Next]_vars => [Catalogue!Next]_<<Offers, Threads>>
  BY <1>1, CatalogueStep
<1>3. QED
  BY <1>2, CatalogueInit, Invariance, PTL
     DEF Spec, ImplementsCatalogue, Catalogue!Spec, Offers, Threads

-----------------------------------------------------------------------------
\* A published row stays as it is.
LEMMA PublishedStays ==
    ASSUME IInv, [Next]_vars, NEW t \in Trip, IsPublished(t)
    PROVE  trip'[t] = trip[t]
<1>1. CASE \E w \in Worker : CreateDraft(w)
  <2>1. PICK w \in Worker : CreateDraft(w)
    BY <1>1
  <2>2. PICK c : c = call[w]
    OBVIOUS
  <2>3. c.trip # t /\ trip' = [trip EXCEPT ![c.trip] = NewDraft(c)]
    BY <2>1, <2>2 DEF CreateDraft, IsPublished
  <2>4. QED
    BY <2>3 DEF IInv, TypeOK
<1>2. CASE \E w \in Worker : SubmitForModeration(w) \/ Moderate(w)
  <2>1. PICK w \in Worker : SubmitForModeration(w) \/ Moderate(w)
    BY <1>2
  <2>2. PICK c : c = call[w]
    OBVIOUS
  <2>3. PICK status :
           /\ c \in Call /\ c.view \in View /\ Save(w, status)
           /\ \/ HasStatus(c, "DRAFT") /\ status = "PENDING_MODERATION"
              \/ HasStatus(c, "PENDING_MODERATION") /\ status \in {"PUBLISHED", "REJECTED"}
    BY <2>1, <2>2, Allowed DEF SubmitForModeration, Moderate, Decide, Executing
  <2>4. PICK u \in Trip, r \in Row : trip' = [trip EXCEPT ![u] = r] /\ ~ IsPublished(u)
    BY <2>2, <2>3, SavedRow
  <2>5. QED
    BY <2>4 DEF IInv, TypeOK
<1>3. CASE UNCHANGED trip
  BY <1>3
<1>4. QED
  <2>1. \/ \E w \in Worker : CreateDraft(w) \/ SubmitForModeration(w) \/ Moderate(w)
        \/ UNCHANGED trip
    BY DEF Next, Request, Receive, Begin, Commit, CreateProfile, Ask, AnswerQuestion, Refuse,
           Retry, Fail, Tick, Withdraw, vars, database
  <2>2. QED
    BY <1>1, <1>2, <1>3, <2>1

\* Dates are numbers: of two trips one is listed first.
LEMMA ListedOneAfterTheOther ==
    ASSUME IInv, NEW t \in Published, NEW u \in Published, t # u
    PROVE  (u \in Behind(t)) # (t \in Behind(u))
<1>1. /\ t \in Trip /\ trip[t] \in Row /\ u \in Trip /\ trip[u] \in Row
  BY Typed DEF Published, IInv
<1>2. trip[t].schedule.date \in Nat /\ trip[u].schedule.date \in Nat
  BY <1>1, RowType, WorldAssumption DEF ScheduleOf
<1>3. IdBefore(t, u) <=> ~ IdBefore(u, t)
  BY <1>1, IdAssumption
<1>4. (u \in Behind(t)) <=> ListedBefore(t, u)
  BY DEF Behind
<1>5. (t \in Behind(u)) <=> ListedBefore(u, t)
  BY DEF Behind
<1>6. ListedBefore(t, u) <=> ~ ListedBefore(u, t)
  BY <1>2, <1>3 DEF ListedBefore, DateBefore
<1>7. QED
  BY <1>4, <1>5, <1>6

\* Whatever is published while a reader turns pages: nothing is missed, and
\* nothing is read twice.
THEOREM PagesMissNothing == Spec => PagingMissesNothing
<1> DEFINE Listed == \A t, u \in Published : t # u => (u \in Behind(t)) # (t \in Behind(u))
           Kept == \A t \in Published : Behind(t) \subseteq Behind(t)'
<1>1. IInv => Listed
  BY ListedOneAfterTheOther
<1>2. ASSUME IInv, [Next]_vars PROVE Kept
  <2> SUFFICES ASSUME NEW t \in Published, NEW u \in Behind(t) PROVE u \in Behind(t)'
    OBVIOUS
  <2>1. t \in Trip /\ IsPublished(t) /\ u \in Trip /\ IsPublished(u) /\ ListedBefore(t, u)
    BY DEF Published, IsPublished, Behind
  <2>2. trip'[t] = trip[t] /\ trip'[u] = trip[u]
    BY <1>2, <2>1, PublishedStays
  <2>3. QED
    BY <2>1, <2>2 DEF Behind, Published, IsPublished, ListedBefore, DateBefore
<1>3. IInv /\ [Next]_vars => Listed' /\ Kept
  <2>1. IInv /\ [Next]_vars => Listed'
    BY <1>1, NextIInv, PTL
  <2>2. QED
    BY <1>2, <2>1
<1>4. Listed' <=> \A t, u \in Published' : t # u => (u \in Behind(t))' # (t \in Behind(u))'
  OBVIOUS
<1>5. IInv /\ [Next]_vars =>
         [/\ \A t, u \in Published' : t # u => (u \in Behind(t))' # (t \in Behind(u))'
          /\ \A t \in Published : Behind(t) \subseteq Behind(t)']_vars
  BY <1>3, <1>4
<1>6. QED
  BY <1>5, Invariance, PTL DEF Spec, PagingMissesNothing

-----------------------------------------------------------------------------
\* The clocks of all instances agree.
SameClock == \A v, w \in Worker : Skew[v] = Skew[w]

\* A question has been asked; an answer, also one that is on its way, follows it.
CallTimed(c, w) ==
    /\ c.operation = "ask" => c.at <= now + Skew[w]
    /\ c.operation = "answer" => question[c.question].at <= c.at

TimesOK ==
    /\ \A q \in DOMAIN question, w \in Worker : question[q].at <= now + Skew[w]
    /\ \A w \in Worker : call[w] # NoCall => CallTimed(call[w], w)
    /\ \A i \in DOMAIN answer : question[answer[i].question].at <= answer[i].at

LEMMA NowType ==
    ASSUME IInv
    PROVE  /\ now \in Nat /\ \A w \in Worker : Skew[w] \in Nat
           /\ \A w \in Worker : call[w] # NoCall => call[w] \in Call /\ CallOK(call[w])
           /\ \A q \in DOMAIN question : question[q].at \in Nat
BY Typed, WorldAssumption DEF IInv, CallsOK, QuestionRow

\* A worker that goes on with a call, or ends it: the others keep their instants.
LEMMA TimedMoves ==
    ASSUME IInv, TimesOK, NEW w \in Worker, NEW c,
           call' = [call EXCEPT ![w] = c], c # NoCall => CallTimed(c, w),
           UNCHANGED <<now, question, answer>>
    PROVE  TimesOK'
<1>1. /\ call'[w] = c /\ \A v \in Worker \ {w} : call'[v] = call[v]
  BY DEF IInv, TypeOK
<1>2. ASSUME NEW v \in Worker, call'[v] # NoCall PROVE CallTimed(call[v], v)'
  <2>1. PICK d : d = call'[v]
    OBVIOUS
  <2>2. CallTimed(d, v)
    BY <1>1, <1>2, <2>1 DEF TimesOK
  <2>3. QED
    BY <2>1, <2>2 DEF CallTimed
<1>3. QED
  BY <1>2 DEF TimesOK

LEMMA AskTimed ==
    ASSUME IInv, TimesOK, SameClock, NEW w \in Worker, Ask(w)
    PROVE  TimesOK'
<1>1. PICK c : c = call[w]
  OBVIOUS
<1>2. /\ c \in Call /\ c.operation = "ask" /\ CallTimed(c, w) /\ c # NoCall
  BY <1>1, NowType DEF Ask, Executing, Running, TimesOK
<1>3. PICK t \in Trip, n \in Nat : t = c.trip /\ n = c.at
  BY <1>2 DEF Call
<1> DEFINE e == [trip |-> t, at |-> n]
<1>4. /\ question' = Append(question, e)
      /\ call' = [call EXCEPT ![w] = NoCall]
      /\ UNCHANGED <<now, answer>>
  BY <1>1, <1>3 DEF Ask, Finish
<1>5. question \in Seq(QuestionRow) /\ e \in QuestionRow
  BY Typed DEF IInv, QuestionRow
<1>6. /\ \A q \in DOMAIN question' :
            \/ question'[q] = e
            \/ q \in DOMAIN question /\ question'[q] = question[q]
      /\ \A q \in DOMAIN question : question'[q] = question[q]
  BY <1>4, <1>5, Appended
<1>7. ASSUME NEW q \in DOMAIN question', NEW v \in Worker
      PROVE  question'[q].at <= now' + Skew[v]
  <2>1. CASE question'[q] = e
    BY <1>2, <1>3, <1>4, <2>1 DEF CallTimed, SameClock
  <2>2. CASE q \in DOMAIN question /\ question'[q] = question[q]
    BY <1>4, <2>2 DEF TimesOK
  <2>3. QED
    BY <1>6, <2>1, <2>2
<1>8. ASSUME NEW v \in Worker, call'[v] # NoCall PROVE CallTimed(call[v], v)'
  <2>1. v # w /\ call'[v] = call[v]
    BY <1>4, <1>8 DEF IInv, TypeOK
  <2>2. PICK d : d = call[v]
    OBVIOUS
  <2>3. CallTimed(d, v) /\ CallOK(d)
    BY <1>8, <2>1, <2>2, NowType DEF TimesOK
  <2>4. d.operation = "answer" => question'[d.question] = question[d.question]
    BY <1>6, <2>3 DEF CallOK
  <2>5. QED
    BY <1>4, <2>1, <2>2, <2>3, <2>4 DEF CallTimed
<1>9. \A i \in DOMAIN answer' : question'[answer'[i].question].at <= answer'[i].at
  BY <1>4, <1>6 DEF IInv, AnswersOK, TimesOK
<1>10. QED
  BY <1>7, <1>8, <1>9 DEF TimesOK

LEMMA AnswerTimed ==
    ASSUME IInv, TimesOK, NEW w \in Worker, AnswerQuestion(w)
    PROVE  TimesOK'
<1>1. PICK q \in DOMAIN question, n \in Nat :
         /\ call[w] # NoCall /\ call[w].operation = "answer"
         /\ q = call[w].question /\ n = call[w].at
         /\ answer' = Append(answer, [question |-> q, at |-> n])
         /\ UNCHANGED <<now, trip, question>>
  BY AnswerIInv
<1>2. question[q].at <= n
  BY <1>1 DEF TimesOK, CallTimed
<1>3. answer \in Seq(AnswerRow) /\ [question |-> q, at |-> n] \in AnswerRow
  BY Typed DEF IInv, AnswerRow
<1>4. \A i \in DOMAIN answer' :
         \/ answer'[i] = [question |-> q, at |-> n]
         \/ i \in DOMAIN answer /\ answer'[i] = answer[i]
  BY <1>1, <1>3, Appended
<1>5. \A i \in DOMAIN answer' : question'[answer'[i].question].at <= answer'[i].at
  <2> SUFFICES ASSUME NEW i \in DOMAIN answer'
               PROVE  question[answer'[i].question].at <= answer'[i].at
    BY <1>1
  <2>1. CASE answer'[i] = [question |-> q, at |-> n]
    BY <1>2, <2>1
  <2>2. CASE i \in DOMAIN answer /\ answer'[i] = answer[i]
    BY <2>2 DEF TimesOK
  <2>3. QED
    BY <1>4, <2>1, <2>2
<1>6. call' = [call EXCEPT ![w] = NoCall]
  BY DEF AnswerQuestion, Finish
<1>7. ASSUME NEW v \in Worker, call'[v] # NoCall PROVE CallTimed(call[v], v)'
  <2>1. call'[v] = call[v]
    BY <1>6, <1>7 DEF IInv, TypeOK
  <2>2. CallTimed(call[v], v)
    BY <1>7, <2>1 DEF TimesOK
  <2>3. QED
    BY <1>1, <2>1, <2>2 DEF CallTimed
<1>8. QED
  BY <1>1, <1>5, <1>7 DEF TimesOK

LEMMA ReceiveTimed ==
    ASSUME IInv, TimesOK, NEW w \in Worker, NEW i, NEW q, NEW s, Receive(w, i, q, s),
           i.operation = "answer" => q \in DOMAIN question
    PROVE  TimesOK'
<1>0. PICK n, b : /\ n = IF i.operation \in {"ask", "answer"} THEN now + Skew[w] ELSE 0
                  /\ b = (<<i.actor, "grant">> \in entitled)
  OBVIOUS
<1> DEFINE c == [operation |-> i.operation, actor |-> i.actor, trip |-> i.trip, question |-> q,
                 schedule |-> s, view |-> NoView, at |-> n, capable |-> b]
<1>1. /\ call' = [call EXCEPT ![w] = c] /\ c.operation = i.operation /\ c.question = q
      /\ c.at = IF i.operation \in {"ask", "answer"} THEN now + Skew[w] ELSE 0
  BY <1>0 DEF Receive
<1>2. CallTimed(c, w)
  BY <1>1, NowType DEF CallTimed, TimesOK
<1>3. UNCHANGED <<now, question, answer>>
  BY DEF Receive, database
<1>4. QED
  BY <1>1, <1>2, <1>3, TimedMoves

LEMMA ViewTimed ==
    ASSUME IInv, TimesOK, NEW w \in Worker, Begin(w) \/ Retry(w)
    PROVE  TimesOK'
<1>1. PICK c : c = call[w]
  OBVIOUS
<1>2. c # NoCall /\ c \in Call /\ CallTimed(c, w)
  BY <1>1, NowType DEF Begin, Retry, Running, TimesOK
<1>3. PICK v : call' = [call EXCEPT ![w] = [c EXCEPT !.view = v]]
  BY <1>1 DEF Begin, Retry
<1> DEFINE m == [c EXCEPT !.view = v]
<1>4. m.operation = c.operation /\ m.question = c.question /\ m.at = c.at
  BY <1>2 DEF Call
<1>5. CallTimed(m, w)
  BY <1>2, <1>4 DEF CallTimed
<1>6. UNCHANGED <<now, question, answer>>
  BY DEF Begin, Retry, database
<1>7. QED
  BY <1>3, <1>5, <1>6, TimedMoves

LEMMA EndTimed ==
    ASSUME IInv, TimesOK, NEW w \in Worker, call' = [call EXCEPT ![w] = NoCall],
           UNCHANGED <<now, question, answer>>
    PROVE  TimesOK'
BY TimedMoves

LEMMA ClockTimed ==
    ASSUME IInv, TimesOK, now' \in Nat, now <= now', UNCHANGED <<question, answer, call>>
    PROVE  TimesOK'
<1>1. now \in Nat /\ \A w \in Worker : Skew[w] \in Nat
  BY NowType
<1>2. \A q \in DOMAIN question, w \in Worker : question[q].at <= now' + Skew[w]
  <2> SUFFICES ASSUME NEW q \in DOMAIN question, NEW w \in Worker
               PROVE  question[q].at <= now' + Skew[w]
    OBVIOUS
  <2>1. question[q].at \in Nat /\ question[q].at <= now + Skew[w] /\ Skew[w] \in Nat
    BY NowType DEF TimesOK
  <2>2. QED
    BY <1>1, <2>1
<1>3. ASSUME NEW w \in Worker, call[w] # NoCall PROVE CallTimed(call[w], w)'
  <2>1. CallTimed(call[w], w) /\ call[w].at \in Nat /\ Skew[w] \in Nat
    BY <1>3, NowType DEF TimesOK, Call
  <2>2. call[w].at <= now + Skew[w] => call[w].at <= now' + Skew[w]
    BY <1>1, <2>1
  <2>3. QED
    BY <2>1, <2>2 DEF CallTimed
<1>4. QED
  BY <1>2, <1>3 DEF TimesOK

LEMMA NextTimed ==
    ASSUME IInv, TimesOK, SameClock, [Next]_vars
    PROVE  TimesOK'
<1>1. ASSUME NEW w \in Worker, Request(w) PROVE TimesOK'
  <2>1. ASSUME NEW i \in Input, NEW s, Receive(w, i, 0, s) PROVE TimesOK'
    <3>1. i.operation # "answer"
      BY WorldAssumption
    <3>2. QED
      BY <2>1, <3>1, ReceiveTimed
  <2>2. ASSUME NEW a \in Answerer, NEW q \in 1 .. Len(question),
               Receive(w, [operation |-> "answer", actor |-> a, trip |-> question[q].trip], q,
                       AnySchedule)
        PROVE  TimesOK'
    <3>1. q \in DOMAIN question
      BY Typed DEF IInv
    <3>2. QED
      BY <2>2, <3>1, ReceiveTimed
  <2>3. QED
    BY <1>1, <2>1, <2>2 DEF Request
<1>2. ASSUME NEW w \in Worker,
             \/ CreateProfile(w) \/ CreateDraft(w) \/ SubmitForModeration(w) \/ Moderate(w)
             \/ Refuse(w) \/ Fail(w)
      PROVE  TimesOK'
  <2>1. /\ call' = [call EXCEPT ![w] = NoCall]
        /\ UNCHANGED <<now, question, answer>>
    BY <1>2 DEF CreateProfile, CreateDraft, SubmitForModeration, Moderate, Decide, Save, Refuse,
                Fail, Finish, database
  <2>2. QED
    BY <2>1, EndTimed
<1>3. now \in Nat
  BY NowType
<1>4. CASE Tick \/ (\E e \in Unsteady : Withdraw(e)) \/ UNCHANGED vars
  BY <1>3, <1>4, ClockTimed DEF Tick, Withdraw, database, vars
<1>5. QED
  BY <1>1, <1>2, <1>4, AskTimed, AnswerTimed, ViewTimed DEF Next, Commit

LEMMA TimedProjects ==
    ASSUME IInv, TimesOK
    PROVE  PublishedTripsProject
<1> SUFFICES ASSUME NEW t \in Published PROVE Projects(t)
  BY DEF PublishedTripsProject
<1>1. ValidSchedule(trip[t].schedule)
  BY DEF IInv, SchedulesOK, Published
<1>2. ASSUME NEW q \in 1 .. Len(question) PROVE AnswersFollow(q)
  <2>1. DOMAIN answer = 1 .. Len(answer)
    BY Typed DEF IInv
  <2>2. QED
    BY <2>1 DEF AnswersFollow, TimesOK
<1>3. QED
  BY <1>1, <1>2 DEF Projects

\* Where the clocks of all instances agree, every published trip can be shown: that
\* an answer may be stamped before its question is all that can make one unreadable.
THEOREM AgreedClocksProject == SameClock => (Spec => []PublishedTripsProject)
<1> SUFFICES ASSUME SameClock PROVE Spec => []PublishedTripsProject
  OBVIOUS
<1>1. Init => TimesOK
  BY DEF Init, TimesOK
<1>2. IInv /\ TimesOK /\ [Next]_vars => TimesOK'
  BY NextTimed
<1>3. IInv /\ TimesOK => PublishedTripsProject
  BY TimedProjects
<1>4. QED
  BY <1>1, <1>2, <1>3, Invariance, PTL DEF Spec

-----------------------------------------------------------------------------
\* Whatever the instants: what createPublishedTrip accepts passes the CHECKs of trip_offer, and
\* an order can copy it (order_request_schedule_order) unless it arrives as it departs.
THEOREM ArrivalAtDepartureIsNeverCopied ==
    ASSUME NEW s \in ScheduleOf(Nat), ValidSchedule(s)
    PROVE  StorableSchedule(s) /\ (OrderableSchedule(s) <=> s.departs # s.arrives)
BY DEF ScheduleOf, ValidSchedule, StorableSchedule, OrderableSchedule
=============================================================================
