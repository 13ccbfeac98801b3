----------------------------- MODULE TripOffers -----------------------------
(***************************************************************************)
(* Jastipper profiles, trip offers from draft to publication, and the      *)
(* public discussion: CreateJastipperProfile, CreateTripDraft,             *)
(* SubmitTripForModeration, ModerateTrip, AskPublicQuestion and            *)
(* AnswerPublicQuestion over PrismaMarketplaceUnitOfWork, and the public   *)
(* projection that readers are served.                                     *)
(*                                                                         *)
(* A command samples the clock of its instance once, and is then executed  *)
(* in SERIALIZABLE transactions until one succeeds: three at most, which   *)
(* no safety property depends on. Each reads a snapshot, of which the      *)
(* model keeps what concerns the command's subject; what it writes becomes *)
(* visible in its commit, with its audit and outbox rows.                  *)
(* Nothing in the code changes an account's status, a profile's or a       *)
(* capability grant: that is Withdraw.                                     *)
(***************************************************************************)
EXTENDS TripSchedule, Sequences, FiniteSets

CONSTANTS
    Worker,        \* commands in flight, over all application instances
    Account,
    Trip,
    IdBefore(_, _), \* the order of trip ids
    Skew,          \* how far the clock of a worker's instance is ahead
    Schedule,      \* the schedules owners ask for
    Input,         \* the requests there may be, but for answers
    Answerer,
    Assured,       \* accounts whose sessions are PHISHING_RESISTANT
    Granted,       \* accounts with MODERATE_TRIPS
    Unsteady,      \* entitlements that may be withdrawn
    Stored,        \* the published trips there are at first, and their owners
    MaxTime,       \* bounds, for model checking
    MaxQuestions,
    NoTrip,
    NoCall,        \* the worker is idle
    NoView         \* its transaction has not begun

Operation == {"profile", "draft", "submit", "approve", "reject", "ask", "answer"}
Entitlement == Account \X {"session", "profile", "grant"}

Lifecycle == {<<"DRAFT", 1>>, <<"PENDING_MODERATION", 2>>,
              <<"PUBLISHED", 3>>, <<"REJECTED", 3>>}
Row == {r \in [owner : Account, status : {m[1] : m \in Lifecycle}, version : 1 .. 3,
               schedule : Schedule] : <<r.status, r.version>> \in Lifecycle}

ASSUME WorldAssumption ==
    /\ Skew \in [Worker -> Nat]
    /\ Assured \subseteq Account /\ Granted \subseteq Account
    /\ Unsteady \subseteq Entitlement /\ Answerer \subseteq Account
    /\ Input \subseteq [operation : Operation \ {"answer"}, actor : Account, trip : Trip]
    /\ MaxTime \in Nat /\ MaxQuestions \in Nat
    /\ Schedule \subseteq ScheduleOf(Nat) /\ Schedule # {}

\* no row is no row, and the trips there are at first are as createPublishedTrip
\* admits them
ASSUME RowAssumption ==
    /\ NoTrip \notin Row
    /\ Stored \in [Trip -> {r \in Row : r.status = "PUBLISHED" /\ ValidSchedule(r.schedule)}
                            \cup {NoTrip}]

\* ids are ordered as strings are
ASSUME IdAssumption ==
    \A t, u \in Trip : t # u => (IdBefore(t, u) <=> ~ IdBefore(u, t))

VARIABLES
    now,
    entitled,   \* sessions and accounts, profiles, grants that are in force
    profiles,   \* rows of jastipper_profile, per account
    trip,       \* trip_offer
    decided,    \* moderation_decision, per trip
    question,   \* public_question
    answer,     \* public_answer
    call        \* the command each worker executes

database == <<entitled, profiles, trip, decided, question, answer>>
vars == <<now, database, call>>

Init ==
    /\ now = 0
    /\ entitled = Account \X {"session", "profile"} \cup Granted \X {"grant"}
    /\ profiles = [a \in Account |->
                      IF \E t \in Trip : Stored[t] # NoTrip /\ Stored[t].owner = a
                      THEN 1 ELSE 0]
    /\ trip = Stored
    /\ decided = [t \in Trip |-> IF Stored[t] = NoTrip THEN << >> ELSE <<"APPROVED">>]
    /\ question = << >>
    /\ answer = << >>
    /\ call = [w \in Worker |-> NoCall]

-----------------------------------------------------------------------------
AnySchedule == CHOOSE s \in Schedule : TRUE

Answers(q) == Cardinality({i \in DOMAIN answer : answer[i].question = q})

\* what a transaction of the command reads
Snapshot(c) ==
    [entitled |-> {e[2] : e \in {e \in entitled : e[1] = c.actor}},
     profiles |-> profiles[c.actor],
     trip |-> trip[c.trip],
     answers |-> Answers(c.question)]

\* a request: the actor was authenticated, and the clock is read; the model
\* keeps the instant where a row of the discussion is stamped with it
Receive(w, i, q, s) ==
    /\ call[w] = NoCall
    /\ <<i.actor, "session">> \in entitled
    /\ call' = [call EXCEPT ![w] =
          [operation |-> i.operation, actor |-> i.actor, trip |-> i.trip, question |-> q,
           schedule |-> s, view |-> NoView,
           at |-> IF i.operation \in {"ask", "answer"} THEN now + Skew[w] ELSE 0,
           capable |-> <<i.actor, "grant">> \in entitled]]
    /\ UNCHANGED <<now, database>>

\* the next attempt, a transaction on a fresh snapshot
Begin(w) ==
    /\ call[w] # NoCall
    /\ call[w].view = NoView
    /\ call' = [call EXCEPT ![w].view = Snapshot(call[w])]
    /\ UNCHANGED <<now, database>>

Running(w) == call[w] # NoCall /\ call[w].view # NoView

Finish(w) ==
    /\ call' = [call EXCEPT ![w] = NoCall]
    /\ UNCHANGED <<now, entitled>>

Current(c) == "session" \in c.view.entitled

ActiveProfile(c) == c.view.profiles > 0 /\ "profile" \in c.view.entitled

Owned(c) == c.view.trip # NoTrip /\ c.view.trip.owner = c.actor

HasStatus(c, status) == c.view.trip # NoTrip /\ c.view.trip.status = status

\* an updated row must be the one that was read
UnmovedUnchecked(c) == TRUE
Unmoved(c) == trip[c.trip] = c.view.trip

ShapeUnchecked(s) == TRUE
ShapeChecked(s) == ValidSchedule(s)

NewDraft(c) == [owner |-> c.actor, status |-> "DRAFT", version |-> 1, schedule |-> c.schedule]

MovedUnversioned(row, status) == [row EXCEPT !.status = status]
Moved(row, status) ==
    [owner |-> row.owner, status |-> status, version |-> row.version + 1,
     schedule |-> row.schedule]

\* jastipper_profile_account_key, public_answer_question_key: unique indexes
ProfileKeyFree(a) == profiles[a] = 0

AnswerKeyUnchecked(q) == TRUE
AnswerKeyFree(q) == Answers(q) = 0

-----------------------------------------------------------------------------
\* what each operation demands of what it reads; anything else is refused
Permitted(c) ==
    /\ Current(c)
    /\ CASE c.operation = "profile" -> c.view.profiles = 0
         [] c.operation = "draft" -> ActiveProfile(c) /\ ShapeChecked(c.schedule)
         [] c.operation = "submit" -> Owned(c) /\ HasStatus(c, "DRAFT")
         [] c.operation \in {"approve", "reject"} ->
               /\ c.capable /\ "grant" \in c.view.entitled
               /\ c.actor \in Assured
               /\ HasStatus(c, "PENDING_MODERATION")
         [] c.operation = "ask" -> HasStatus(c, "PUBLISHED")
         [] c.operation = "answer" ->
               /\ c.view.answers = 0
               /\ Owned(c) /\ HasStatus(c, "PUBLISHED") /\ ActiveProfile(c)

Executing(w, operation) ==
    Running(w) /\ call[w].operation = operation /\ Permitted(call[w])

CreateProfile(w) ==
    LET a == call[w].actor
    IN  /\ Executing(w, "profile")
        /\ ProfileKeyFree(a)
        /\ profiles' = [profiles EXCEPT ![a] = @ + 1]
        /\ Finish(w)
        /\ UNCHANGED <<trip, decided, question, answer>>

\* the client chooses the trip's id: the primary key
CreateDraft(w) ==
    LET c == call[w]
    IN  /\ Executing(w, "draft")
        /\ trip[c.trip] = NoTrip
        /\ StorableSchedule(c.schedule)
        /\ trip' = [trip EXCEPT ![c.trip] = NewDraft(c)]
        /\ Finish(w)
        /\ UNCHANGED <<profiles, decided, question, answer>>

\* save, for the status the command leads to
Save(w, status) ==
    LET c == call[w]
    IN  /\ Unmoved(c)
        /\ trip' = [trip EXCEPT ![c.trip] = Moved(c.view.trip, status)]
        /\ Finish(w)
        /\ UNCHANGED <<profiles, question, answer>>

SubmitForModeration(w) ==
    /\ Executing(w, "submit")
    /\ Save(w, "PENDING_MODERATION")
    /\ UNCHANGED decided

Decide(w, operation, ruling, status) ==
    /\ Executing(w, operation)
    /\ Save(w, status)
    /\ decided' = [decided EXCEPT ![call[w].trip] = Append(@, ruling)]

Moderate(w) ==
    \/ Decide(w, "approve", "APPROVED", "PUBLISHED")
    \/ Decide(w, "reject", "REJECTED", "REJECTED")

Ask(w) ==
    LET c == call[w]
    IN  /\ Executing(w, "ask")
        /\ Len(question) < MaxQuestions
        /\ question' = Append(question, [trip |-> c.trip, at |-> c.at])
        /\ Finish(w)
        /\ UNCHANGED <<profiles, trip, decided, answer>>

AnswerQuestion(w) ==
    LET c == call[w]
    IN  /\ Executing(w, "answer")
        /\ AnswerKeyFree(c.question)
        /\ answer' = Append(answer, [question |-> c.question, at |-> c.at])
        /\ Finish(w)
        /\ UNCHANGED <<profiles, trip, decided, question>>

Refuse(w) ==
    /\ Running(w)
    /\ ~Permitted(call[w])
    /\ Finish(w)
    /\ UNCHANGED database

\* a conflict or a unique violation: everything again, but for the instant
Retry(w) ==
    /\ Running(w)
    /\ call' = [call EXCEPT ![w].view = NoView]
    /\ UNCHANGED <<now, database>>

\* the attempts are used up, another error, or the process dies: rollback
Fail(w) ==
    /\ call[w] # NoCall
    /\ Finish(w)
    /\ UNCHANGED database

Tick ==
    /\ now < MaxTime
    /\ now' = now + 1
    /\ UNCHANGED <<database, call>>

Withdraw(e) ==
    /\ entitled' = entitled \ {e}
    /\ UNCHANGED <<now, profiles, trip, decided, question, answer, call>>

\* a question can be answered by who knows its id: once it is committed
Request(w) ==
    \/ \E i \in Input, s \in Schedule :
          Receive(w, i, 0, IF i.operation = "draft" THEN s ELSE AnySchedule)
    \/ \E a \in Answerer, q \in 1 .. Len(question) :
          Receive(w, [operation |-> "answer", actor |-> a, trip |-> question[q].trip], q,
                  AnySchedule)

Commit(w) ==
    \/ CreateProfile(w) \/ CreateDraft(w) \/ SubmitForModeration(w) \/ Moderate(w)
    \/ Ask(w) \/ AnswerQuestion(w)

Next ==
    \/ \E w \in Worker : Request(w) \/ Begin(w) \/ Commit(w) \/ Refuse(w) \/ Retry(w) \/ Fail(w)
    \/ \E e \in Unsteady : Withdraw(e)
    \/ Tick

Spec == Init /\ [][Next]_vars

-----------------------------------------------------------------------------
Published == {t \in Trip : trip[t] # NoTrip /\ trip[t].status = "PUBLISHED"}

\* mapPublishedTrip: the whole projection throws when a part of it is invalid
AnswersFollow(q) ==
    \A i \in 1 .. Len(answer) : answer[i].question = q => question[q].at <= answer[i].at

Projects(t) ==
    /\ ValidSchedule(trip[t].schedule)
    /\ \A q \in 1 .. Len(question) : question[q].trip = t => AnswersFollow(q)

\* searchPublished, ordered by departure date and id, behind a cursor
DateBefore(t, u) == trip[t].schedule.date < trip[u].schedule.date

ListedByDate(t, u) == DateBefore(t, u)
ListedBefore(t, u) ==
    \/ DateBefore(t, u)
    \/ trip[t].schedule.date = trip[u].schedule.date /\ IdBefore(t, u)

Behind(cursor) == {t \in Published : ListedBefore(cursor, t)}

(***************************************************************************)
(* Type invariant: in particular a status has its version, whoever saved   *)
(* it (save), and an account has one profile (the unique index).           *)
(***************************************************************************)
View == [entitled : SUBSET {"session", "profile", "grant"}, profiles : {0, 1},
         trip : Row \cup {NoTrip}, answers : {0, 1}]
Call == [operation : Operation, actor : Account, trip : Trip, question : Nat,
         schedule : Schedule, at : Nat, capable : BOOLEAN, view : View \cup {NoView}]

TypeOK ==
    /\ now \in Nat
    /\ entitled \subseteq Entitlement
    /\ profiles \in [Account -> {0, 1}]
    /\ trip \in [Trip -> Row \cup {NoTrip}]
    /\ decided \in [Trip -> Seq({"APPROVED", "REJECTED"})]
    /\ question \in Seq([trip : Trip, at : Nat])
    /\ answer \in Seq([question : Nat \ {0}, at : Nat])
    /\ call \in [Worker -> Call \cup {NoCall}]

(***************************************************************************)
(* An offer is decided once, and it is what was decided: of moderators     *)
(* that decide at the same time, or on an offer decided meanwhile, one     *)
(* leaves a decision (ModerateTrip, save, recordModerationDecision).       *)
(***************************************************************************)
DecidedOnce ==
    \A t \in Trip :
        decided[t] = CASE t \in Published -> <<"APPROVED">>
                       [] trip[t] # NoTrip /\ trip[t].status = "REJECTED" -> <<"REJECTED">>
                       [] OTHER -> << >>

(***************************************************************************)
(* Every published trip can be shown: its page, and every page of the      *)
(* search it is on, passes createPublishedTrip.                            *)
(***************************************************************************)
PublishedTripsProject == \A t \in Published : Projects(t)

(***************************************************************************)
(* A reader who turns pages by cursor misses nothing and reads nothing     *)
(* twice, whatever is published meanwhile: the published trips are listed  *)
(* one after the other, and what was to come after a trip stays so         *)
(* (searchPublished).                                                      *)
(***************************************************************************)
PagingMissesNothing ==
    [][/\ \A t, u \in Published' :
            t # u => (u \in Behind(t))' # (t \in Behind(u))'
       /\ \A t \in Published : Behind(t) \subseteq Behind(t)']_vars

(***************************************************************************)
(* Offers and discussions are what the catalogue promises: drafted and     *)
(* decided once, discussed when published, questions answered once.        *)
(***************************************************************************)
StatusOf(t) == IF trip[t] = NoTrip THEN NoTrip ELSE trip[t].status
Asked(q) == [trip |-> question[q].trip, answers |-> Answers(q)]

Catalogue ==
    INSTANCE TripCatalogue WITH
        offer <- [t \in Trip |-> StatusOf(t)],
        thread <- [q \in 1 .. Len(question) |-> Asked(q)],
        Absent <- NoTrip,
        Stored <- [t \in Trip |-> IF Stored[t] = NoTrip THEN NoTrip ELSE "PUBLISHED"]

ImplementsCatalogue == Catalogue!Spec
=============================================================================
