---------------------------- MODULE MCTripOffers ----------------------------
(***************************************************************************)
(* Instances of TripOffers for TLC, and the comparison of the schedules    *)
(* the domain accepts with those the tables accept.                        *)
(***************************************************************************)
EXTENDS TripOffers, TLC

CONSTANTS ann, mod, t1, t2, w1, w2

FirstId(t, u) == t = t1 /\ u = t2

\* days of two instants; departs on the first instant of day 2
Usual == [start |-> 0, end |-> 3, opens |-> 0, deadline |-> 2, departs |-> 4,
          arrives |-> 6, date |-> 2, modes |-> {"SHOP_FOR_ME"}]
\* ordering closes with the service window, at departure
TooLate == [Usual EXCEPT !.end = 4, !.deadline = 4]

MCSchedule == {Usual, TooLate}

PublishedRow == [owner |-> ann, status |-> "PUBLISHED", version |-> 3, schedule |-> Usual]
OnePublished == t1 :> NoTrip @@ t2 :> [PublishedRow EXCEPT !.owner = mod]
Discussed == t2 :> PublishedRow

InStep == w1 :> 0 @@ w2 :> 0
OneAhead == w1 :> 0 @@ w2 :> 1
Workers == Permutations({w1, w2})

From(operation, actor, t) == [operation |-> operation, actor |-> actor, trip |-> t]

\* ann's trip, mod moderating and asking, and what each of them may not do
MCInput ==
    {From(operation, ann, t1) : operation \in {"profile", "draft", "submit", "approve"}}
        \cup {From(operation, mod, t1) : operation \in {"submit", "approve", "reject", "ask"}}

SkewInput == {From("ask", mod, t2)}

MCUnsteady == {<<mod, "grant">>, <<ann, "profile">>, <<ann, "session">>}

\* no validated schedule fails the CHECKs of its own table
ASSUME ValidatedSchedulesAreStored ==
    \A s \in ScheduleOf(0 .. 2) : ValidSchedule(s) => StorableSchedule(s)
\* a trip that arrives as it departs can be published, and never ordered: the
\* only valid schedules no order can copy
ASSUME ArrivalAtDepartureIsNeverOrdered ==
    \A s \in ScheduleOf(0 .. 2) :
        ValidSchedule(s) => (OrderableSchedule(s) <=> s.departs # s.arrives)
=============================================================================
