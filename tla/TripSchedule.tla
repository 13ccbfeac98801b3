---------------------------- MODULE TripSchedule ----------------------------
(***************************************************************************)
(* When a trip can be served, ordered and expected: what the domain        *)
(* accepts (createPublishedTrip) beside what the tables accept. Instants   *)
(* are numbers, a date is the day of an instant in the origin's time zone; *)
(* labels and the syntax of instants and zones are data no branch of the   *)
(* models depends on.                                                      *)
(***************************************************************************)
EXTENDS Naturals

CONSTANT Day   \* instants of a day

ServiceMode == {"SHOP_FOR_ME", "CARRY_MY_ITEM"}

ScheduleOf(instants) ==
    [start : instants, end : instants, date : instants, departs : instants,
     opens : instants, deadline : instants, arrives : instants,
     modes : SUBSET ServiceMode]

DateInTimeZone(instant) == instant \div Day

\* createPublishedTrip, but for the public questions
ValidSchedule(s) ==
    /\ DateInTimeZone(s.departs) = s.date
    /\ s.start < s.end
    /\ s.opens < s.deadline
    /\ s.deadline <= s.end
    /\ s.end <= s.departs
    /\ s.deadline < s.departs
    /\ s.departs <= s.arrives
    /\ s.modes # {}

\* the CHECK constraints of trip_offer
StorableSchedule(s) ==
    /\ s.start < s.end
    /\ s.opens < s.deadline
    /\ s.deadline <= s.end
    /\ s.end <= s.departs
    /\ s.departs <= s.arrives
    /\ s.modes # {}

\* order_request_schedule_order, a CHECK on what an order copies from its trip
OrderableSchedule(s) ==
    /\ s.opens < s.deadline
    /\ s.deadline < s.departs
    /\ s.departs < s.arrives
=============================================================================
