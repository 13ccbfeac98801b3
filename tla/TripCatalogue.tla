---------------------------- MODULE TripCatalogue ----------------------------
(***************************************************************************)
(* What trip offers and their public discussion promise, without           *)
(* transactions, snapshots and retries: an offer is drafted once, decided  *)
(* once, and discussed only when it is published; a question is never      *)
(* withdrawn and gets one answer at most.                                  *)
(***************************************************************************)
EXTENDS Naturals, Sequences

CONSTANTS Trip, Absent, Stored

VARIABLES
    offer,   \* the status of each trip's offer, Absent before it is drafted
    thread   \* the questions, in the order they were asked, and who answered

Init ==
    /\ offer = Stored
    /\ thread = << >>

Moves == {<<Absent, "DRAFT">>, <<"DRAFT", "PENDING_MODERATION">>,
          <<"PENDING_MODERATION", "PUBLISHED">>, <<"PENDING_MODERATION", "REJECTED">>}

Move(t) ==
    /\ \E m \in Moves : offer[t] = m[1] /\ offer' = [offer EXCEPT ![t] = m[2]]
    /\ UNCHANGED thread

Ask(t) ==
    /\ offer[t] = "PUBLISHED"
    /\ thread' = Append(thread, [trip |-> t, answers |-> 0])
    /\ UNCHANGED offer

Answer(q) ==
    /\ thread[q].answers = 0
    /\ offer[thread[q].trip] = "PUBLISHED"
    /\ thread' = [thread EXCEPT ![q].answers = 1]
    /\ UNCHANGED offer

Next ==
    \/ \E t \in Trip : Move(t) \/ Ask(t)
    \/ \E q \in 1 .. Len(thread) : Answer(q)

Spec == Init /\ [][Next]_<<offer, thread>>
=============================================================================
