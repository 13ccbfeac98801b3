-------------------------- MODULE SessionsInvariant --------------------------
(***************************************************************************)
(* The inductive invariant of Sessions: what the rows say of each other,   *)
(* and what a snapshot still tells of them when its transaction commits.   *)
(***************************************************************************)
EXTENDS Sessions

\* a family is named after its first session, and successors come later
FamiliesHaveRoots ==
    \A i \in 1 .. Len(session) :
        /\ session[i].family \in 1 .. i
        /\ session[session[i].family].parent = 0
        /\ session[session[i].family].absolute = session[i].absolute
        /\ session[i].parent < i

VersionsArePast ==
    \A i \in 1 .. Len(session) : session[i].version <= version[session[i].account]

RowsInv ==
    /\ FamiliesAreChains
    /\ FamiliesHaveRoots
    /\ VersionsArePast

\* a row keeps what identifies it, and leaves ACTIVE for good
RowMovedOn(old, new) ==
    /\ new.account = old.account /\ new.family = old.family /\ new.parent = old.parent
    /\ new.version = old.version /\ new.absolute = old.absolute
    /\ old.status # "ACTIVE" => new.status = old.status

SeesThePast(w) ==
    /\ Len(view[w].seen) <= Len(session)
    /\ \A i \in 1 .. Len(view[w].seen) : RowMovedOn(view[w].seen[i], session[i])

\* a family that had ended in the snapshot has not come back
EndedStaysEnded(w) ==
    \A i \in 1 .. Len(session) :
        session[i].status = "ACTIVE" /\ session[i].family \in 1 .. Len(view[w].seen) =>
            \E j \in 1 .. Len(view[w].seen) :
                /\ view[w].seen[j].family = session[i].family
                /\ view[w].seen[j].status = "ACTIVE"

HasSubject(w) ==
    pc[w] \in {"validate", "rotate"} =>
        /\ view[w].subject \in 1 .. Len(view[w].seen)
        /\ view[w].account = Seen(w).account

ViewInv(w) ==
    pc[w] # "idle" =>
        /\ view[w] \in View
        /\ view[w].began <= now
        /\ view[w].version <= version[view[w].account]
        /\ HasSubject(w)
        /\ SeesThePast(w)
        /\ EndedStaysEnded(w)

(***************************************************************************)
(* The inductive invariant: types, rows, and views.                        *)
(***************************************************************************)
SessionInv ==
    /\ TypeOK
    /\ RowsInv
    /\ \A w \in Worker : ViewInv(w)
=============================================================================
