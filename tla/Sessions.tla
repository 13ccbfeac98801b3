------------------------------ MODULE Sessions ------------------------------
(***************************************************************************)
(* PostgresSessionAuthority: browser sessions that are created, validated  *)
(* by every authenticated request, rotated and revoked by concurrent       *)
(* requests of several application instances.                              *)
(*                                                                         *)
(* create, validate, rotate and revokeAll are SERIALIZABLE transactions    *)
(* that are not retried. What the code relies on of them is modelled: they *)
(* read the snapshot of their first statement, and changing a row that     *)
(* changed since fails. What a transaction writes is decided and becomes   *)
(* visible in one step, its commit; the clocks it read on the way are      *)
(* instants between its beginning and that step. revoke and revokeById are *)
(* single READ COMMITTED statements.                                       *)
(*                                                                         *)
(* A session stands for its row, its id and its token: the token's digest  *)
(* is unique.                                                              *)
(***************************************************************************)
EXTENDS Naturals, Sequences

CONSTANTS
    Worker,       \* requests in flight, over all application instances
    Account,
    Unsteady,     \* accounts that may be suspended
    Skew,         \* how far the clock of a worker's instance is ahead
    IdleTtl,
    AbsoluteTtl,
    MaxTime,      \* bounds, for model checking
    MaxSessions,
    MaxVersion,
    NoView        \* the worker is idle

Status == {"ACTIVE", "ROTATED", "REVOKED", "EXPIRED"}

\* family: the session the family began with; parent 0: that session itself
Row == {r \in [account : Account, family : Nat \ {0}, parent : Nat,
               version : Nat \ {0}, status : Status, idle : Nat, absolute : Nat] :
            r.idle <= r.absolute}

ASSUME WorldAssumption == Skew \in [Worker -> Nat] /\ Unsteady \subseteq Account
ASSUME TtlAssumption == IdleTtl \in Nat \ {0} /\ AbsoluteTtl \in Nat /\ IdleTtl <= AbsoluteTtl
ASSUME SessionBounds == MaxTime \in Nat /\ MaxSessions \in Nat /\ MaxVersion \in Nat

VARIABLES
    now,
    session,   \* browser_session, in the order of creation
    version,   \* account.session_version
    active,    \* accounts whose status is ACTIVE
    pc,        \* the operation a worker executes
    view       \* what it reads: its subject and the snapshot

database == <<session, version, active>>
vars == <<now, database, pc, view>>

Operation == {"create", "validate", "rotate", "revokeAll"}

\* subject: the session of the presented token, 0 for operations on an account
View == [account : Account, subject : Nat, began : Nat, seen : Seq(Row),
         version : Nat \ {0}, active : BOOLEAN]

ASSUME NoViewAssumption == NoView \notin View

Init ==
    /\ now = 0
    /\ session = << >>
    /\ version = [a \in Account |-> 1]
    /\ active = Account
    /\ pc = [w \in Worker |-> "idle"]
    /\ view = [w \in Worker |-> NoView]

-----------------------------------------------------------------------------
Begin(w, operation, a, s) ==
    /\ pc[w] = "idle"
    /\ pc' = [pc EXCEPT ![w] = operation]
    /\ view' = [view EXCEPT ![w] =
          [account |-> a, subject |-> s, began |-> now, seen |-> session,
           version |-> version[a], active |-> a \in active]]
    /\ UNCHANGED <<now, database>>

\* the answer (a grant, an actor or null, an error) leaves no state behind
Finish(w) ==
    /\ pc' = [pc EXCEPT ![w] = "idle"]
    /\ view' = [view EXCEPT ![w] = NoView]
    /\ UNCHANGED now

\* what this.now() may have returned
Readings(w) == {at + Skew[w] : at \in view[w].began .. now}

Seen(w) == view[w].seen[view[w].subject]

RowsOverwritten(w, rows) == TRUE
RowsUnchanged(w, rows) == \A i \in rows : session[i] = view[w].seen[i]

EntitledWhateverVersion(r, v) == r.status = "ACTIVE" /\ v.active
Entitled(r, v) == r.status = "ACTIVE" /\ v.active /\ r.version = v.version

Unexpired(r, at) == at < r.idle /\ at < r.absolute

IdleFrom(at, absolute) == IF at + IdleTtl < absolute THEN at + IdleTtl ELSE absolute

SlidIdle(at, absolute) == IdleFrom(at, absolute)

\* rows leave ACTIVE together
Ended(rows, status) ==
    [i \in 1 .. Len(session) |->
        IF i \in rows THEN [session[i] EXCEPT !.status = status] ELSE session[i]]

NewSession(a, family, parent, v, at, absolute) ==
    [account |-> a, family |-> family, parent |-> parent, version |-> v,
     status |-> "ACTIVE", idle |-> IdleFrom(at, absolute), absolute |-> absolute]

-----------------------------------------------------------------------------
\* create, for an account that is active in the snapshot
Create(w) ==
    /\ pc[w] = "create"
    /\ \/ /\ ~view[w].active
          /\ Finish(w)
          /\ UNCHANGED database
       \/ /\ view[w].active
          /\ Len(session) < MaxSessions
          /\ \E at \in Readings(w) :
                session' = Append(session,
                    NewSession(view[w].account, Len(session) + 1, 0, view[w].version,
                               at, at + AbsoluteTtl))
          /\ Finish(w)
          /\ UNCHANGED <<version, active>>

ReusedChild(w) ==
    {i \in 1 .. Len(view[w].seen) : /\ view[w].seen[i].parent = view[w].subject
                                    /\ view[w].seen[i].status = "ACTIVE"}
ReusedFamily(w) ==
    {i \in 1 .. Len(view[w].seen) : /\ view[w].seen[i].family = Seen(w).family
                                    /\ view[w].seen[i].status = "ACTIVE"}

\* validate, of a token that has been rotated: its family ends
ValidateRotated(w) ==
    /\ pc[w] = "validate"
    /\ Seen(w).status = "ROTATED"
    /\ RowsUnchanged(w, ReusedFamily(w))
    /\ session' = Ended(ReusedFamily(w), "REVOKED")
    /\ Finish(w)
    /\ UNCHANGED <<version, active>>

\* validate, of a session that may not be used: the row is closed if it is open
ValidateUnusable(w) ==
    LET open == {i \in {view[w].subject} : Seen(w).status = "ACTIVE"}
    IN  /\ pc[w] = "validate"
        /\ Seen(w).status # "ROTATED"
        /\ \E at \in Readings(w) :
              /\ ~(Entitled(Seen(w), view[w]) /\ Unexpired(Seen(w), at))
              /\ RowsUnchanged(w, open)
              /\ session' =
                    Ended(open, IF Unexpired(Seen(w), at) THEN "REVOKED" ELSE "EXPIRED")
        /\ Finish(w)
        /\ UNCHANGED <<version, active>>

\* validate, of a session that may be used: its idle expiry moves on
ValidateUsable(w) ==
    LET s == view[w].subject
    IN  /\ pc[w] = "validate"
        /\ Entitled(Seen(w), view[w])
        /\ RowsUnchanged(w, {s})
        /\ \E at \in Readings(w) :
              /\ Unexpired(Seen(w), at)
              /\ session' = [session EXCEPT ![s].idle = SlidIdle(at, session[s].absolute)]
        /\ Finish(w)
        /\ UNCHANGED <<version, active>>

RotatedUnmarked(s) == session
RotatedFrom(s) == [session EXCEPT ![s].status = "ROTATED"]

AbsoluteAnew(r, at) == at + AbsoluteTtl
AbsoluteInherited(r, at) == r.absolute

\* rotate; the clock is read again for the successor, whose row must not be
\* born expired (browser_session_expiry_order), nor share a parent with another
Rotate(w) ==
    LET s == view[w].subject
        r == Seen(w)
    IN  /\ pc[w] = "rotate"
        /\ \/ /\ Entitled(r, view[w])
              /\ Len(session) < MaxSessions
              /\ RowsUnchanged(w, {s})
              /\ \A i \in 1 .. Len(session) : session[i].parent # s
              /\ \E at, again \in Readings(w) :
                    /\ Unexpired(r, at)
                    /\ at <= again
                    /\ again < AbsoluteInherited(r, again)
                    /\ session' = Append(RotatedFrom(s),
                          NewSession(r.account, r.family, s, view[w].version, again,
                                     AbsoluteInherited(r, again)))
              /\ Finish(w)
              /\ UNCHANGED <<version, active>>
           \/ /\ \E at \in Readings(w) : ~(Entitled(r, view[w]) /\ Unexpired(r, at))
              /\ Finish(w)
              /\ UNCHANGED database

AccountUnchanged(w) ==
    /\ version[view[w].account] = view[w].version
    /\ (view[w].account \in active) = view[w].active

OpenSessions(w) ==
    {i \in 1 .. Len(view[w].seen) : /\ view[w].seen[i].account = view[w].account
                                    /\ view[w].seen[i].status = "ACTIVE"}

RevokeAll(w) ==
    /\ pc[w] = "revokeAll"
    /\ version[view[w].account] < MaxVersion
    /\ AccountUnchanged(w)
    /\ RowsUnchanged(w, OpenSessions(w))
    /\ version' = [version EXCEPT ![view[w].account] = @ + 1]
    /\ session' = Ended(OpenSessions(w), "REVOKED")
    /\ Finish(w)
    /\ UNCHANGED active

\* revoke and revokeById: one statement, on what is committed
Revoke(s) ==
    /\ session[s].status = "ACTIVE"
    /\ session' = Ended({s}, "REVOKED")
    /\ UNCHANGED <<now, version, active, pc, view>>

-----------------------------------------------------------------------------
\* a conflict, a timeout, a lost connection or a dead process: rollback
Fail(w) ==
    /\ pc[w] # "idle"
    /\ Finish(w)
    /\ UNCHANGED database

Tick ==
    /\ now < MaxTime
    /\ now' = now + 1
    /\ UNCHANGED <<database, pc, view>>

Suspend(a) ==
    /\ active' = active \ {a}
    /\ UNCHANGED <<now, session, version, pc, view>>

Start(w) ==
    \/ \E a \in Account, operation \in {"create", "revokeAll"} : Begin(w, operation, a, 0)
    \/ \E s \in 1 .. Len(session), operation \in {"validate", "rotate"} :
          Begin(w, operation, session[s].account, s)

Commit(w) ==
    \/ Create(w)
    \/ ValidateRotated(w) \/ ValidateUnusable(w) \/ ValidateUsable(w)
    \/ Rotate(w)
    \/ RevokeAll(w)

Next ==
    \/ \E w \in Worker : Start(w) \/ Commit(w) \/ Fail(w)
    \/ \E s \in 1 .. Len(session) : Revoke(s)
    \/ \E a \in Unsteady : Suspend(a)
    \/ Tick

Spec == Init /\ [][Next]_vars

-----------------------------------------------------------------------------
(***************************************************************************)
(* Type invariant: in particular no session idles beyond its absolute      *)
(* expiry (createPersistedGrant, validate).                                *)
(***************************************************************************)
TypeOK ==
    /\ now \in Nat
    /\ session \in Seq(Row)
    /\ version \in [Account -> Nat \ {0}]
    /\ active \subseteq Account
    /\ pc \in [Worker -> Operation \cup {"idle"}]
    /\ view \in [Worker -> View \cup {NoView}]

(***************************************************************************)
(* However rotations, validations and revocations interleave, a family of  *)
(* rotated sessions is a chain: every session but the first succeeds one   *)
(* that is ROTATED, no two succeed the same one, a successor inherits      *)
(* account, version and absolute expiry, and one session at most is ACTIVE *)
(* (rotate).                                                               *)
(***************************************************************************)
Succeeds(i, p) ==
    /\ p \in 1 .. Len(session)
    /\ session[p].status = "ROTATED"
    /\ session[i].family = session[p].family
    /\ session[i].account = session[p].account
    /\ session[i].version = session[p].version
    /\ session[i].absolute = session[p].absolute

OneActivePerFamily ==
    \A i, j \in 1 .. Len(session) :
        session[i].family = session[j].family
            /\ session[i].status = "ACTIVE" /\ session[j].status = "ACTIVE" => i = j

FamiliesAreChains ==
    /\ \A i \in 1 .. Len(session) :
          IF session[i].parent = 0 THEN session[i].family = i
                                   ELSE Succeeds(i, session[i].parent)
    /\ \A i, j \in 1 .. Len(session) :
          session[i].parent = session[j].parent /\ session[i].parent # 0 => i = j
    /\ OneActivePerFamily

(***************************************************************************)
(* When a rotated token is presented again and refused, no session of its  *)
(* family is left ACTIVE, not even one rotated meanwhile (validate).       *)
(***************************************************************************)
ReuseEndsFamily ==
    [][\A w \in Worker : ValidateRotated(w) =>
          \A i \in 1 .. Len(session') :
              session'[i].family = Seen(w).family => session'[i].status # "ACTIVE"]_vars

(***************************************************************************)
(* Account-wide revocation leaves no session that could be used, not even  *)
(* one created while it was running (revokeAll and the version check).     *)
(***************************************************************************)
Usable(i) ==
    LET a == session[i].account
    IN  Entitled(session[i], [version |-> version[a], active |-> a \in active])

RevocationIsTotal ==
    [][\A w \in Worker : RevokeAll(w) =>
          \A i \in 1 .. Len(session') :
              session'[i].account = view[w].account => ~Usable(i)']_vars

(***************************************************************************)
(* A request is taken for authenticated only on a session that is still    *)
(* ACTIVE when the transaction commits, whatever revoked or rotated it     *)
(* since the snapshot (validate).                                          *)
(***************************************************************************)
AcceptedWhileActive ==
    [][\A w \in Worker :
          ValidateUsable(w) => session'[view[w].subject].status = "ACTIVE"]_vars

(***************************************************************************)
(* Sessions implement families: what a family's successive sessions are    *)
(* used for is what one session with a changing token could be used for.   *)
(***************************************************************************)
HeadOf(f) ==
    LET heads == {i \in 1 .. Len(session) :
                     session[i].family = f /\ session[i].status = "ACTIVE"}
    IN  IF heads = {} THEN 0 ELSE CHOOSE i \in heads : TRUE

Family(f) ==
    [endsAt |-> session[f].absolute, head |-> HeadOf(f),
     idle |-> IF HeadOf(f) = 0 THEN 0 ELSE session[HeadOf(f)].idle]

families == [f \in {i \in 1 .. Len(session) : session[i].parent = 0} |-> Family(f)]

Families == INSTANCE SessionFamilies WITH family <- families, Identity <- 1 .. MaxSessions

ImplementsFamilies == Families!Spec
=============================================================================
