-------------------------- MODULE AbuseProtection --------------------------
(***************************************************************************)
(* PostgresAbuseProtection.evaluate: attempts are counted in fixed windows *)
(* by rows that all application instances share, one per axis and subject, *)
(* for one policy; the rows of two policies have nothing in common.        *)
(*                                                                         *)
(* An evaluation is a READ COMMITTED transaction.  Its time is the         *)
(* database's, fixed when it begins.  It first deletes expired rows, then  *)
(* upserts a row per limit in the order of the axes, and then decides.     *)
(* A row it wrote stays locked until it ends; a statement that meets a     *)
(* locked row waits and then goes on with the committed row.  It may end   *)
(* without effect at any step: a crash, a timeout, the victim of a         *)
(* deadlock, an audit row that is refused; the caller then answers 503.    *)
(***************************************************************************)
EXTENDS AttemptWindows, FiniteSets

CONSTANTS
    Worker,     \* evaluations in flight, over all application instances
    BatchSize,  \* cleanupBatchSize
    MaxCount,   \* bound, for model checking
    Absent,     \* no row
    NoCall      \* the worker is idle

ASSUME BoundsAssumption == BatchSize \in Nat \ {0} /\ MaxCount \in Nat

\* abuse_rate_limit_bucket
Row == [count : Nat \ {0}, audited : BOOLEAN]

ASSUME RowAssumption == Absent \notin Row

VARIABLES
    now,
    bucket,   \* the committed rows
    admitted, \* history: the evaluations a row has admitted,
    audits,   \* and the audit_event rows written for it
    call      \* the evaluation of each worker

vars == <<now, bucket, admitted, audits, call>>

Init ==
    /\ now = 0
    /\ bucket = [k \in Key |-> Absent]
    /\ admitted = [k \in Key |-> 0]
    /\ audits = [k \in Key |-> 0]
    /\ call = [w \in Worker |-> NoCall]

-----------------------------------------------------------------------------
NoWrites == [k \in {} |-> Absent]

Without(f, k) == [x \in DOMAIN f \ {k} |-> f[x]]

With(f, k, v) == [x \in DOMAIN f \cup {k} |-> IF x = k THEN v ELSE f[x]]

Evaluation(step, t, todo, sweep, writes) ==
    [step |-> step, now |-> t, todo |-> todo, sweep |-> sweep, writes |-> writes]

Begin(w, r) ==
    /\ call[w] = NoCall
    /\ \A k \in Key : bucket[k] # Absent => bucket[k].count < MaxCount
    /\ call' = [call EXCEPT ![w] = Evaluation("select", now, r, NoWrites, NoWrites)]
    /\ UNCHANGED <<now, bucket, admitted, audits>>

At(w, step) == call[w] # NoCall /\ call[w].step = step

Locked(k) == \E w \in Worker : call[w] # NoCall /\ k \in DOMAIN call[w].writes

ExpiredRows(t) == {k \in Key : bucket[k] # Absent /\ Expires(k) <= t}

\* the rows the DELETE will visit: the oldest expired ones
Selected(t, s) ==
    LET expired == ExpiredRows(t)
    IN  /\ s \subseteq expired
        /\ Cardinality(s) = IF Cardinality(expired) < BatchSize
                            THEN Cardinality(expired) ELSE BatchSize
        /\ \A k \in s, x \in expired \ s : Expires(k) <= Expires(x)

Select(w) ==
    /\ At(w, "select")
    /\ \E s \in SUBSET ExpiredRows(call[w].now) :
          /\ Selected(call[w].now, s)
          /\ call' = [call EXCEPT ![w] =
                Evaluation("write", call[w].now, call[w].todo,
                           [k \in s |-> bucket[k]], NoWrites)]
    /\ UNCHANGED <<now, bucket, admitted, audits>>

\* a selected row is deleted, unless it was updated or deleted in the meantime
Sweep(w, k) ==
    /\ At(w, "write")
    /\ k \in DOMAIN call[w].sweep
    /\ ~ Locked(k)
    /\ call' = [call EXCEPT ![w] =
          Evaluation("write", call[w].now, call[w].todo, Without(call[w].sweep, k),
                     IF bucket[k] = call[w].sweep[k]
                     THEN With(call[w].writes, k, Absent) ELSE call[w].writes)]
    /\ UNCHANGED <<now, bucket, admitted, audits>>

AnyOf(l, todo) == l \in todo
\* the limits are sorted
First(l, todo) == l \in todo /\ \A m \in todo : Rank[l.axis] <= Rank[m.axis]

Upserted(row) ==
    IF row = Absent THEN [count |-> 1, audited |-> FALSE]
    ELSE [count |-> row.count + 1, audited |-> row.audited]

Swept(w) == At(w, "write") /\ DOMAIN call[w].sweep = {}

Regardless(k) == TRUE
\* a row another evaluation has written is waited for
Available(k) == ~ Locked(k)

Count(w, l) ==
    LET k == KeyOf(l, call[w].now)
    IN  /\ Swept(w)
        /\ First(l, call[w].todo)
        /\ Available(k)
        /\ call' = [call EXCEPT ![w] =
              Evaluation("write", call[w].now, call[w].todo \ {l}, call[w].sweep,
                         With(call[w].writes, k, Upserted(bucket[k])))]
        /\ UNCHANGED <<now, bucket, admitted, audits>>

OverBefore(k, row) == row.count - 1 > Maximum[k.axis]
Over(k, row) == row.count > Maximum[k.axis]

\* the limits that deny the evaluation
Denied(c) == {k \in DOMAIN c.writes : c.writes[k] # Absent /\ Over(k, c.writes[k])}

ClaimedAlways(row) == TRUE
\* the audit claim of a denial
Unclaimed(row) == ~ row.audited

\* the denials whose claim succeeds, each of which writes an audit row
Claimed(c) == {k \in Denied(c) : Unclaimed(c.writes[k])}

Decided(c, k) ==
    IF c.writes[k] = Absent THEN Absent
    ELSE [count |-> c.writes[k].count,
          audited |-> c.writes[k].audited \/ k \in Claimed(c)]

\* all limits are counted: denials are audited, and the transaction commits
Decide(w) ==
    LET c == call[w]
        admits == IF Denied(c) = {} THEN 1 ELSE 0
    IN  /\ Swept(w)
        /\ c.todo = {}
        /\ bucket' = [k \in Key |-> IF k \in DOMAIN c.writes
                                    THEN Decided(c, k) ELSE bucket[k]]
        /\ admitted' = [k \in Key |-> IF k \notin DOMAIN c.writes THEN admitted[k]
                                      ELSE IF c.writes[k] = Absent THEN 0
                                      ELSE admitted[k] + admits]
        /\ audits' = [k \in Key |-> IF k \notin DOMAIN c.writes THEN audits[k]
                                    ELSE IF c.writes[k] = Absent THEN 0
                                    ELSE IF k \in Claimed(c) THEN audits[k] + 1
                                    ELSE audits[k]]
        /\ call' = [call EXCEPT ![w] = NoCall]
        /\ UNCHANGED now

Abort(w) ==
    /\ call[w] # NoCall
    /\ call' = [call EXCEPT ![w] = NoCall]
    /\ UNCHANGED <<now, bucket, admitted, audits>>

Tick ==
    /\ now < MaxTime
    /\ now' = now + 1
    /\ UNCHANGED <<bucket, admitted, audits, call>>

Next ==
    \/ \E w \in Worker, r \in Request : Begin(w, r)
    \/ \E w \in Worker : Select(w) \/ Decide(w) \/ Abort(w)
    \/ \E w \in Worker, k \in Key : Sweep(w, k)
    \/ \E w \in Worker, l \in UNION Request : Count(w, l)
    \/ Tick

Spec == Init /\ [][Next]_vars

-----------------------------------------------------------------------------
(* Properties.                                                             *)

\* However many evaluations count one row at once, whichever of them fail and
\* whichever are denied by another axis, the row admits its maximum at most.
\* (A row that cleanup has deleted counts anew if an evaluation that began in
\* its window comes to it after that.)
AdmittedWithinLimit ==
    \A k \in Key : admitted[k] <= Maximum[k.axis]

\* A row has its one denial audited if and only if an evaluation it denied has
\* been answered: none is missing, and none is repeated by later denials.
DenialAuditedOnce ==
    \A k \in Key : bucket[k] # Absent =>
       /\ audits[k] = IF bucket[k].count > Maximum[k.axis] THEN 1 ELSE 0
       /\ bucket[k].audited = (audits[k] = 1)

\* evaluations whose cleanup is over and has deleted nothing
Counting ==
    {w \in Worker : /\ Swept(w)
                    /\ \A k \in DOMAIN call[w].writes : call[w].writes[k] # Absent}

\* v holds the row that w waits for
Blocks(v, w) ==
    \E l \in call[w].todo :
       /\ First(l, call[w].todo)
       /\ KeyOf(l, call[w].now) \in DOMAIN call[v].writes

\* Evaluations wait for one another in a circle, whatever rows they share and
\* whatever windows they began in, only if one of them has deleted a row: its
\* cleanup takes locks before, and out of, the order of the axes.
CountersNeverDeadlock ==
    \A s \in SUBSET Counting :
       s # {} => \E w \in s : \A v \in s : ~ Blocks(v, w)

(***************************************************************************)
(* Evaluations in flight, with their snapshots, locks, cleanups and        *)
(* failures, count as if each were evaluated in one step when it commits:  *)
(* no attempt is lost or counted twice, and an attempt is admitted exactly *)
(* when all the rows it is counted in have room (evaluate).                *)
(***************************************************************************)
Counted == [k \in Key |-> IF bucket[k] = Absent THEN 0 ELSE bucket[k].count]

Counters == INSTANCE AttemptCounters WITH count <- Counted

ImplementsCounters == Counters!Spec

=============================================================================
