--------------------------- MODULE OrderSubmission ---------------------------
(***************************************************************************)
(* SubmitOrderRequest run by concurrent workers against PostgreSQL: every  *)
(* worker is one HTTP request of one application instance, and executes    *)
(* the use case inside a SERIALIZABLE transaction that is retried on a     *)
(* conflict.                                                               *)
(*                                                                         *)
(* The database is modelled by what the code relies on: a transaction      *)
(* reads the snapshot of its first statement, locking or writing a row     *)
(* that changed since that snapshot fails with a conflict, primary keys    *)
(* are unique, row and advisory locks last until the transaction ends, and *)
(* any statement may fail with a serialization conflict of its own.        *)
(* Serializable isolation allows fewer behaviours than these.              *)
(*                                                                         *)
(* Locks are not variables: the locks a transaction holds follow from how  *)
(* far it has come. A definition placed directly above another with the    *)
(* same parameters, and used nowhere, is a bug that the other one does not *)
(* have; README.md tells which property notices each.                      *)
(***************************************************************************)
EXTENDS Naturals, Sequences

CONSTANTS
    Worker,       \* requests in flight, over all application instances
    Account,      \* signed-in accounts that may submit
    Key,          \* idempotency keys
    Trip,         \* trip identities a request may name
    Mode,         \* service modes
    Terms,        \* normalized request terms: [mode, units], a unit is 10 grams
    Request,      \* submissions clients may make: [customer, key, trip, terms]
    Offer,        \* what does not change while orders are taken, of each trip
    Capacity,     \* units on sale when the trip is published
    Unsteady,     \* accounts whose session or selling rights may end
    Retention,    \* how long a completed submission can be replayed
    MaxAttempts,  \* executions of the transaction before the conflict is thrown
    MaxTime,      \* bound of the clock, for model checking
    NoRecord,     \* no idempotency row
    NoRequest     \* the worker is idle

Status == {"ABSENT", "PENDING_MODERATION", "PUBLISHED"}

OfferType == [seller : Account, status : Status, modes : SUBSET Mode,
              opens : Nat, closes : Nat]

Fingerprint == Trip \X Terms

RequestType == [customer : Account, key : Key, trip : Trip, terms : Terms]

Row == [version : Nat \ {0}, remaining : Nat]

RecordType == [fingerprint : Fingerprint, order : Nat \ {0}, expiresAt : Nat]

OrderType == [customer : Account, key : Key, trip : Trip, terms : Terms,
              version : Nat \ {0}, submittedAt : Nat]

ASSUME TermsAssumption == Terms \subseteq [mode : Mode, units : Nat \ {0}]
ASSUME RequestAssumption == Request \subseteq RequestType
ASSUME OfferAssumption == Offer \in [Trip -> OfferType]
ASSUME CapacityAssumption == Capacity \in [Trip -> Nat]
ASSUME BoundsAssumption ==
    /\ Retention \in Nat \ {0}
    /\ MaxAttempts \in Nat \ {0}
    /\ MaxTime \in Nat
    /\ Unsteady \subseteq Account
ASSUME AbsenceAssumption == NoRecord \notin RecordType /\ NoRequest \notin Request

VARIABLES
    \* the database
    now,         \* clock_timestamp()
    trip,        \* trip_offer: the columns that orders change
    orders,      \* order_request, in commit order; an order's id is its index
    record,      \* order_submission_idempotency
    current,     \* accounts whose account row and session pass requireCurrentActor
    selling,     \* accounts whose account and jastipper profile are ACTIVE
    \* the workers
    pc,
    attempt,
    request,
    view,        \* what the transaction has read
    answer

database == <<now, trip, orders, record, current, selling>>
worker == <<pc, attempt, request, view, answer>>
vars == <<database, worker>>

(***************************************************************************)
(* What a transaction has read: the rows of its snapshot, the clock at     *)
(* authoritativeNow and the clock at the reservation.                      *)
(***************************************************************************)
Records == RecordType \cup {NoRecord}

View == [row : Row, record : Records, current : BOOLEAN, selling : BOOLEAN,
         observedAt : Nat, reservedAt : Nat]

EmptyView ==
    [row |-> [version |-> 1, remaining |-> 0], record |-> NoRecord,
     current |-> FALSE, selling |-> FALSE, observedAt |-> 0, reservedAt |-> 0]

Outcome ==
    {"ACCEPTED", "REPLAYED", "IDEMPOTENCY_CONFLICT", "IDEMPOTENCY_IN_PROGRESS",
     "SESSION_INACTIVE", "RESOURCE_NOT_FOUND", "SELF_ORDER_DENIED",
     "OFFER_INELIGIBLE", "SERVICE_MODE_UNAVAILABLE", "CAPACITY_UNAVAILABLE",
     "OFFER_REVISION_STALE", "UNAVAILABLE"}

\* order 0: the answer names no order
Answer == [outcome : Outcome \cup {"NONE"}, order : Nat]
NoAnswer == [outcome |-> "NONE", order |-> 0]

(***************************************************************************)
(* Where a worker is. "ready" is between transactions, "answered" after    *)
(* the last one; in between the transaction is open and each place is      *)
(* named for the statement that just succeeded.                            *)
(***************************************************************************)
Claimed == {"claimed", "sellerLocked", "sampled", "reserved"}
InTransaction == {"opened", "current"} \cup Claimed
Place == {"idle", "ready", "answered"} \cup InTransaction

Init ==
    /\ now = 0
    /\ trip = [t \in Trip |-> [version |-> 1, remaining |-> Capacity[t]]]
    /\ orders = << >>
    /\ record = [a \in Account |-> [k \in Key |-> NoRecord]]
    /\ current = Account
    /\ selling = {Offer[t].seller : t \in Trip}
    /\ pc = [w \in Worker |-> "idle"]
    /\ attempt = [w \in Worker |-> 0]
    /\ request = [w \in Worker |-> NoRequest]
    /\ view = [w \in Worker |-> EmptyView]
    /\ answer = [w \in Worker |-> NoAnswer]

-----------------------------------------------------------------------------
\* The locks, and the rows behind a worker's request

TripOf(w) == request[w].trip
SellerOf(w) == Offer[TripOf(w)].seller
FingerprintOfTripOnly(w) == <<request[w].trip, CHOOSE terms \in Terms : TRUE>>
FingerprintOf(w) == <<request[w].trip, request[w].terms>>
RecordOf(w) == record[request[w].customer][request[w].key]

\* pg_try_advisory_xact_lock on (customer, operation, key digest)
KeyNeverLocked(w) == FALSE
KeyLockedByOther(w) ==
    \E v \in Worker \ {w} :
        /\ pc[v] \in Claimed
        /\ request[v].customer = request[w].customer
        /\ request[v].key = request[w].key

\* FOR SHARE on the seller's account and profile
SellerUnlocked(a) == FALSE
SellerLocked(a) ==
    \E w \in Worker : pc[w] \in {"sellerLocked", "sampled", "reserved"} /\ SellerOf(w) = a

\* FOR UPDATE on the trip
TripLockedByOther(w) ==
    \E v \in Worker \ {w} : pc[v] = "reserved" /\ TripOf(v) = TripOf(w)

RowChangeUnseen(w) == FALSE
RowChanged(w) == trip[TripOf(w)] # view[w].row

SellerChanged(w) == (SellerOf(w) \in selling) # view[w].selling

RecordChanged(w) == RecordOf(w) # view[w].record

InWindow(t, at) == Offer[t].opens <= at /\ at < Offer[t].closes

Expired(rec, at) == rec.expiresAt <= at

-----------------------------------------------------------------------------
\* How a transaction ends

Advance(w, from, to) == pc[w] = from /\ pc' = [pc EXCEPT ![w] = to]

Reply(w, outcome, order) ==
    /\ pc' = [pc EXCEPT ![w] = "answered"]
    /\ answer' = [answer EXCEPT ![w] = [outcome |-> outcome, order |-> order]]
    /\ view' = [view EXCEPT ![w] = EmptyView]
    /\ UNCHANGED <<attempt, request>>

\* an error leaves the work callback: rollback, and execute() throws it on
Deny(w, outcome) == Reply(w, outcome, 0) /\ UNCHANGED database

\* P2002, P2034 or P2010 with 40001: rollback, and the loop runs the work again
Conflict(w) ==
    \/ /\ attempt[w] < MaxAttempts
       /\ pc' = [pc EXCEPT ![w] = "ready"]
       /\ attempt' = [attempt EXCEPT ![w] = @ + 1]
       /\ view' = [view EXCEPT ![w] = EmptyView]
       /\ UNCHANGED <<request, answer, database>>
    \/ /\ attempt[w] = MaxAttempts
       /\ Deny(w, "UNAVAILABLE")

-----------------------------------------------------------------------------
\* The use case, a statement or a run of statements at a time

Submit(w, r) ==
    /\ Advance(w, "idle", "ready")
    /\ request' = [request EXCEPT ![w] = r]
    /\ attempt' = [attempt EXCEPT ![w] = 1]
    /\ UNCHANGED <<view, answer, database>>

\* the first statement fixes the snapshot
Snapshot(w) ==
    [row |-> trip[TripOf(w)], record |-> RecordOf(w),
     current |-> request[w].customer \in current, selling |-> SellerOf(w) \in selling,
     observedAt |-> 0, reservedAt |-> 0]

Begin(w) ==
    /\ Advance(w, "ready", "opened")
    /\ view' = [view EXCEPT ![w] = Snapshot(w)]
    /\ UNCHANGED <<attempt, request, answer, database>>

SessionUnchecked(w) == TRUE
SessionCurrent(w) == view[w].current

\* authoritativeNow, then requireCurrentActor; SESSION_INACTIVE stands for each
\* of its refusals (no such account, account inactive, session inactive)
Authenticate(w) ==
    /\ pc[w] = "opened"
    /\ \/ /\ SessionCurrent(w)
          /\ Advance(w, "opened", "current")
          /\ view' = [view EXCEPT ![w].observedAt = now]
          /\ UNCHANGED <<attempt, request, answer, database>>
       \/ /\ ~SessionCurrent(w)
          /\ Deny(w, "SESSION_INACTIVE")

\* claim(): the lock is tried, never waited for; the row is the snapshot's
Claim(w) ==
    LET found == view[w].record
        Proceed == /\ Advance(w, "current", "claimed")
                   /\ UNCHANGED <<attempt, request, view, answer, database>>
    IN  /\ pc[w] = "current"
        /\ \/ KeyLockedByOther(w) /\ Deny(w, "IDEMPOTENCY_IN_PROGRESS")
           \/ /\ ~KeyLockedByOther(w)
              /\ \/ found = NoRecord /\ Proceed
                 \/ /\ found # NoRecord
                    /\ Expired(found, view[w].observedAt)  \* the row is deleted
                    /\ IF RecordChanged(w) THEN Conflict(w) ELSE Proceed
                 \/ /\ found # NoRecord
                    /\ ~Expired(found, view[w].observedAt)
                    /\ IF found.fingerprint = FingerprintOf(w)
                       THEN Reply(w, "REPLAYED", found.order) /\ UNCHANGED database
                       ELSE Deny(w, "IDEMPOTENCY_CONFLICT")

SelfOrderUnchecked(w) == FALSE
SelfOrder(w) == SellerOf(w) = request[w].customer

\* findById and requireOrderEligible, in the order of their checks
Eligibility(w) ==
    LET o == Offer[TripOf(w)]
    IN  IF o.status = "ABSENT" THEN "RESOURCE_NOT_FOUND"
        ELSE IF SelfOrder(w) THEN "SELF_ORDER_DENIED"
        ELSE IF o.status # "PUBLISHED" THEN "OFFER_INELIGIBLE"
        ELSE IF request[w].terms.mode \notin o.modes THEN "SERVICE_MODE_UNAVAILABLE"
        ELSE IF ~InWindow(TripOf(w), view[w].observedAt) THEN "OFFER_INELIGIBLE"
        ELSE "ELIGIBLE"

\* ... then lockEligibleSeller
LockSeller(w) ==
    /\ pc[w] = "claimed"
    /\ \/ /\ Eligibility(w) # "ELIGIBLE"
          /\ Deny(w, Eligibility(w))
       \/ /\ Eligibility(w) = "ELIGIBLE"
          /\ \/ ~view[w].selling /\ Deny(w, "OFFER_INELIGIBLE")
             \/ view[w].selling /\ SellerChanged(w) /\ Conflict(w)
             \/ /\ view[w].selling /\ ~SellerChanged(w)
                /\ Advance(w, "claimed", "sellerLocked")
                /\ UNCHANGED <<attempt, request, view, answer, database>>

CapacityUnchecked(w) == TRUE
CapacityLeft(w) == view[w].row.remaining >= request[w].terms.units

\* The capacity check, and the scan of reserveCapacity's SELECT: its
\* clock_timestamp() is evaluated below the row lock, so before any wait for it.
Sample(w) ==
    /\ pc[w] = "sellerLocked"
    /\ \/ /\ ~CapacityLeft(w)
          /\ Deny(w, "CAPACITY_UNAVAILABLE")
       \/ /\ CapacityLeft(w)
          /\ Advance(w, "sellerLocked", "sampled")
          /\ view' = [view EXCEPT ![w].reservedAt = now]
          /\ UNCHANGED <<attempt, request, answer, database>>

MovedOnIsStale(w) == RowChanged(w) /\ Deny(w, "OFFER_REVISION_STALE")
MovedOn(w) == RowChanged(w) /\ Conflict(w)

StillOpenWhenObserved(w) == InWindow(TripOf(w), view[w].observedAt)
StillOpen(w) == InWindow(TripOf(w), view[w].reservedAt)

\* The row lock of that SELECT, waited for, the window check on the clock it
\* sampled, and the version-guarded UPDATE, which only this transaction sees.
Reserve(w) ==
    /\ pc[w] = "sampled"
    /\ ~TripLockedByOther(w)
    /\ \/ MovedOn(w)
       \/ /\ ~RowChanged(w) /\ ~StillOpen(w)
          /\ Deny(w, "OFFER_REVISION_STALE")
       \/ /\ ~RowChanged(w) /\ StillOpen(w)
          /\ Advance(w, "sampled", "reserved")
          /\ UNCHANGED <<attempt, request, view, answer, database>>

NewOrder(w) ==
    [customer |-> request[w].customer, key |-> request[w].key, trip |-> TripOf(w),
     terms |-> request[w].terms, version |-> view[w].row.version,
     submittedAt |-> view[w].reservedAt]

ReservedSameRevision(w) ==
    [view[w].row EXCEPT !.remaining = @ - request[w].terms.units]
ReservedRow(w) ==
    [version |-> view[w].row.version + 1,
     remaining |-> view[w].row.remaining - request[w].terms.units]

RecordExpiringEarly(w) ==
    [fingerprint |-> FingerprintOf(w), order |-> Len(orders) + 1,
     expiresAt |-> view[w].observedAt + Retention]
CompletedRecord(w) ==
    [fingerprint |-> FingerprintOf(w), order |-> Len(orders) + 1,
     expiresAt |-> view[w].reservedAt + Retention]

\* complete() inserts a row whose key is taken, unless claim() deleted that row
KeyNotUnique(w) == FALSE
KeyTaken(w) == RecordOf(w) # NoRecord /\ view[w].record = NoRecord

Store(w) ==
    /\ orders' = Append(orders, NewOrder(w))
    /\ trip' = [trip EXCEPT ![TripOf(w)] = ReservedRow(w)]
    /\ record' = [record EXCEPT ![request[w].customer][request[w].key] =
                      CompletedRecord(w)]
    /\ UNCHANGED <<now, current, selling>>

\* create, audit, outbox and complete, then COMMIT. The answer to COMMIT may be
\* lost with the connection, which the worker reports as a failure.
Persist(w) ==
    /\ pc[w] = "reserved"
    /\ \/ KeyTaken(w) /\ Conflict(w)
       \/ /\ ~KeyTaken(w) /\ Store(w)
          /\ \/ Reply(w, "ACCEPTED", Len(orders) + 1)
             \/ Reply(w, "UNAVAILABLE", 0)

Forget(w) ==
    /\ pc' = [pc EXCEPT ![w] = "idle"]
    /\ attempt' = [attempt EXCEPT ![w] = 0]
    /\ request' = [request EXCEPT ![w] = NoRequest]
    /\ view' = [view EXCEPT ![w] = EmptyView]
    /\ answer' = [answer EXCEPT ![w] = NoAnswer]
    /\ UNCHANGED database

\* the response leaves for the client, who may or may not receive it
Return(w) == pc[w] = "answered" /\ Forget(w)

-----------------------------------------------------------------------------
\* What the worker does not decide

\* 40001 raised by serializable isolation's own bookkeeping, at any statement
SerializationFailure(w) == pc[w] \in InTransaction /\ Conflict(w)

\* maxWait, the transaction timeout or a lost connection: not retried
WithoutTimeout(w) == FALSE
TransactionLost(w) == pc[w] \in InTransaction \cup {"ready"} /\ Deny(w, "UNAVAILABLE")

\* the process dies: the server rolls its open transaction back
Crash(w) == pc[w] # "idle" /\ Forget(w)

Tick ==
    /\ now < MaxTime
    /\ now' = now + 1
    /\ UNCHANGED <<trip, orders, record, current, selling, worker>>

\* the session is revoked or its account suspended: no lock of a submission
\* covers it, nor does one cover the session's expiry, which acts the same
EndSession(a) ==
    /\ a \in current
    /\ current' = current \ {a}
    /\ UNCHANGED <<now, trip, orders, record, selling, worker>>

\* the account or the profile is suspended, which waits for the share locks
Suspend(a) ==
    /\ a \in selling
    /\ ~SellerLocked(a)
    /\ selling' = selling \ {a}
    /\ UNCHANGED <<now, trip, orders, record, current, worker>>

-----------------------------------------------------------------------------
Step(w) ==
    \/ Begin(w) \/ Authenticate(w) \/ Claim(w) \/ LockSeller(w)
    \/ Sample(w) \/ Reserve(w) \/ Persist(w) \/ Return(w)

Failure(w) == SerializationFailure(w) \/ TransactionLost(w) \/ Crash(w)

Environment ==
    \/ Tick
    \/ \E a \in Unsteady : EndSession(a) \/ Suspend(a)

Next ==
    \/ \E w \in Worker :
        \/ \E r \in Request : Submit(w, r)
        \/ Step(w)
        \/ Failure(w)
    \/ Environment

Spec == Init /\ [][Next]_vars

\* Node runs what is runnable and the transaction timer always fires.
Fairness == \A w \in Worker : WF_vars(Step(w) \/ TransactionLost(w))

FairSpec == Spec /\ Fairness

-----------------------------------------------------------------------------
(***************************************************************************)
(* Type invariant: every variable keeps its type; in particular no trip's  *)
(* remaining capacity is ever below zero (prisma-marketplace.ts,           *)
(* reserveCapacity).                                                       *)
(***************************************************************************)
TypeOK ==
    /\ now \in Nat
    /\ trip \in [Trip -> Row]
    /\ orders \in Seq(OrderType)
    /\ record \in [Account -> [Key -> Records]]
    /\ current \subseteq Account
    /\ selling \subseteq Account
    /\ pc \in [Worker -> Place]
    /\ attempt \in [Worker -> 0 .. MaxAttempts]
    /\ request \in [Worker -> Request \cup {NoRequest}]
    /\ view \in [Worker -> View]
    /\ answer \in [Worker -> Answer]

(***************************************************************************)
(* No two orders were sold against the same revision of an offer, and the  *)
(* offer has moved past every revision that was sold: concurrent           *)
(* reservations of one trip are serialized by its version                  *)
(* (reserveCapacity's lock and version guard).                             *)
(***************************************************************************)
OneOrderPerRevision ==
    /\ \A i \in 1 .. Len(orders) : orders[i].version < trip[orders[i].trip].version
    /\ \A i, j \in 1 .. Len(orders) :
          i # j /\ orders[i].trip = orders[j].trip => orders[i].version # orders[j].version

(***************************************************************************)
(* Capacity is neither lost nor sold twice: what is left of a trip and     *)
(* what its orders reserved, added up order by order, make what was        *)
(* published, and at no order was more reserved than that (reserveCapacity *)
(* and create in one transaction).                                         *)
(***************************************************************************)
Reserved(i, t) == IF orders[i].trip = t THEN orders[i].terms.units ELSE 0

RunningTotal(sold, t) ==
    /\ sold[0] = 0
    /\ \A i \in 1 .. Len(orders) : sold[i] = sold[i - 1] + Reserved(i, t)

CapacityConserved ==
    \A t \in Trip :
        \E sold \in [0 .. Len(orders) -> 0 .. Capacity[t]] :
            /\ RunningTotal(sold, t)
            /\ trip[t].remaining + sold[Len(orders)] = Capacity[t]

(***************************************************************************)
(* A customer's key buys at most once in a retention period, whatever is   *)
(* retried, resubmitted or run at the same time, for the same trip or for  *)
(* another (claim and complete).                                           *)
(***************************************************************************)
SameKey(o, p) == o.customer = p.customer /\ o.key = p.key

OneOrderPerKey ==
    \A i, j \in 1 .. Len(orders) :
        i < j /\ SameKey(orders[i], orders[j]) =>
            orders[i].submittedAt + Retention <= orders[j].submittedAt

(***************************************************************************)
(* As long as an order is inside its retention period its idempotency row  *)
(* is there, names that order and the terms it was placed with, and does   *)
(* not expire early, so a client that lost the response can still learn    *)
(* its order (complete, and claim's replay).                               *)
(***************************************************************************)
RetainedOrdersReplay ==
    \A i \in 1 .. Len(orders) :
        LET o == orders[i]
            r == record[o.customer][o.key]
        IN  now < o.submittedAt + Retention =>
              r = [fingerprint |-> <<o.trip, o.terms>>, order |-> i,
                   expiresAt |-> o.submittedAt + Retention]

(***************************************************************************)
(* What a worker answers is true of the database: success names an order   *)
(* that is committed and is the one asked for, a key conflict means this   *)
(* customer's key did buy something else, sold out means the trip cannot   *)
(* take the request any more (SubmitOrderRequest.execute).                 *)
(***************************************************************************)
Answered(w, outcomes) == pc[w] = "answered" /\ answer[w].outcome \in outcomes

SuccessNamesTheOrder(w) ==
    Answered(w, {"ACCEPTED", "REPLAYED"}) =>
        /\ answer[w].order \in 1 .. Len(orders)
        /\ LET o == orders[answer[w].order]
           IN  request[w] = [customer |-> o.customer, key |-> o.key,
                             trip |-> o.trip, terms |-> o.terms]

ConflictMeansKeyReused(w) ==
    Answered(w, {"IDEMPOTENCY_CONFLICT"}) =>
        \E i \in 1 .. Len(orders) :
            /\ SameKey(orders[i], request[w])
            /\ FingerprintOf(w) # <<orders[i].trip, orders[i].terms>>

SoldOutIsTrue(w) ==
    Answered(w, {"CAPACITY_UNAVAILABLE"}) =>
        trip[TripOf(w)].remaining < request[w].terms.units

HonestAnswers ==
    \A w \in Worker :
        SuccessNamesTheOrder(w) /\ ConflictMeansKeyReused(w) /\ SoldOutIsTrue(w)

(***************************************************************************)
(* OFFER_REVISION_STALE is answered only when ordering has closed: an      *)
(* offer that another order moved on is a conflict, which is retried on a  *)
(* fresh snapshot, and never reaches the customer as a stale revision      *)
(* (reserveCapacity under isRetryableTransactionConflict).                 *)
(***************************************************************************)
StaleMeansClosed ==
    \A w \in Worker :
        Answered(w, {"OFFER_REVISION_STALE"}) => ~InWindow(TripOf(w), now)

(***************************************************************************)
(* No order is committed once its seller has been suspended, although the  *)
(* seller was checked several statements earlier (lockEligibleSeller).     *)
(***************************************************************************)
SellerEligibleAtCommit ==
    [][orders' # orders => Offer[orders'[Len(orders')].trip].seller \in selling]_vars

(***************************************************************************)
(* Every submission comes to an end: conflicts are retried a bounded       *)
(* number of times and a wait for a row lock ends with the transaction's   *)
(* timeout (PrismaMarketplaceUnitOfWork.execute).                          *)
(***************************************************************************)
EverySubmissionEnds ==
    \A w \in Worker : pc[w] = "ready" ~> pc[w] \in {"answered", "idle"}

(***************************************************************************)
(* Order submission implements the order book: whatever the workers,       *)
(* conflicts, retries and failures do, orders enter as OrderBook says. An  *)
(* open transaction is a desk, and its snapshot shows whether a session    *)
(* admits there: a session that has ended before the transaction began     *)
(* buys nothing in it, nor in any retry of it (SubmitOrderRequest.execute, *)
(* requireCurrentActor).                                                   *)
(***************************************************************************)
Admitted ==
    {<<w, request[w].customer>> :
        w \in {v \in Worker : pc[v] \in InTransaction /\ view[v].current}}

Book == INSTANCE OrderBook WITH Desk <- Worker, admitted <- Admitted

ImplementsOrderBook == Book!Spec
=============================================================================
