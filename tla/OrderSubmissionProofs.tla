----------------------- MODULE OrderSubmissionProofs -----------------------
(***************************************************************************)
(* Proofs about OrderSubmission, for any workers, accounts, keys, trips,   *)
(* offers, capacities, retention and number of attempts.                   *)
(***************************************************************************)
EXTENDS OrderSubmissionInvariant, WellFoundedInduction, TLAPS

-----------------------------------------------------------------------------
\* What every request, row and view is made of

LEMMA RequestFields ==
  ASSUME NEW r \in Request
  PROVE  /\ r \in RequestType
         /\ r.customer \in Account /\ r.key \in Key /\ r.trip \in Trip
         /\ r.terms \in Terms
         /\ r.terms.units \in Nat \ {0} /\ r.terms.mode \in Mode
         /\ Offer[r.trip].seller \in Account
         /\ Offer[r.trip].opens \in Nat /\ Offer[r.trip].closes \in Nat
  <1>1. r \in RequestType
    BY RequestAssumption
  <1>2. r.customer \in Account /\ r.key \in Key /\ r.trip \in Trip /\ r.terms \in Terms
    BY <1>1 DEF RequestType
  <1>3. r.terms \in [mode : Mode, units : Nat \ {0}]
    BY <1>2, TermsAssumption
  <1>4. Offer[r.trip] \in OfferType
    BY <1>2, OfferAssumption
  <1> QED
    BY <1>1, <1>2, <1>3, <1>4 DEF OfferType

LEMMA EmptyViewType == EmptyView \in View
  BY DEF EmptyView, View, Row, Records

LEMMA SnapshotType ==
  ASSUME TypeOK, NEW w \in Worker, request[w] \in Request
  PROVE  Snapshot(w) \in View
  <1>1. request[w].customer \in Account /\ request[w].key \in Key /\ TripOf(w) \in Trip
    BY RequestFields DEF TripOf
  <1>2. trip[TripOf(w)] \in Row /\ RecordOf(w) \in Records
    BY <1>1 DEF TypeOK, RecordOf
  <1> QED
    BY <1>2 DEF Snapshot, EmptyView, View, Row, Records

LEMMA OrdersType ==
  ASSUME TypeOK, NEW i \in 1 .. Len(orders)
  PROVE  orders[i] \in OrderType
  BY DEF TypeOK

LEMMA ReplyType ==
  ASSUME TypeOK, NEW w \in Worker, NEW outcome \in Outcome, NEW order \in Nat,
         Reply(w, outcome, order)
  PROVE  /\ pc' \in [Worker -> Place]
         /\ attempt' \in [Worker -> 0 .. MaxAttempts]
         /\ request' \in [Worker -> Request \cup {NoRequest}]
         /\ view' \in [Worker -> View]
         /\ answer' \in [Worker -> Answer]
  BY EmptyViewType DEF TypeOK, Reply, Place, Answer

LEMMA DenyType ==
  ASSUME TypeOK, NEW w \in Worker, NEW outcome \in Outcome, Deny(w, outcome)
  PROVE  TypeOK'
  <1>1. UNCHANGED database
    BY DEF Deny
  <1> QED
    BY ReplyType, <1>1 DEF Deny, TypeOK, database

LEMMA ConflictType ==
  ASSUME TypeOK, NEW w \in Worker, Conflict(w)
  PROVE  TypeOK'
  <1>1. CASE Deny(w, "UNAVAILABLE")
    BY <1>1, DenyType DEF Outcome
  <1>2. CASE ~Deny(w, "UNAVAILABLE")
    <2>1. /\ attempt[w] < MaxAttempts
          /\ pc' = [pc EXCEPT ![w] = "ready"]
          /\ attempt' = [attempt EXCEPT ![w] = @ + 1]
          /\ view' = [view EXCEPT ![w] = EmptyView]
          /\ UNCHANGED <<request, answer, now, trip, orders, record, current, selling>>
      BY <1>2 DEF Conflict, database
    <2>2. pc' \in [Worker -> Place] /\ view' \in [Worker -> View]
      BY <2>1, EmptyViewType DEF TypeOK, Place
    <2>3. attempt' \in [Worker -> 0 .. MaxAttempts]
      BY <2>1, BoundsAssumption DEF TypeOK
    <2> QED
      BY <2>1, <2>2, <2>3 DEF TypeOK
  <1> QED
    BY <1>1, <1>2

LEMMA ForgetType ==
  ASSUME TypeOK, NEW w \in Worker, Forget(w)
  PROVE  TypeOK'
  <1>1. UNCHANGED <<now, trip, orders, record, current, selling>>
    BY DEF Forget, database
  <1>2. /\ pc' \in [Worker -> Place]
        /\ view' \in [Worker -> View]
        /\ request' \in [Worker -> Request \cup {NoRequest}]
        /\ answer' \in [Worker -> Answer]
    BY EmptyViewType DEF Forget, TypeOK, Place, NoAnswer, Answer
  <1>3. attempt' \in [Worker -> 0 .. MaxAttempts]
    BY BoundsAssumption DEF Forget, TypeOK
  <1> QED
    BY <1>1, <1>2, <1>3 DEF TypeOK

-----------------------------------------------------------------------------
(***************************************************************************)
(* A step of worker w leaves the other workers alone. If it leaves the     *)
(* database alone too, only what is said of w has to be shown again.       *)
(***************************************************************************)
Moves(w) ==
    \A v \in Worker \ {w} :
        /\ pc'[v] = pc[v]
        /\ request'[v] = request[v]
        /\ view'[v] = view[v]
        /\ answer'[v] = answer[v]

LEMMA ExclusionStep ==
  ASSUME NEW w \in Worker, LocksExclude, Moves(w),
         pc'[w] \in Claimed => request'[w] = request[w] /\ ~KeyLockedByOther(w),
         pc'[w] = "reserved" => ~TripLockedByOther(w)
  PROVE  LocksExclude'
  <1> USE DEF Moves, Claimed, TripOf
  <1>1. ASSUME NEW v \in Worker, pc'[v] \in Claimed
        PROVE  ~KeyLockedByOther(v)'
    BY <1>1 DEF LocksExclude, KeyLockedByOther
  <1>2. ASSUME NEW v \in Worker, pc'[v] = "reserved"
        PROVE  ~TripLockedByOther(v)'
    BY <1>2 DEF LocksExclude, TripLockedByOther
  <1> QED
    BY <1>1, <1>2 DEF LocksExclude

LEMMA OtherWorker ==
  ASSUME NEW w \in Worker, Moves(w), UNCHANGED database,
         NEW v \in Worker \ {w}, WorkerInv(v)
  PROVE  WorkerInv(v)'
  <1> USE DEF Moves, database
  <1>1. HasRequest(v)'
    BY DEF WorkerInv, HasRequest
  <1>2. SeesThePast(v)'
    BY DEF WorkerInv, SeesThePast, Names, TripOf
  <1>3. HoldsSession(v)' /\ HoldsKey(v)'
    BY DEF WorkerInv, HoldsSession, HoldsKey, RecordChanged, RecordOf, Expired
  <1>4. HoldsSeller(v)'
    BY DEF WorkerInv, HoldsSeller, Eligibility, SellerOf, TripOf, SelfOrder, InWindow
  <1>5. HasSampled(v)'
    BY DEF WorkerInv, HasSampled, CapacityLeft
  <1>6. HoldsTrip(v)'
    BY DEF WorkerInv, HoldsTrip, RowChanged, StillOpen, TripOf, InWindow
  <1>7. AnswersTruly(v)'
    BY DEF WorkerInv, AnswersTruly, SuccessNamesTheOrder, ConflictMeansKeyReused,
           SoldOutIsTrue, Answered, FingerprintOf, SameKey, TripOf, Closed
  <1> QED
    BY <1>1, <1>2, <1>3, <1>4, <1>5, <1>6, <1>7 DEF WorkerInv

LEMMA BookUnchanged ==
  ASSUME BookInv, UNCHANGED <<now, trip, orders, record>>
  PROVE  BookInv'
  <1>1. RecordsNameOrders'
    BY DEF BookInv, RecordsNameOrders, Names
  <1>2. OrdersAreRecorded' /\ OrdersArePast'
    BY DEF BookInv, OrdersAreRecorded, OrdersArePast
  <1>3. OneOrderPerRevision' /\ OneOrderPerKey'
    BY DEF BookInv, OneOrderPerRevision, OneOrderPerKey, SameKey
  <1> QED
    BY <1>1, <1>2, <1>3 DEF BookInv

LEMMA QuietStep ==
  ASSUME NEW w \in Worker, IndInv, Moves(w), UNCHANGED database,
         TypeOK', WorkerInv(w)',
         pc'[w] \in Claimed => request'[w] = request[w] /\ ~KeyLockedByOther(w),
         pc'[w] = "reserved" => ~TripLockedByOther(w)
  PROVE  IndInv'
  <1>1. BookInv'
    BY BookUnchanged DEF IndInv, database
  <1>2. \A v \in Worker : WorkerInv(v)'
    BY OtherWorker DEF IndInv
  <1>3. LocksExclude'
    BY ExclusionStep DEF IndInv
  <1> QED
    BY <1>1, <1>2, <1>3 DEF IndInv

\* the ways out of a transaction that leave the database as it was

LEMMA LeavingStep ==
  ASSUME NEW w \in Worker, IndInv, Moves(w), UNCHANGED database, TypeOK',
         pc'[w] \notin InTransaction, HasRequest(w)', AnswersTruly(w)'
  PROVE  IndInv'
  <1>1. WorkerInv(w)'
    BY DEF WorkerInv, SeesThePast, HoldsSession, HoldsKey, HoldsSeller, HasSampled,
           HoldsTrip, InTransaction, Claimed
  <1> QED
    BY <1>1, QuietStep DEF InTransaction, Claimed

LEMMA DenyStep ==
  ASSUME NEW w \in Worker, IndInv, NEW outcome \in Outcome, Deny(w, outcome),
         pc[w] # "idle",
         outcome \notin {"ACCEPTED", "REPLAYED"},
         outcome = "IDEMPOTENCY_CONFLICT" =>
            \E i \in 1 .. Len(orders) :
                /\ SameKey(orders[i], request[w])
                /\ FingerprintOf(w) # <<orders[i].trip, orders[i].terms>>,
         outcome = "CAPACITY_UNAVAILABLE" =>
            trip[TripOf(w)].remaining < request[w].terms.units,
         outcome = "OFFER_REVISION_STALE" => Closed(TripOf(w))
  PROVE  IndInv'
  <1>1. TypeOK'
    BY DenyType DEF IndInv
  <1>2. /\ pc'[w] = "answered" /\ answer'[w].outcome = outcome
        /\ request' = request /\ UNCHANGED database /\ Moves(w)
    BY DEF Deny, Reply, Moves, IndInv, TypeOK
  <1>3. HasRequest(w)'
    BY <1>2 DEF IndInv, WorkerInv, HasRequest
  <1>4. AnswersTruly(w)'
    BY <1>2 DEF AnswersTruly, SuccessNamesTheOrder, ConflictMeansKeyReused, SoldOutIsTrue,
                Answered, FingerprintOf, SameKey, TripOf, Closed, database
  <1> QED
    BY <1>1, <1>2, <1>3, <1>4, LeavingStep DEF InTransaction, Claimed

LEMMA ConflictStep ==
  ASSUME NEW w \in Worker, IndInv, Conflict(w), pc[w] # "idle"
  PROVE  IndInv'
  <1>1. CASE Deny(w, "UNAVAILABLE")
    BY <1>1, DenyStep DEF Outcome
  <1>2. CASE ~Deny(w, "UNAVAILABLE")
    <2>1. /\ pc'[w] = "ready" /\ request' = request
          /\ UNCHANGED database /\ Moves(w)
      BY <1>2 DEF Conflict, Moves, IndInv, TypeOK
    <2>2. TypeOK'
      BY ConflictType DEF IndInv
    <2>3. HasRequest(w)' /\ AnswersTruly(w)'
      BY <2>1 DEF IndInv, WorkerInv, HasRequest, AnswersTruly, SuccessNamesTheOrder,
                  ConflictMeansKeyReused, SoldOutIsTrue, Answered
    <2> QED
      BY <2>1, <2>2, <2>3, LeavingStep DEF InTransaction, Claimed
  <1> QED
    BY <1>1, <1>2

LEMMA ForgetStep ==
  ASSUME NEW w \in Worker, IndInv, Forget(w)
  PROVE  IndInv'
  <1>1. pc'[w] = "idle" /\ UNCHANGED database /\ Moves(w)
    BY DEF Forget, Moves, IndInv, TypeOK
  <1>2. HasRequest(w)' /\ AnswersTruly(w)'
    BY <1>1 DEF HasRequest, AnswersTruly, SuccessNamesTheOrder, ConflictMeansKeyReused,
                SoldOutIsTrue, Answered
  <1> QED
    BY <1>1, <1>2, ForgetType, LeavingStep DEF InTransaction, Claimed, IndInv

-----------------------------------------------------------------------------
\* The actions that leave the database as it is, in the order of the use case

LEMMA SubmitStep ==
  ASSUME NEW w \in Worker, IndInv, NEW r \in Request, Submit(w, r)
  PROVE  IndInv'
  <1>1. /\ pc'[w] = "ready" /\ request'[w] = r
        /\ UNCHANGED database /\ Moves(w)
    BY DEF Submit, Advance, Moves, IndInv, TypeOK
  <1>2. TypeOK'
    <2>1. pc' \in [Worker -> Place] /\ request' \in [Worker -> Request \cup {NoRequest}]
      BY DEF Submit, Advance, IndInv, TypeOK, Place
    <2>2. attempt' \in [Worker -> 0 .. MaxAttempts]
      BY BoundsAssumption DEF Submit, IndInv, TypeOK
    <2> QED
      BY <2>1, <2>2 DEF Submit, IndInv, TypeOK, database
  <1>3. HasRequest(w)' /\ AnswersTruly(w)'
    BY <1>1 DEF HasRequest, AnswersTruly, SuccessNamesTheOrder, ConflictMeansKeyReused,
                SoldOutIsTrue, Answered
  <1> QED
    BY <1>1, <1>2, <1>3, LeavingStep DEF InTransaction, Claimed

LEMMA BeginStep ==
  ASSUME NEW w \in Worker, IndInv, Begin(w)
  PROVE  IndInv'
  <1>1. /\ pc[w] = "ready" /\ pc'[w] = "opened" /\ view'[w] = Snapshot(w)
        /\ request' = request /\ UNCHANGED database /\ Moves(w)
    BY DEF Begin, Advance, Moves, IndInv, TypeOK
  <1>2. request[w] \in Request
    BY <1>1 DEF IndInv, WorkerInv, HasRequest
  <1>3. TypeOK'
    <2>1. view' \in [Worker -> View]
      BY <1>2, SnapshotType DEF Begin, IndInv, TypeOK
    <2> QED
      BY <2>1 DEF Begin, Advance, IndInv, TypeOK, database, Place, InTransaction
  <1>4. SeesThePast(w)'
    <2>1. request[w].customer \in Account /\ request[w].key \in Key /\ TripOf(w) \in Trip
      BY <1>2, RequestFields DEF TripOf
    <2>2. view'[w].record # NoRecord =>
             Names(view'[w].record, request[w].customer, request[w].key)
      BY <1>1, <2>1 DEF Snapshot, RecordOf, IndInv, BookInv, RecordsNameOrders
    <2>3. trip[TripOf(w)].remaining \in Nat /\ now \in Nat
      BY <2>1 DEF IndInv, TypeOK, Row
    <2>4. view'[w].row = trip[TripOf(w)] /\ view'[w].observedAt = 0
      BY <1>1 DEF Snapshot
    <2> QED
      BY <1>1, <2>2, <2>3, <2>4 DEF SeesThePast, Names, database, TripOf
  <1>5. WorkerInv(w)'
    BY <1>1, <1>2, <1>4 DEF WorkerInv, HasRequest, HoldsSession, HoldsKey, HoldsSeller,
       HasSampled, HoldsTrip, AnswersTruly, SuccessNamesTheOrder, ConflictMeansKeyReused,
       SoldOutIsTrue, Answered, Claimed
  <1> QED
    BY <1>1, <1>3, <1>5, QuietStep DEF Claimed

LEMMA AuthenticateStep ==
  ASSUME NEW w \in Worker, IndInv, Authenticate(w)
  PROVE  IndInv'
  <1>1. CASE SessionCurrent(w)
    <2>1. /\ pc[w] = "opened" /\ pc'[w] = "current"
          /\ view' = [view EXCEPT ![w].observedAt = now]
          /\ UNCHANGED <<attempt, request, answer>>
          /\ UNCHANGED database
      BY <1>1 DEF Authenticate, Advance, IndInv, TypeOK, Deny
    <2>2. view[w] \in View /\ now \in Nat
      BY DEF IndInv, TypeOK
    <2>3. view'[w] \in View /\ view'[w] = [view[w] EXCEPT !.observedAt = now]
      BY <2>1, <2>2 DEF IndInv, TypeOK, View
    <2>4. Moves(w)
      BY <1>1, <2>1 DEF Authenticate, Advance, Moves, IndInv, TypeOK
    <2>5. TypeOK'
      <3>1. view' \in [Worker -> View]
        BY <2>1, <2>3 DEF IndInv, TypeOK
      <3>2. pc' \in [Worker -> Place]
        BY <1>1 DEF Authenticate, Advance, IndInv, TypeOK, Place, InTransaction
      <3> QED
        BY <2>1, <3>1, <3>2 DEF IndInv, TypeOK, database
    <2>6. SeesThePast(w)'
      BY <2>1, <2>2, <2>3 DEF IndInv, WorkerInv, SeesThePast, InTransaction, View, Names,
                         database, TripOf
    <2>7. HoldsSession(w)'
      <3>1. view'[w].current = view[w].current
        BY <2>2, <2>3 DEF View
      <3> QED
        BY <1>1, <3>1 DEF HoldsSession, SessionCurrent
    <2>8. WorkerInv(w)'
      BY <2>1, <2>6, <2>7 DEF IndInv, WorkerInv, HasRequest, HoldsKey, HoldsSeller,
         HasSampled, HoldsTrip, AnswersTruly, SuccessNamesTheOrder, ConflictMeansKeyReused,
         SoldOutIsTrue, Answered, Claimed
    <2> QED
      BY <2>1, <2>4, <2>5, <2>8, QuietStep DEF Claimed
  <1>2. CASE ~SessionCurrent(w)
    BY <1>2, DenyStep DEF Authenticate, Outcome
  <1> QED
    BY <1>1, <1>2

LEMMA AdvanceStep ==
  ASSUME NEW w \in Worker, IndInv, NEW from \in InTransaction, NEW to \in InTransaction,
         Advance(w, from, to), UNCHANGED <<attempt, request, view, answer, database>>,
         to # "opened" => view[w].current,
         HoldsKey(w)', HoldsSeller(w)', HasSampled(w)', HoldsTrip(w)',
         to \in Claimed => ~KeyLockedByOther(w),
         to = "reserved" => ~TripLockedByOther(w)
  PROVE  IndInv'
  <1>1. /\ pc[w] = from /\ pc'[w] = to /\ request' = request /\ view' = view
        /\ UNCHANGED database /\ Moves(w)
    BY DEF Advance, Moves, IndInv, TypeOK
  <1>2. TypeOK'
    BY DEF Advance, IndInv, TypeOK, database, Place
  <1>3. HasRequest(w)'
    BY <1>1 DEF IndInv, WorkerInv, HasRequest, InTransaction, Claimed
  <1>4. SeesThePast(w)'
    BY <1>1 DEF IndInv, WorkerInv, SeesThePast, Names, TripOf, database
  <1>5. AnswersTruly(w)'
    BY <1>1 DEF AnswersTruly, SuccessNamesTheOrder, ConflictMeansKeyReused,
                SoldOutIsTrue, Answered, InTransaction, Claimed
  <1>6. HoldsSession(w)'
    BY <1>1 DEF HoldsSession, Claimed
  <1>7. WorkerInv(w)'
    BY <1>3, <1>4, <1>5, <1>6 DEF WorkerInv
  <1> QED
    BY <1>1, <1>2, <1>7, QuietStep

LEMMA ClaimStep ==
  ASSUME NEW w \in Worker, IndInv, Claim(w)
  PROVE  IndInv'
  <1> DEFINE found == view[w].record
  <1>1. pc[w] = "current"
    BY DEF Claim
  <1>2. request[w] \in Request /\ (found # NoRecord =>
            Names(found, request[w].customer, request[w].key))
    BY <1>1 DEF IndInv, WorkerInv, HasRequest, SeesThePast, InTransaction
  <1>3. CASE Deny(w, "IDEMPOTENCY_IN_PROGRESS")
    BY <1>1, <1>3, DenyStep DEF Outcome
  <1>4. CASE Conflict(w)
    BY <1>1, <1>4, ConflictStep
  <1>5. CASE /\ found # NoRecord
             /\ found.fingerprint = FingerprintOf(w)
             /\ Reply(w, "REPLAYED", found.order)
             /\ UNCHANGED database
    <2>1. Names(found, request[w].customer, request[w].key)
      BY <1>2, <1>5
    <2>2. found.order \in Nat
      BY <2>1 DEF Names, IndInv, TypeOK
    <2>3. TypeOK'
      BY <1>5, <2>2, ReplyType DEF IndInv, TypeOK, Outcome, database
    <2>4. /\ pc'[w] = "answered" /\ Moves(w) /\ request' = request
          /\ answer'[w] = [outcome |-> "REPLAYED", order |-> found.order]
      BY <1>5 DEF Reply, Moves, IndInv, TypeOK
    <2>5. HasRequest(w)'
      BY <1>2, <2>4 DEF HasRequest
    <2>6. request[w] = [customer |-> request[w].customer, key |-> request[w].key,
                        trip |-> request[w].trip, terms |-> request[w].terms]
      BY <1>2, RequestFields DEF RequestType
    <2>7. SuccessNamesTheOrder(w)'
      BY <1>5, <2>1, <2>4, <2>6
         DEF Names, SuccessNamesTheOrder, Answered, FingerprintOf, database
    <2>8. AnswersTruly(w)'
      BY <2>4, <2>7 DEF AnswersTruly, ConflictMeansKeyReused, SoldOutIsTrue, Answered
    <2> QED
      BY <1>5, <2>3, <2>4, <2>5, <2>8, LeavingStep DEF InTransaction, Claimed
  <1>6. CASE /\ found # NoRecord
             /\ found.fingerprint # FingerprintOf(w)
             /\ Deny(w, "IDEMPOTENCY_CONFLICT")
    <2>1. Names(found, request[w].customer, request[w].key)
      BY <1>2, <1>6
    <2>2. \E i \in 1 .. Len(orders) :
             /\ SameKey(orders[i], request[w])
             /\ FingerprintOf(w) # <<orders[i].trip, orders[i].terms>>
      BY <1>6, <2>1 DEF Names, SameKey
    <2> QED
      BY <1>1, <1>6, <2>2, DenyStep DEF Outcome
  <1>7. CASE /\ ~KeyLockedByOther(w)
             /\ found # NoRecord => Expired(found, view[w].observedAt) /\ ~RecordChanged(w)
             /\ Advance(w, "current", "claimed")
             /\ UNCHANGED <<attempt, request, view, answer, database>>
    <2>1. pc'[w] = "claimed"
      BY <1>7 DEF Advance, IndInv, TypeOK
    <2>2. HoldsKey(w)'
      BY <1>7, <2>1 DEF HoldsKey, RecordChanged, RecordOf, Expired, database
    <2>3. HoldsSeller(w)' /\ HasSampled(w)' /\ HoldsTrip(w)'
      BY <2>1 DEF HoldsSeller, HasSampled, HoldsTrip
    <2> QED
      <3>1. view[w].current
        BY <1>1 DEF IndInv, WorkerInv, HoldsSession
      <3> QED
        BY <1>7, <2>1, <2>2, <2>3, <3>1, AdvanceStep DEF InTransaction, Claimed
  <1> QED
    BY <1>3, <1>4, <1>5, <1>6, <1>7 DEF Claim

LEMMA LockSellerStep ==
  ASSUME NEW w \in Worker, IndInv, LockSeller(w)
  PROVE  IndInv'
  <1>1. pc[w] = "claimed"
    BY DEF LockSeller
  <1>2. CASE Eligibility(w) # "ELIGIBLE" /\ Deny(w, Eligibility(w))
    <2>1. Eligibility(w) \in {"RESOURCE_NOT_FOUND", "SELF_ORDER_DENIED",
                              "OFFER_INELIGIBLE", "SERVICE_MODE_UNAVAILABLE"}
      BY <1>2 DEF Eligibility
    <2> QED
      BY <1>1, <1>2, <2>1, DenyStep DEF Outcome
  <1>3. CASE Deny(w, "OFFER_INELIGIBLE")
    BY <1>1, <1>3, DenyStep DEF Outcome
  <1>4. CASE Conflict(w)
    BY <1>1, <1>4, ConflictStep
  <1>5. CASE /\ Eligibility(w) = "ELIGIBLE"
             /\ view[w].selling /\ ~SellerChanged(w)
             /\ Advance(w, "claimed", "sellerLocked")
             /\ UNCHANGED <<attempt, request, view, answer, database>>
    <2>1. pc'[w] = "sellerLocked"
      BY <1>5 DEF Advance, IndInv, TypeOK
    <2>2. SellerOf(w) \in selling
      BY <1>5 DEF SellerChanged
    <2>3. HoldsKey(w)'
      BY <1>1, <1>5, <2>1 DEF IndInv, WorkerInv, HoldsKey, Claimed, RecordChanged,
                              RecordOf, Expired, database
    <2>4. HoldsSeller(w)'
      BY <1>5, <2>2 DEF HoldsSeller, Eligibility, SelfOrder, SellerOf, TripOf, InWindow,
                        database
    <2>5. HasSampled(w)' /\ HoldsTrip(w)'
      BY <2>1 DEF HasSampled, HoldsTrip
    <2>6. ~KeyLockedByOther(w)
      BY <1>1 DEF IndInv, LocksExclude, Claimed
    <2> QED
      <3>1. view[w].current
        BY <1>1 DEF IndInv, WorkerInv, HoldsSession, Claimed
      <3> QED
        BY <1>5, <2>1, <2>3, <2>4, <2>5, <2>6, <3>1, AdvanceStep DEF InTransaction, Claimed
  <1> QED
    BY <1>2, <1>3, <1>4, <1>5 DEF LockSeller

LEMMA SampleStep ==
  ASSUME NEW w \in Worker, IndInv, Sample(w)
  PROVE  IndInv'
  <1>1. pc[w] = "sellerLocked"
    BY DEF Sample
  <1>2. request[w] \in Request /\ trip[TripOf(w)].remaining <= view[w].row.remaining
    BY <1>1 DEF IndInv, WorkerInv, HasRequest, SeesThePast, InTransaction, Claimed
  <1>3. /\ request[w].terms.units \in Nat
        /\ trip[TripOf(w)].remaining \in Nat
        /\ view[w] \in View
    BY <1>2, RequestFields DEF IndInv, TypeOK, Row, TripOf
  <1>4. CASE ~CapacityLeft(w) /\ Deny(w, "CAPACITY_UNAVAILABLE")
    <2>1. view[w].row.remaining \in Nat
      BY <1>3 DEF View, Row
    <2>2. trip[TripOf(w)].remaining < request[w].terms.units
      BY <1>2, <1>3, <1>4, <2>1 DEF CapacityLeft
    <2> QED
      BY <1>1, <1>4, <2>2, DenyStep DEF Outcome
  <1>5. CASE /\ CapacityLeft(w)
             /\ Advance(w, "sellerLocked", "sampled")
             /\ view' = [view EXCEPT ![w].reservedAt = now]
             /\ UNCHANGED <<attempt, request, answer, database>>
    <2>1. pc'[w] = "sampled" /\ UNCHANGED database /\ request' = request /\ Moves(w)
      BY <1>5 DEF Advance, Moves, IndInv, TypeOK
    <2>2. now \in Nat
      BY DEF IndInv, TypeOK
    <2>3. view'[w] \in View /\ view'[w] = [view[w] EXCEPT !.reservedAt = now]
      BY <1>3, <1>5, <2>2 DEF IndInv, TypeOK, View
    <2>4. /\ view'[w].row = view[w].row /\ view'[w].record = view[w].record
          /\ view'[w].observedAt = view[w].observedAt /\ view'[w].reservedAt = now
          /\ view'[w].current = view[w].current
      BY <1>3, <2>3 DEF View
    <2>5. TypeOK'
      <3>1. view' \in [Worker -> View]
        BY <1>5, <2>3 DEF IndInv, TypeOK
      <3>2. pc' \in [Worker -> Place]
        BY <1>5 DEF Advance, IndInv, TypeOK, Place, InTransaction, Claimed
      <3> QED
        BY <1>5, <3>1, <3>2 DEF IndInv, TypeOK, database
    <2>6. SeesThePast(w)'
      BY <1>1, <2>1, <2>4 DEF IndInv, WorkerInv, SeesThePast, Names, TripOf, database,
                              InTransaction, Claimed
    <2>7. HoldsKey(w)'
      BY <1>1, <2>1, <2>4 DEF IndInv, WorkerInv, HoldsKey, Claimed, RecordChanged,
                              RecordOf, Expired, database
    <2>8. HoldsSeller(w)'
      BY <1>1, <2>1, <2>4 DEF IndInv, WorkerInv, HoldsSeller, Eligibility, SelfOrder,
                              SellerOf, TripOf, InWindow, database
    <2>9. HasSampled(w)'
      BY <1>1, <1>5, <2>1, <2>2, <2>4 DEF IndInv, WorkerInv, SeesThePast, HasSampled,
                              CapacityLeft, database, InTransaction, Claimed
    <2>10. HoldsSession(w)'
      BY <1>1, <2>4 DEF IndInv, WorkerInv, HoldsSession, Claimed
    <2>11. WorkerInv(w)'
      BY <1>2, <2>1, <2>6, <2>7, <2>8, <2>9, <2>10 DEF WorkerInv, HasRequest, HoldsTrip,
         AnswersTruly, SuccessNamesTheOrder, ConflictMeansKeyReused, SoldOutIsTrue, Answered
    <2>12. ~KeyLockedByOther(w)
      BY <1>1 DEF IndInv, LocksExclude, Claimed
    <2> QED
      BY <2>1, <2>5, <2>11, <2>12, QuietStep
  <1> QED
    BY <1>4, <1>5 DEF Sample

LEMMA ReserveStep ==
  ASSUME NEW w \in Worker, IndInv, Reserve(w)
  PROVE  IndInv'
  <1>1. pc[w] = "sampled" /\ ~TripLockedByOther(w)
    BY DEF Reserve
  <1>2. CASE Conflict(w)
    BY <1>1, <1>2, ConflictStep
  <1>3. CASE ~StillOpen(w) /\ Deny(w, "OFFER_REVISION_STALE")
    <2>1. /\ request[w] \in Request
          /\ Eligibility(w) = "ELIGIBLE"
          /\ view[w].observedAt <= view[w].reservedAt /\ view[w].reservedAt <= now
      BY <1>1 DEF IndInv, WorkerInv, HasRequest, HoldsSeller, HasSampled
    <2>2. InWindow(TripOf(w), view[w].observedAt)
      BY <2>1 DEF Eligibility
    <2>3. /\ Offer[TripOf(w)].opens \in Nat /\ Offer[TripOf(w)].closes \in Nat
          /\ now \in Nat
          /\ view[w].observedAt \in Nat /\ view[w].reservedAt \in Nat
      BY <2>1, RequestFields DEF IndInv, TypeOK, View, TripOf
    <2>4. Closed(TripOf(w))
      BY <1>3, <2>1, <2>2, <2>3 DEF InWindow, StillOpen, Closed
    <2> QED
      BY <1>1, <1>3, <2>4, DenyStep DEF Outcome
  <1>4. CASE /\ ~RowChanged(w) /\ StillOpen(w)
             /\ Advance(w, "sampled", "reserved")
             /\ UNCHANGED <<attempt, request, view, answer, database>>
    <2>1. pc'[w] = "reserved"
      BY <1>4 DEF Advance, IndInv, TypeOK
    <2>2. HoldsKey(w)'
      BY <1>1, <1>4 DEF IndInv, WorkerInv, HoldsKey, Claimed, RecordChanged,
                        RecordOf, Expired, database
    <2>3. HoldsSeller(w)'
      BY <1>1, <1>4 DEF IndInv, WorkerInv, HoldsSeller, Eligibility, SelfOrder,
                        SellerOf, TripOf, InWindow, database
    <2>4. HasSampled(w)' /\ HoldsTrip(w)'
      BY <1>1, <1>4 DEF IndInv, WorkerInv, HasSampled, CapacityLeft, HoldsTrip,
                        RowChanged, StillOpen, InWindow, TripOf, database
    <2>5. ~KeyLockedByOther(w)
      BY <1>1 DEF IndInv, LocksExclude, Claimed
    <2> QED
      <3>1. view[w].current
        BY <1>1 DEF IndInv, WorkerInv, HoldsSession, Claimed
      <3> QED
        BY <1>1, <1>4, <2>2, <2>3, <2>4, <2>5, <3>1, AdvanceStep DEF InTransaction, Claimed
  <1> QED
    BY <1>2, <1>3, <1>4 DEF Reserve, MovedOn

-----------------------------------------------------------------------------
\* What the database does by itself

LEMMA TickStep ==
  ASSUME IndInv, Tick
  PROVE  IndInv'
  <1> USE DEF Tick, worker
  <1>1. now \in Nat /\ now' = now + 1
    BY DEF IndInv, TypeOK
  <1>2. TypeOK'
    BY <1>1 DEF IndInv, TypeOK
  <1>3. BookInv'
    <2>1. RecordsNameOrders'
      BY DEF IndInv, BookInv, RecordsNameOrders, Names
    <2>2. OrdersAreRecorded'
      BY DEF IndInv, BookInv, OrdersAreRecorded
    <2>3. OrdersArePast'
      BY <1>1, OrdersType DEF IndInv, BookInv, OrdersArePast, OrderType
    <2>4. OneOrderPerRevision' /\ OneOrderPerKey'
      BY DEF IndInv, BookInv, OneOrderPerRevision, OneOrderPerKey, SameKey
    <2> QED
      BY <2>1, <2>2, <2>3, <2>4 DEF BookInv
  <1>4. ASSUME NEW w \in Worker
        PROVE  WorkerInv(w)'
    <2>1. WorkerInv(w) /\ view[w] \in View
      BY DEF IndInv, TypeOK
    <2>2. HasRequest(w)' /\ HoldsSession(w)' /\ HoldsKey(w)' /\ HoldsTrip(w)'
      BY <2>1 DEF WorkerInv, HasRequest, HoldsSession, HoldsKey, RecordChanged, RecordOf, Expired,
                  HoldsTrip, RowChanged, StillOpen, InWindow, TripOf
    <2>3. SeesThePast(w)'
      BY <1>1, <2>1 DEF WorkerInv, SeesThePast, Names, TripOf, View
    <2>4. HoldsSeller(w)'
      BY <2>1 DEF WorkerInv, HoldsSeller, Eligibility, SelfOrder, SellerOf, TripOf, InWindow
    <2>5. HasSampled(w)'
      BY <1>1, <2>1 DEF WorkerInv, HasSampled, CapacityLeft, View
    <2>6. SuccessNamesTheOrder(w)' /\ ConflictMeansKeyReused(w)' /\ SoldOutIsTrue(w)'
      BY <2>1 DEF WorkerInv, AnswersTruly, SuccessNamesTheOrder, ConflictMeansKeyReused,
                  SoldOutIsTrue, Answered, FingerprintOf, SameKey, TripOf
    <2>7. (Answered(w, {"OFFER_REVISION_STALE"}) => Closed(TripOf(w)))'
      <3> SUFFICES ASSUME Answered(w, {"OFFER_REVISION_STALE"})'
                   PROVE  Offer[TripOf(w)].closes <= now + 1
        BY <1>1 DEF Closed, TripOf
      <3>1. Answered(w, {"OFFER_REVISION_STALE"}) /\ pc[w] # "idle"
        BY DEF Answered
      <3>2. Offer[TripOf(w)].closes <= now /\ request[w] \in Request
        BY <2>1, <3>1 DEF WorkerInv, AnswersTruly, HasRequest, Closed
      <3>3. Offer[TripOf(w)].closes \in Nat
        BY <3>2, RequestFields DEF TripOf
      <3> QED
        BY <1>1, <3>2, <3>3
    <2> QED
      BY <2>2, <2>3, <2>4, <2>5, <2>6, <2>7 DEF WorkerInv, AnswersTruly
  <1>5. LocksExclude'
    BY DEF IndInv, LocksExclude, KeyLockedByOther, TripLockedByOther, TripOf
  <1> QED
    BY <1>2, <1>3, <1>4, <1>5 DEF IndInv

LEMMA EndSessionStep ==
  ASSUME NEW a \in Account, IndInv, EndSession(a)
  PROVE  IndInv'
  <1> USE DEF EndSession, worker
  <1>1. TypeOK'
    BY DEF IndInv, TypeOK
  <1>2. BookInv'
    BY BookUnchanged DEF IndInv
  <1>3. ASSUME NEW w \in Worker
        PROVE  WorkerInv(w)'
    <2>1. WorkerInv(w)
      BY DEF IndInv
    <2>2. HasRequest(w)' /\ SeesThePast(w)' /\ HoldsSession(w)' /\ HoldsKey(w)'
      BY <2>1 DEF WorkerInv, HasRequest, SeesThePast, Names, TripOf, HoldsSession, HoldsKey,
                  RecordChanged, RecordOf, Expired
    <2>3. HoldsSeller(w)' /\ HasSampled(w)' /\ HoldsTrip(w)'
      BY <2>1 DEF WorkerInv, HoldsSeller, Eligibility, SelfOrder, SellerOf, TripOf,
                  InWindow, HasSampled, CapacityLeft, HoldsTrip, RowChanged, StillOpen
    <2>4. AnswersTruly(w)'
      BY <2>1 DEF WorkerInv, AnswersTruly, SuccessNamesTheOrder, ConflictMeansKeyReused,
                  SoldOutIsTrue, Answered, FingerprintOf, SameKey, TripOf, Closed
    <2> QED
      BY <2>2, <2>3, <2>4 DEF WorkerInv
  <1>4. LocksExclude'
    BY DEF IndInv, LocksExclude, KeyLockedByOther, TripLockedByOther, TripOf
  <1> QED
    BY <1>1, <1>2, <1>3, <1>4 DEF IndInv

LEMMA SuspendStep ==
  ASSUME NEW a \in Account, IndInv, Suspend(a)
  PROVE  IndInv'
  <1> USE DEF Suspend, worker
  <1>1. TypeOK'
    BY DEF IndInv, TypeOK
  <1>2. BookInv'
    BY BookUnchanged DEF IndInv
  <1>3. ASSUME NEW w \in Worker
        PROVE  WorkerInv(w)'
    <2>1. WorkerInv(w)
      BY DEF IndInv
    <2>2. HasRequest(w)' /\ SeesThePast(w)' /\ HoldsSession(w)' /\ HoldsKey(w)'
      BY <2>1 DEF WorkerInv, HasRequest, SeesThePast, Names, TripOf, HoldsSession, HoldsKey,
                  RecordChanged, RecordOf, Expired
    <2>3. HoldsSeller(w)'
      BY <2>1 DEF WorkerInv, HoldsSeller, Eligibility, SelfOrder, SellerOf, TripOf,
                  InWindow, SellerLocked
    <2>4. HasSampled(w)' /\ HoldsTrip(w)'
      BY <2>1 DEF WorkerInv, InWindow, TripOf, HasSampled, CapacityLeft, HoldsTrip,
                  RowChanged, StillOpen
    <2>5. AnswersTruly(w)'
      BY <2>1 DEF WorkerInv, AnswersTruly, SuccessNamesTheOrder, ConflictMeansKeyReused,
                  SoldOutIsTrue, Answered, FingerprintOf, SameKey, TripOf, Closed
    <2> QED
      BY <2>2, <2>3, <2>4, <2>5 DEF WorkerInv
  <1>4. LocksExclude'
    BY DEF IndInv, LocksExclude, KeyLockedByOther, TripLockedByOther, TripOf
  <1> QED
    BY <1>1, <1>2, <1>3, <1>4 DEF IndInv

-----------------------------------------------------------------------------
\* The commit

LEMMA AtTheCommit ==
  ASSUME NEW w \in Worker, IndInv, pc[w] = "reserved"
  PROVE  /\ request[w] \in Request /\ TripOf(w) \in Trip
         /\ request[w].customer \in Account /\ request[w].key \in Key
         /\ trip[TripOf(w)] = view[w].row
         /\ view[w].row \in Row /\ request[w].terms.units \in Nat
         /\ request[w].terms.units <= view[w].row.remaining
         /\ view[w].observedAt \in Nat /\ view[w].reservedAt \in Nat
         /\ view[w].observedAt <= view[w].reservedAt /\ view[w].reservedAt <= now
         /\ now \in Nat
  <1>1. request[w] \in Request
    BY DEF IndInv, WorkerInv, HasRequest
  <1>2. /\ TripOf(w) \in Trip /\ request[w].terms.units \in Nat
        /\ request[w].customer \in Account /\ request[w].key \in Key
    BY <1>1, RequestFields DEF TripOf
  <1>3. view[w] \in View /\ now \in Nat
    BY DEF IndInv, TypeOK
  <1>4. /\ view[w].row \in Row /\ view[w].row.remaining \in Nat
        /\ view[w].observedAt \in Nat /\ view[w].reservedAt \in Nat
    BY <1>3 DEF View, Row
  <1>5. WorkerInv(w)
    BY DEF IndInv
  <1>6. trip[TripOf(w)] = view[w].row
    BY <1>5 DEF WorkerInv, HoldsTrip, RowChanged
  <1>7. request[w].terms.units <= view[w].row.remaining
    BY <1>2, <1>4, <1>5 DEF WorkerInv, HasSampled, CapacityLeft
  <1>8. view[w].observedAt <= view[w].reservedAt /\ view[w].reservedAt <= now
    BY <1>5 DEF WorkerInv, HasSampled
  <1> QED
    BY <1>1, <1>2, <1>3, <1>4, <1>6, <1>7, <1>8

LEMMA StoredTypes ==
  ASSUME NEW w \in Worker, IndInv, pc[w] = "reserved"
  PROVE  /\ NewOrder(w) \in OrderType
         /\ ReservedRow(w) \in Row
         /\ CompletedRecord(w) \in RecordType
  <1>1. Len(orders) \in Nat /\ Retention \in Nat
    BY BoundsAssumption DEF IndInv, TypeOK
  <1>2. NewOrder(w) \in OrderType
    BY AtTheCommit, RequestFields DEF NewOrder, OrderType, Row, TripOf
  <1>3. ReservedRow(w) \in Row
    BY AtTheCommit DEF ReservedRow, Row
  <1>4. CompletedRecord(w) \in RecordType
    BY <1>1, AtTheCommit, RequestFields
       DEF CompletedRecord, RecordType, FingerprintOf, Fingerprint, TripOf
  <1> QED
    BY <1>2, <1>3, <1>4

LEMMA StoredOrders ==
  ASSUME NEW w \in Worker, IndInv, pc[w] = "reserved", Store(w)
  PROVE  /\ Len(orders) \in Nat /\ Len(orders') = Len(orders) + 1
         /\ orders'[Len(orders) + 1] = NewOrder(w)
         /\ \A i \in 1 .. Len(orders) : orders'[i] = orders[i]
         /\ \A i \in 1 .. Len(orders') : i \in 1 .. Len(orders) \/ i = Len(orders) + 1
  BY StoredTypes DEF Store, IndInv, TypeOK

LEMMA StoredRows ==
  ASSUME NEW w \in Worker, IndInv, pc[w] = "reserved", Store(w)
  PROVE  /\ trip' \in [Trip -> Row]
         /\ trip'[TripOf(w)] = ReservedRow(w)
         /\ \A t \in Trip : t # TripOf(w) => trip'[t] = trip[t]
         /\ \A t \in Trip : trip'[t].remaining <= trip[t].remaining
         /\ record'[request[w].customer][request[w].key] = CompletedRecord(w)
         /\ \A a \in Account, k \in Key :
               a # request[w].customer \/ k # request[w].key => record'[a][k] = record[a][k]
  <1>1. TripOf(w) \in Trip /\ request[w].customer \in Account /\ request[w].key \in Key
    BY AtTheCommit
  <1>2. trip \in [Trip -> Row] /\ record \in [Account -> [Key -> Records]]
    BY DEF IndInv, TypeOK
  <1>3. /\ trip'[TripOf(w)] = ReservedRow(w)
        /\ \A t \in Trip : t # TripOf(w) => trip'[t] = trip[t]
    BY <1>1, <1>2 DEF Store
  <1>4. trip'[TripOf(w)].remaining <= trip[TripOf(w)].remaining
    BY <1>3, AtTheCommit DEF ReservedRow, Row
  <1>5. \A t \in Trip : trip[t].remaining <= trip[t].remaining
    BY <1>2 DEF Row
  <1>6. record'[request[w].customer][request[w].key] = CompletedRecord(w)
    BY <1>1, <1>2 DEF Store
  <1>7. \A a \in Account, k \in Key :
           a # request[w].customer \/ k # request[w].key => record'[a][k] = record[a][k]
    BY <1>1, <1>2 DEF Store
  <1>8. trip' \in [Trip -> Row]
    BY <1>1, <1>2, StoredTypes DEF Store
  <1> QED
    BY <1>3, <1>4, <1>5, <1>6, <1>7, <1>8

\* an order whose idempotency row names it keeps being named
LEMMA NamesStored ==
  ASSUME NEW w \in Worker, IndInv, pc[w] = "reserved", Store(w),
         NEW r, NEW a, NEW k, Names(r, a, k)
  PROVE  /\ r.order \in 1 .. Len(orders')
         /\ orders'[r.order].customer = a
         /\ orders'[r.order].key = k
         /\ r.fingerprint = <<orders'[r.order].trip, orders'[r.order].terms>>
         /\ r.expiresAt = orders'[r.order].submittedAt + Retention
  <1>1. r.order \in 1 .. Len(orders)
    BY DEF Names
  <1>2. orders'[r.order] = orders[r.order] /\ r.order \in 1 .. Len(orders')
    BY <1>1, StoredOrders
  <1> QED
    BY <1>2 DEF Names

\* what the customer bought before with this key, if anything, has expired
LEMMA EarlierOrdersExpired ==
  ASSUME NEW w \in Worker, IndInv, pc[w] = "reserved", ~KeyTaken(w),
         NEW i \in 1 .. Len(orders), SameKey(orders[i], request[w])
  PROVE  orders[i].submittedAt + Retention <= view[w].reservedAt
  <1> DEFINE r == RecordOf(w)
  <1>1. /\ r # NoRecord
        /\ \/ i = r.order
           \/ orders[i].submittedAt + Retention <= orders[r.order].submittedAt
    BY DEF IndInv, BookInv, OrdersAreRecorded, SameKey, RecordOf
  <1>2. view[w].record # NoRecord
    BY <1>1 DEF KeyTaken
  <1>3. view[w].record = r /\ r.expiresAt <= view[w].observedAt
    BY <1>2 DEF IndInv, WorkerInv, HoldsKey, RecordChanged, Expired, Claimed
  <1>4. r.order \in 1 .. Len(orders) /\ r.expiresAt = orders[r.order].submittedAt + Retention
    <2>1. Names(r, request[w].customer, request[w].key)
      BY <1>1, AtTheCommit DEF IndInv, BookInv, RecordsNameOrders, RecordOf
    <2> HIDE DEF r
    <2> QED
      BY <2>1 DEF Names
  <1>5. orders[i].submittedAt \in Nat /\ orders[r.order].submittedAt \in Nat
    BY <1>4, OrdersType DEF IndInv, OrderType
  <1>6. Retention \in Nat
    BY BoundsAssumption
  <1>7. /\ view[w].observedAt \in Nat /\ view[w].reservedAt \in Nat
        /\ view[w].observedAt <= view[w].reservedAt
    BY AtTheCommit
  <1>8. orders[r.order].submittedAt + Retention <= view[w].reservedAt
    <2>1. ASSUME NEW x \in Nat, NEW y \in Nat, NEW z \in Nat, x <= y, y <= z
          PROVE  x <= z
      BY <2>1
    <2>2. r.expiresAt \in Nat
      BY <1>4, <1>5, <1>6
    <2>3. r.expiresAt <= view[w].reservedAt
      BY <1>3, <1>7, <2>1, <2>2
    <2> QED
      BY <1>4, <2>3
  <1>9. CASE i = r.order
    BY <1>8, <1>9
  <1>10. CASE orders[i].submittedAt + Retention <= orders[r.order].submittedAt
    <2>1. ASSUME NEW x \in Nat, NEW y \in Nat, NEW z \in Nat,
                 x <= y, y + Retention <= z
          PROVE  x <= z
      BY <1>6, <2>1
    <2>2. orders[i].submittedAt + Retention \in Nat
      BY <1>5, <1>6
    <2> QED
      BY <1>5, <1>7, <1>8, <1>10, <2>1, <2>2
  <1> QED
    BY <1>1, <1>9, <1>10

LEMMA StoreKeepsBook ==
  ASSUME NEW w \in Worker, IndInv, pc[w] = "reserved", ~KeyTaken(w), Store(w)
  PROVE  BookInv'
  <1> DEFINE n == Len(orders)
  <1>1. BookInv /\ TypeOK /\ n \in Nat
    BY DEF IndInv, TypeOK
  <1>2. /\ Len(orders') = n + 1 /\ orders'[n + 1] = NewOrder(w)
        /\ \A i \in 1 .. n : orders'[i] = orders[i]
        /\ \A i \in 1 .. n + 1 : i \in 1 .. n \/ i = n + 1
    BY StoredOrders
  <1>3. \A i \in 1 .. n : orders[i] \in OrderType
    BY <1>1, OrdersType
  <1>4. RecordsNameOrders'
    <2> SUFFICES ASSUME NEW a \in Account, NEW k \in Key, record'[a][k] # NoRecord
                 PROVE  Names(record[a][k], a, k)'
      BY DEF RecordsNameOrders
    <2>1. CASE a = request[w].customer /\ k = request[w].key
      <3>1. record'[a][k] = CompletedRecord(w)
        BY <2>1, StoredRows
      <3>2. /\ record'[a][k].fingerprint = <<TripOf(w), request[w].terms>>
            /\ record'[a][k].order = n + 1
            /\ record'[a][k].expiresAt = view[w].reservedAt + Retention
        BY <3>1 DEF CompletedRecord, FingerprintOf, TripOf
      <3>3. /\ orders'[n + 1].customer = a /\ orders'[n + 1].key = k
            /\ orders'[n + 1].trip = TripOf(w) /\ orders'[n + 1].terms = request[w].terms
            /\ orders'[n + 1].submittedAt = view[w].reservedAt
        BY <1>2, <2>1 DEF NewOrder
      <3>4. n + 1 \in 1 .. Len(orders')
        BY <1>1, <1>2
      <3> QED
        BY <3>2, <3>3, <3>4 DEF Names
    <2>2. CASE a # request[w].customer \/ k # request[w].key
      <3>1. record'[a][k] = record[a][k] /\ Names(record[a][k], a, k)
        BY <1>1, <2>2, StoredRows DEF BookInv, RecordsNameOrders
      <3> DEFINE r == record[a][k]
      <3>2. /\ r.order \in 1 .. Len(orders')
            /\ orders'[r.order].customer = a
            /\ orders'[r.order].key = k
            /\ r.fingerprint = <<orders'[r.order].trip, orders'[r.order].terms>>
            /\ r.expiresAt = orders'[r.order].submittedAt + Retention
        BY <3>1, NamesStored
      <3> QED
        BY <3>1, <3>2 DEF Names
    <2> QED
      BY <2>1, <2>2
  <1>5. OrdersAreRecorded'
    <2> SUFFICES ASSUME NEW i \in 1 .. n + 1
                 PROVE  LET r == record'[orders'[i].customer][orders'[i].key]
                        IN  /\ r # NoRecord
                            /\ \/ i = r.order
                               \/ /\ i < r.order
                                  /\ orders'[i].submittedAt + Retention
                                        <= orders'[r.order].submittedAt
      BY <1>2 DEF OrdersAreRecorded
    <2>1. CompletedRecord(w) # NoRecord /\ CompletedRecord(w).order = n + 1
      BY StoredTypes, AbsenceAssumption DEF CompletedRecord
    <2>2. record'[request[w].customer][request[w].key] = CompletedRecord(w)
      BY StoredRows
    <2>3. CASE i = n + 1
      <3>1. orders'[i].customer = request[w].customer /\ orders'[i].key = request[w].key
        BY <1>2, <2>3 DEF NewOrder
      <3> QED
        BY <2>1, <2>2, <2>3, <3>1
    <2>4. CASE i \in 1 .. n /\ SameKey(orders[i], request[w])
      <3>1. orders[i].submittedAt + Retention <= view[w].reservedAt
        BY <2>4, EarlierOrdersExpired
      <3>2. orders'[n + 1].submittedAt = view[w].reservedAt
        BY <1>2 DEF NewOrder
      <3>3. i < n + 1
        BY <1>1, <2>4
      <3> QED
        BY <1>2, <2>1, <2>2, <2>4, <3>1, <3>2, <3>3 DEF SameKey
    <2>5. CASE i \in 1 .. n /\ ~SameKey(orders[i], request[w])
      <3> DEFINE r == record[orders[i].customer][orders[i].key]
      <3>1. orders[i].customer \in Account /\ orders[i].key \in Key
        BY <1>3, <2>5 DEF OrderType
      <3>2. record'[orders[i].customer][orders[i].key] = r
        BY <2>5, <3>1, StoredRows DEF SameKey
      <3>3. /\ r # NoRecord
            /\ \/ i = r.order
               \/ /\ i < r.order
                  /\ orders[i].submittedAt + Retention <= orders[r.order].submittedAt
        BY <1>1, <2>5 DEF BookInv, OrdersAreRecorded
      <3>4. r.order \in 1 .. n
        BY <1>1, <3>1, <3>3 DEF BookInv, RecordsNameOrders, Names
      <3>5. orders'[i] = orders[i] /\ orders'[r.order] = orders[r.order]
        BY <1>2, <2>5, <3>4
      <3> HIDE DEF r
      <3> QED
        BY <3>2, <3>3, <3>5
    <2> QED
      BY <1>2, <2>3, <2>4, <2>5
  <1>6. OrdersArePast'
    <2>1. NewOrder(w).submittedAt <= now /\ now' = now
      BY AtTheCommit DEF NewOrder, Store
    <2> QED
      BY <1>1, <1>2, <2>1 DEF BookInv, OrdersArePast
  <1>7. OneOrderPerRevision'
    <2>1. /\ NewOrder(w).trip = TripOf(w) /\ TripOf(w) \in Trip
          /\ NewOrder(w).version = trip[TripOf(w)].version
          /\ trip[TripOf(w)].version \in Nat
          /\ trip'[TripOf(w)].version = trip[TripOf(w)].version + 1
      <3>1. trip'[TripOf(w)] = ReservedRow(w)
        BY StoredRows
      <3>2. trip[TripOf(w)] = view[w].row /\ view[w].row \in Row /\ TripOf(w) \in Trip
        BY AtTheCommit
      <3> QED
        BY <3>1, <3>2 DEF NewOrder, ReservedRow, Row
    <2>2. \A i \in 1 .. n :
             /\ orders[i].trip \in Trip /\ orders[i].version \in Nat
             /\ orders[i].version < trip[orders[i].trip].version
             /\ trip'[orders[i].trip].version = trip[orders[i].trip].version
                 \/ orders[i].trip = TripOf(w)
      BY <1>1, <1>3, StoredRows DEF BookInv, OneOrderPerRevision, OrderType
    <2>3. \A i \in 1 .. n + 1 : orders'[i].version < trip'[orders'[i].trip].version
      <3>1. ASSUME NEW i \in 1 .. n
            PROVE  orders[i].version < trip'[orders[i].trip].version
        BY <2>1, <2>2
      <3>2. orders'[n + 1].version < trip'[orders'[n + 1].trip].version
        BY <1>2, <2>1
      <3> QED
        BY <1>2, <3>1, <3>2
    <2>4. \A i, j \in 1 .. n + 1 :
             i # j /\ orders'[i].trip = orders'[j].trip
                => orders'[i].version # orders'[j].version
      <3>1. ASSUME NEW i \in 1 .. n, orders'[i].trip = orders'[n + 1].trip
            PROVE  orders'[i].version # orders'[n + 1].version
        <4>1. /\ orders'[i] = orders[i] /\ orders[i].trip = TripOf(w)
              /\ orders'[n + 1].version = trip[TripOf(w)].version
          BY <1>2, <2>1, <3>1
        <4>2. /\ orders[i].version \in Nat /\ trip[TripOf(w)].version \in Nat
              /\ orders[i].version < trip[TripOf(w)].version
          BY <2>1, <2>2, <4>1
        <4> QED
          BY <4>1, <4>2
      <3>2. ASSUME NEW i \in 1 .. n, NEW j \in 1 .. n, i # j,
                   orders'[i].trip = orders'[j].trip
            PROVE  orders'[i].version # orders'[j].version
        BY <1>1, <1>2, <3>2 DEF BookInv, OneOrderPerRevision
      <3> QED
        BY <1>2, <3>1, <3>2
    <2> QED
      BY <1>2, <2>3, <2>4 DEF OneOrderPerRevision
  <1>8. OneOrderPerKey'
    <2> SUFFICES ASSUME NEW i \in 1 .. n + 1, NEW j \in 1 .. n + 1, i < j,
                        SameKey(orders'[i], orders'[j])
                 PROVE  orders'[i].submittedAt + Retention <= orders'[j].submittedAt
      BY <1>2 DEF OneOrderPerKey, SameKey
    <2>1. i \in 1 .. n /\ orders'[i] = orders[i]
      BY <1>1, <1>2
    <2>2. CASE j = n + 1
      BY <1>2, <2>1, <2>2, EarlierOrdersExpired DEF SameKey, NewOrder
    <2>3. CASE j \in 1 .. n
      BY <1>1, <1>2, <2>1, <2>3 DEF BookInv, OneOrderPerKey
    <2> QED
      BY <1>2, <2>2, <2>3
  <1> QED
    BY <1>4, <1>5, <1>6, <1>7, <1>8 DEF BookInv

LEMMA StoreKeepsOthers ==
  ASSUME NEW w \in Worker, IndInv, pc[w] = "reserved", Store(w), Moves(w),
         NEW v \in Worker \ {w}
  PROVE  WorkerInv(v)'
  <1> USE DEF Moves
  <1>1. WorkerInv(v) /\ now' = now /\ selling' = selling
    BY DEF IndInv, Store
  <1>2. HasRequest(v)'
    BY <1>1 DEF WorkerInv, HasRequest
  <1>3. ASSUME pc[v] # "idle"
        PROVE  /\ TripOf(v) \in Trip /\ request[v].customer \in Account
               /\ request[v].key \in Key /\ request[v].terms.units \in Nat
    BY <1>1, <1>3, RequestFields DEF WorkerInv, HasRequest, TripOf
  <1>4. SeesThePast(v)'
    <2> SUFFICES ASSUME pc[v] \in InTransaction
                 PROVE  SeesThePast(v)'
      BY DEF SeesThePast
    <2>1. TripOf(v) \in Trip
      BY <1>3 DEF InTransaction, Claimed
    <2>2. /\ trip[TripOf(v)].remaining \in Nat /\ trip'[TripOf(v)].remaining \in Nat
          /\ view[v].row.remaining \in Nat
      BY <2>1, StoredRows DEF IndInv, TypeOK, View, Row
    <2>3. trip'[TripOf(v)].remaining <= view[v].row.remaining
      BY <1>1, <2>1, <2>2, StoredRows DEF WorkerInv, SeesThePast
    <2>4. view[v].record # NoRecord => Names(view[v].record, request[v].customer, request[v].key)
      BY <1>1 DEF WorkerInv, SeesThePast
    <2>5. view[v].observedAt <= now
      BY <1>1 DEF WorkerInv, SeesThePast
    <2> QED
      <3>1. (view[v].record # NoRecord
                => Names(view[v].record, request[v].customer, request[v].key))'
        <4> DEFINE r == view[v].record
                   c == request[v].customer
                   k == request[v].key
        <4> SUFFICES ASSUME r # NoRecord
                     PROVE  Names(r, c, k)'
          OBVIOUS
        <4>1. Names(r, c, k)
          BY <2>4
        <4>2. /\ r.order \in 1 .. Len(orders')
              /\ orders'[r.order].customer = c
              /\ orders'[r.order].key = k
              /\ r.fingerprint = <<orders'[r.order].trip, orders'[r.order].terms>>
              /\ r.expiresAt = orders'[r.order].submittedAt + Retention
          BY <4>1, NamesStored
        <4> QED
          BY <4>2 DEF Names
      <3> QED
        BY <1>1, <2>3, <2>5, <3>1 DEF SeesThePast, TripOf
  <1>5. HoldsKey(v)'
    <2> SUFFICES ASSUME pc[v] \in Claimed, view[v].record # NoRecord
                 PROVE  HoldsKey(v)'
      BY DEF HoldsKey
    <2>1. request[v].customer # request[w].customer \/ request[v].key # request[w].key
      BY DEF IndInv, LocksExclude, KeyLockedByOther, Claimed
    <2>2. request[v].customer \in Account /\ request[v].key \in Key
      BY <1>3 DEF Claimed
    <2>3. RecordOf(v)' = RecordOf(v)
      BY <2>1, <2>2, StoredRows DEF RecordOf
    <2> QED
      BY <1>1, <2>3 DEF WorkerInv, HoldsKey, RecordChanged, Expired
  <1>6. HoldsSession(v)' /\ HoldsSeller(v)'
    BY <1>1 DEF WorkerInv, HoldsSession, HoldsSeller, Eligibility, SelfOrder, SellerOf, TripOf, InWindow
  <1>7. HasSampled(v)'
    BY <1>1 DEF WorkerInv, HasSampled, CapacityLeft
  <1>8. HoldsTrip(v)'
    <2> SUFFICES ASSUME pc[v] = "reserved"
                 PROVE  HoldsTrip(v)'
      BY DEF HoldsTrip
    <2>1. TripOf(v) # TripOf(w) /\ TripOf(v) \in Trip
      BY <1>3 DEF IndInv, LocksExclude, TripLockedByOther
    <2>2. trip'[TripOf(v)] = trip[TripOf(v)]
      BY <2>1, StoredRows
    <2> QED
      BY <1>1, <2>2 DEF WorkerInv, HoldsTrip, RowChanged, StillOpen, TripOf, InWindow
  <1>9. AnswersTruly(v)'
    <2> SUFFICES ASSUME pc[v] = "answered"
                 PROVE  AnswersTruly(v)'
      BY DEF AnswersTruly, SuccessNamesTheOrder, ConflictMeansKeyReused, SoldOutIsTrue,
             Answered
    <2>1. SuccessNamesTheOrder(v)'
      BY <1>1, StoredOrders DEF WorkerInv, AnswersTruly, SuccessNamesTheOrder, Answered
    <2>2. ConflictMeansKeyReused(v)'
      BY <1>1, StoredOrders DEF WorkerInv, AnswersTruly, ConflictMeansKeyReused, Answered,
                                SameKey, FingerprintOf
    <2>3. SoldOutIsTrue(v)'
      <3>1. TripOf(v) \in Trip /\ request[v].terms.units \in Nat
        BY <1>3
      <3>2. trip[TripOf(v)].remaining \in Nat /\ trip'[TripOf(v)].remaining \in Nat
        BY <3>1, StoredRows DEF IndInv, TypeOK, Row
      <3>3. trip'[TripOf(v)].remaining <= trip[TripOf(v)].remaining
        BY <3>1, StoredRows
      <3>4. SoldOutIsTrue(v)
        BY <1>1 DEF WorkerInv, AnswersTruly
      <3> QED
        BY <3>1, <3>2, <3>3, <3>4 DEF SoldOutIsTrue, Answered, TripOf
    <2>4. (Answered(v, {"OFFER_REVISION_STALE"}) => Closed(TripOf(v)))'
      BY <1>1 DEF WorkerInv, AnswersTruly, Answered, Closed, TripOf
    <2> QED
      BY <2>1, <2>2, <2>3, <2>4 DEF AnswersTruly
  <1> QED
    BY <1>2, <1>4, <1>5, <1>6, <1>7, <1>8, <1>9 DEF WorkerInv

LEMMA StoreStep ==
  ASSUME NEW w \in Worker, IndInv, pc[w] = "reserved", ~KeyTaken(w), Store(w),
         \/ Reply(w, "ACCEPTED", Len(orders) + 1)
         \/ Reply(w, "UNAVAILABLE", 0)
  PROVE  IndInv'
  <1> DEFINE n == Len(orders)
  <1>1. /\ n \in Nat /\ TypeOK
        /\ pc'[w] = "answered" /\ request' = request /\ Moves(w)
        /\ \/ answer'[w] = [outcome |-> "ACCEPTED", order |-> n + 1]
           \/ answer'[w] = [outcome |-> "UNAVAILABLE", order |-> 0]
    BY DEF Reply, Moves, IndInv, TypeOK
  <1>2. TypeOK'
    <2>1. /\ pc' \in [Worker -> Place]
          /\ attempt' \in [Worker -> 0 .. MaxAttempts]
          /\ request' \in [Worker -> Request \cup {NoRequest}]
          /\ view' \in [Worker -> View]
          /\ answer' \in [Worker -> Answer]
      BY <1>1, ReplyType DEF Outcome
    <2>2. orders' \in Seq(OrderType) /\ trip' \in [Trip -> Row]
      <3>1. orders \in Seq(OrderType) /\ NewOrder(w) \in OrderType
        BY <1>1, StoredTypes DEF TypeOK
      <3>2. orders' = Append(orders, NewOrder(w))
        BY DEF Store
      <3>3. orders' \in Seq(OrderType)
        BY <3>1, <3>2
      <3> QED
        BY <3>3, StoredRows
    <2>3. record' \in [Account -> [Key -> Records]]
      BY <1>1, StoredTypes, AtTheCommit DEF Store, TypeOK, Records
    <2> QED
      BY <1>1, <2>1, <2>2, <2>3 DEF Store, TypeOK
  <1>3. BookInv'
    BY StoreKeepsBook
  <1>4. WorkerInv(w)'
    <2>1. HasRequest(w)'
      BY <1>1, AtTheCommit DEF HasRequest
    <2>2. request[w] = [customer |-> request[w].customer, key |-> request[w].key,
                        trip |-> request[w].trip, terms |-> request[w].terms]
      BY AtTheCommit, RequestFields DEF RequestType
    <2>3. SuccessNamesTheOrder(w)'
      <3> SUFFICES ASSUME answer'[w].outcome \in {"ACCEPTED", "REPLAYED"}
                   PROVE  SuccessNamesTheOrder(w)'
        BY DEF SuccessNamesTheOrder, Answered
      <3>1. answer'[w].order = n + 1
        BY <1>1
      <3>2. n + 1 \in 1 .. Len(orders') /\ orders'[n + 1] = NewOrder(w)
        BY <1>1, StoredOrders
      <3>3. request'[w] = [customer |-> orders'[n + 1].customer, key |-> orders'[n + 1].key,
                           trip |-> orders'[n + 1].trip, terms |-> orders'[n + 1].terms]
        BY <1>1, <2>2, <3>2 DEF NewOrder, TripOf
      <3> QED
        BY <3>1, <3>2, <3>3 DEF SuccessNamesTheOrder
    <2>4. AnswersTruly(w)'
      BY <1>1, <2>3 DEF AnswersTruly, ConflictMeansKeyReused, SoldOutIsTrue, Answered
    <2> QED
      BY <1>1, <2>1, <2>4 DEF WorkerInv, SeesThePast, HoldsSession, HoldsKey, HoldsSeller,
         HasSampled, HoldsTrip, InTransaction, Claimed
  <1>5. \A v \in Worker : WorkerInv(v)'
    BY <1>1, <1>4, StoreKeepsOthers
  <1>6. LocksExclude'
    BY <1>1, ExclusionStep DEF IndInv, Claimed
  <1> QED
    BY <1>2, <1>3, <1>5, <1>6 DEF IndInv

-----------------------------------------------------------------------------
\* The invariant

LEMMA InitInv == Init => IndInv
  <1> SUFFICES ASSUME Init
               PROVE  IndInv
    OBVIOUS
  <1> USE DEF Init
  <1>1. TypeOK
    <2>1. trip \in [Trip -> Row]
      BY CapacityAssumption DEF Row
    <2>2. selling \subseteq Account
      BY OfferAssumption DEF OfferType
    <2>3. attempt \in [Worker -> 0 .. MaxAttempts]
      BY BoundsAssumption
    <2>4. view \in [Worker -> View]
      BY EmptyViewType
    <2> QED
      BY <2>1, <2>2, <2>3, <2>4 DEF TypeOK, Records, Place, NoAnswer, Answer
  <1>2. BookInv
    BY DEF BookInv, RecordsNameOrders, OrdersAreRecorded, OrdersArePast,
           OneOrderPerRevision, OneOrderPerKey
  <1>3. \A w \in Worker : WorkerInv(w)
    BY DEF WorkerInv, HasRequest, SeesThePast, HoldsSession, HoldsKey, HoldsSeller,
           HasSampled, HoldsTrip, AnswersTruly, SuccessNamesTheOrder, ConflictMeansKeyReused, SoldOutIsTrue,
           Answered, InTransaction, Claimed
  <1>4. LocksExclude
    BY DEF LocksExclude, Claimed
  <1> QED
    BY <1>1, <1>2, <1>3, <1>4 DEF IndInv

LEMMA StutterInv ==
  ASSUME IndInv, UNCHANGED vars
  PROVE  IndInv'
  <1> USE DEF vars, database, worker
  <1>1. TypeOK' /\ BookInv'
    BY BookUnchanged DEF IndInv, TypeOK
  <1>2. ASSUME NEW w \in Worker
        PROVE  WorkerInv(w)'
    <2>1. WorkerInv(w)
      BY DEF IndInv
    <2>2. HasRequest(w)' /\ SeesThePast(w)' /\ HoldsSession(w)' /\ HoldsKey(w)'
      BY <2>1 DEF WorkerInv, HasRequest, SeesThePast, Names, TripOf, HoldsSession, HoldsKey,
                  RecordChanged, RecordOf, Expired
    <2>3. HoldsSeller(w)' /\ HasSampled(w)' /\ HoldsTrip(w)'
      BY <2>1 DEF WorkerInv, HoldsSeller, Eligibility, SelfOrder, SellerOf, TripOf,
                  InWindow, HasSampled, CapacityLeft, HoldsTrip, RowChanged, StillOpen
    <2>4. AnswersTruly(w)'
      BY <2>1 DEF WorkerInv, AnswersTruly, SuccessNamesTheOrder, ConflictMeansKeyReused,
                  SoldOutIsTrue, Answered, FingerprintOf, SameKey, TripOf, Closed
    <2> QED
      BY <2>2, <2>3, <2>4 DEF WorkerInv
  <1>3. LocksExclude'
    BY DEF IndInv, LocksExclude, KeyLockedByOther, TripLockedByOther, TripOf
  <1> QED
    BY <1>1, <1>2, <1>3 DEF IndInv

LEMMA NextInv == IndInv /\ [Next]_vars => IndInv'
  <1> SUFFICES ASSUME IndInv, [Next]_vars
               PROVE  IndInv'
    OBVIOUS
  <1>1. ASSUME NEW w \in Worker, NEW r \in Request, Submit(w, r)
        PROVE  IndInv'
    BY <1>1, SubmitStep
  <1>2. ASSUME NEW w \in Worker, Begin(w)
        PROVE  IndInv'
    BY <1>2, BeginStep
  <1>3. ASSUME NEW w \in Worker, Authenticate(w)
        PROVE  IndInv'
    BY <1>3, AuthenticateStep
  <1>4. ASSUME NEW w \in Worker, Claim(w)
        PROVE  IndInv'
    BY <1>4, ClaimStep
  <1>5. ASSUME NEW w \in Worker, LockSeller(w)
        PROVE  IndInv'
    BY <1>5, LockSellerStep
  <1>6. ASSUME NEW w \in Worker, Sample(w)
        PROVE  IndInv'
    BY <1>6, SampleStep
  <1>7. ASSUME NEW w \in Worker, Reserve(w)
        PROVE  IndInv'
    BY <1>7, ReserveStep
  <1>8. ASSUME NEW w \in Worker, Persist(w)
        PROVE  IndInv'
    BY <1>8, ConflictStep, StoreStep DEF Persist
  <1>9. ASSUME NEW w \in Worker, Return(w)
        PROVE  IndInv'
    BY <1>9, ForgetStep DEF Return
  <1>10. ASSUME NEW w \in Worker, Failure(w)
         PROVE  IndInv'
    <2>1. CASE Conflict(w) /\ pc[w] # "idle"
      BY <2>1, ConflictStep
    <2>2. CASE Deny(w, "UNAVAILABLE") /\ pc[w] # "idle"
      BY <2>2, DenyStep DEF Outcome
    <2>3. CASE Forget(w)
      BY <2>3, ForgetStep
    <2> QED
      BY <1>10, <2>1, <2>2, <2>3
         DEF Failure, SerializationFailure, TransactionLost, Crash, InTransaction, Claimed
  <1>11. CASE Tick
    BY <1>11, TickStep
  <1>12. ASSUME NEW a \in Unsteady, EndSession(a) \/ Suspend(a)
         PROVE  IndInv'
    BY <1>12, BoundsAssumption, EndSessionStep, SuspendStep
  <1>13. CASE UNCHANGED vars
    BY <1>13, StutterInv
  <1> QED
    BY <1>1, <1>2, <1>3, <1>4, <1>5, <1>6, <1>7, <1>8, <1>9, <1>10, <1>11, <1>12, <1>13
       DEF Next, Step, Environment

(***************************************************************************)
(* IndInv holds in every reachable state: what the tables say of each      *)
(* other, and what an open transaction may rely on of its snapshot.        *)
(***************************************************************************)
THEOREM Invariance == Spec => []IndInv
  BY InitInv, NextInv, PTL DEF Spec

(***************************************************************************)
(* Every variable keeps its type; no trip's capacity ever falls below      *)
(* zero, however many orders race for it.                                  *)
(***************************************************************************)
THEOREM TypeCorrect == Spec => []TypeOK
  <1>1. IndInv => TypeOK
    BY DEF IndInv
  <1> QED
    BY <1>1, Invariance, PTL

(***************************************************************************)
(* Concurrent reservations of one trip are serialized by its version: no   *)
(* revision of an offer is sold twice.                                     *)
(***************************************************************************)
THEOREM RevisionsSoldOnce == Spec => []OneOrderPerRevision
  <1>1. IndInv => OneOrderPerRevision
    BY DEF IndInv, BookInv
  <1> QED
    BY <1>1, Invariance, PTL

(***************************************************************************)
(* A key buys at most once in a retention period, whatever is retried,     *)
(* resubmitted or concurrent.                                              *)
(***************************************************************************)
THEOREM KeysBuyOnce == Spec => []OneOrderPerKey
  <1>1. IndInv => OneOrderPerKey
    BY DEF IndInv, BookInv
  <1> QED
    BY <1>1, Invariance, PTL

(***************************************************************************)
(* A retained order can be replayed: its idempotency row is there, names   *)
(* it and its terms, and does not expire early.                            *)
(***************************************************************************)
THEOREM RetainedReplay == Spec => []RetainedOrdersReplay
  <1>1. ASSUME IndInv
        PROVE  RetainedOrdersReplay
    <2> SUFFICES ASSUME NEW i \in 1 .. Len(orders), now < orders[i].submittedAt + Retention
                 PROVE  record[orders[i].customer][orders[i].key]
                          = [fingerprint |-> <<orders[i].trip, orders[i].terms>>, order |-> i,
                             expiresAt |-> orders[i].submittedAt + Retention]
      BY DEF RetainedOrdersReplay
    <2> DEFINE r == record[orders[i].customer][orders[i].key]
    <2>1. orders[i] \in OrderType
      BY <1>1, OrdersType DEF IndInv
    <2>2. /\ r # NoRecord
          /\ i = r.order \/ orders[i].submittedAt + Retention <= orders[r.order].submittedAt
      BY <1>1 DEF IndInv, BookInv, OrdersAreRecorded
    <2>3. Names(r, orders[i].customer, orders[i].key) /\ r \in RecordType
      BY <1>1, <2>1, <2>2 DEF IndInv, TypeOK, BookInv, RecordsNameOrders, OrderType, Records
    <2>4. orders[r.order].submittedAt <= now /\ orders[r.order].submittedAt \in Nat
      BY <1>1, <2>3, OrdersType DEF IndInv, BookInv, OrdersArePast, Names, OrderType
    <2>5. orders[i].submittedAt + Retention \in Nat /\ now \in Nat
      BY <1>1, <2>1, BoundsAssumption DEF IndInv, TypeOK, OrderType
    <2>6. i = r.order
      <3>1. ASSUME NEW x \in Nat, NEW y \in Nat, NEW z \in Nat, x <= y, y <= z
            PROVE  ~(z < x)
        BY <3>1
      <3> QED
        BY <2>2, <2>4, <2>5, <3>1
    <2> QED
      BY <2>3, <2>6 DEF Names, RecordType
  <1> QED
    BY <1>1, Invariance, PTL

(***************************************************************************)
(* What a worker answers is true: success names the committed order that   *)
(* was asked for, a key conflict means the key bought something else, and  *)
(* sold out stays so.                                                      *)
(***************************************************************************)
THEOREM AnswersAreHonest == Spec => []HonestAnswers
  <1>1. IndInv => HonestAnswers
    BY DEF IndInv, WorkerInv, AnswersTruly, HonestAnswers
  <1> QED
    BY <1>1, Invariance, PTL

(***************************************************************************)
(* A stale revision is reported only once ordering has closed, never       *)
(* because another customer's order moved the offer on.                    *)
(***************************************************************************)
THEOREM StaleIsClosed == Spec => []StaleMeansClosed
  <1>1. ASSUME IndInv
        PROVE  StaleMeansClosed
    <2> SUFFICES ASSUME NEW w \in Worker, Answered(w, {"OFFER_REVISION_STALE"})
                 PROVE  ~InWindow(TripOf(w), now)
      BY DEF StaleMeansClosed
    <2>1. Offer[TripOf(w)].closes <= now /\ request[w] \in Request
      BY <1>1 DEF IndInv, WorkerInv, AnswersTruly, Closed, HasRequest, Answered
    <2>2. Offer[TripOf(w)].closes \in Nat /\ now \in Nat
      BY <1>1, <2>1, RequestFields DEF IndInv, TypeOK, TripOf
    <2> QED
      BY <2>1, <2>2 DEF InWindow
  <1> QED
    BY <1>1, Invariance, PTL

-----------------------------------------------------------------------------
\* The steps that change the database, and what they are to the order book

LEMMA WhatChangesTheDatabase ==
  ASSUME [Next]_vars
  PROVE  \/ UNCHANGED database
         \/ \E w \in Worker : pc[w] = "reserved" /\ ~KeyTaken(w) /\ Store(w)
         \/ Tick
         \/ \E a \in Unsteady : EndSession(a) \/ Suspend(a)
  <1>1. ASSUME NEW w \in Worker, Conflict(w)
        PROVE  UNCHANGED database
    BY <1>1 DEF Conflict, Deny
  <1>2. ASSUME NEW w \in Worker, NEW r \in Request, Submit(w, r)
        PROVE  UNCHANGED database
    BY <1>2 DEF Submit
  <1>3. ASSUME NEW w \in Worker, Begin(w) \/ Authenticate(w)
        PROVE  UNCHANGED database
    BY <1>3 DEF Begin, Authenticate, Deny
  <1>4. ASSUME NEW w \in Worker, Claim(w)
        PROVE  UNCHANGED database
    BY <1>1, <1>4 DEF Claim, Deny
  <1>5. ASSUME NEW w \in Worker, LockSeller(w) \/ Sample(w) \/ Reserve(w)
        PROVE  UNCHANGED database
    BY <1>1, <1>5 DEF LockSeller, Sample, Reserve, MovedOn, Deny
  <1>6. ASSUME NEW w \in Worker, Persist(w), ~UNCHANGED database
        PROVE  pc[w] = "reserved" /\ ~KeyTaken(w) /\ Store(w)
    BY <1>1, <1>6 DEF Persist
  <1>7. ASSUME NEW w \in Worker, Return(w) \/ Failure(w)
        PROVE  UNCHANGED database
    BY <1>1, <1>7 DEF Return, Failure, SerializationFailure, TransactionLost, Crash,
                      Forget, Deny
  <1>8. UNCHANGED vars => UNCHANGED database
    BY DEF vars
  <1> QED
    BY <1>2, <1>3, <1>4, <1>5, <1>6, <1>7, <1>8 DEF Next, Step, Environment

\* The desks: who is admitted changes only by a worker's step, and for that worker

AtDesk(w) == pc[w] \in InTransaction /\ view[w].current
Ticket(w) == <<w, request[w].customer>>

LEMMA SameDesks ==
  ASSUME \A v \in Worker : AtDesk(v)' = AtDesk(v) /\ (AtDesk(v) => request'[v] = request[v])
  PROVE  Admitted' = Admitted
  <1>1. ASSUME NEW x
        PROVE  x \in Admitted' <=> x \in Admitted
    BY DEF Admitted, AtDesk
  <1> QED
    BY <1>1

LEMMA DeskLeft ==
  ASSUME NEW w \in Worker, Moves(w), ~AtDesk(w)'
  PROVE  Admitted' = Admitted \ {Ticket(w)}
  <1>1. \A v \in Worker \ {w} : AtDesk(v)' = AtDesk(v) /\ request'[v] = request[v]
    BY DEF Moves, AtDesk
  <1>2. ASSUME NEW x
        PROVE  x \in Admitted' <=> x \in Admitted /\ x # Ticket(w)
    BY <1>1 DEF Admitted, AtDesk, Ticket
  <1> QED
    BY <1>2

LEMMA DeskTaken ==
  ASSUME NEW w \in Worker, Moves(w), AtDesk(w)', request'[w] = request[w]
  PROVE  Admitted' = Admitted \cup {Ticket(w)}
  <1>1. \A v \in Worker \ {w} : AtDesk(v)' = AtDesk(v) /\ request'[v] = request[v]
    BY DEF Moves, AtDesk
  <1>2. ASSUME NEW x
        PROVE  x \in Admitted' <=> x \in Admitted \/ x = Ticket(w)
    <2>1. ASSUME x \in Admitted'
          PROVE  x \in Admitted \/ x = Ticket(w)
      BY <1>1, <2>1 DEF Admitted, AtDesk, Ticket
    <2>2. ASSUME x \in Admitted
          PROVE  x \in Admitted'
      BY <1>1, <2>2 DEF Admitted, AtDesk
    <2>3. ASSUME x = Ticket(w)
          PROVE  x \in Admitted'
      BY <2>3 DEF Admitted, AtDesk, Ticket
    <2> QED
      BY <2>1, <2>2, <2>3
  <1> QED
    BY <1>2

LEMMA Replying ==
  ASSUME NEW w \in Worker, TypeOK, NEW outcome, NEW order, Reply(w, outcome, order)
  PROVE  Moves(w) /\ pc'[w] \notin InTransaction
  BY DEF Reply, Moves, TypeOK, InTransaction, Claimed

LEMMA GivingUp ==
  ASSUME NEW w \in Worker, TypeOK, Conflict(w)
  PROVE  Moves(w) /\ pc'[w] \notin InTransaction /\ UNCHANGED database
  <1>1. CASE Deny(w, "UNAVAILABLE")
    BY <1>1, Replying DEF Deny
  <1>2. CASE ~Deny(w, "UNAVAILABLE")
    BY <1>2 DEF Conflict, Moves, TypeOK, InTransaction, Claimed
  <1> QED
    BY <1>1, <1>2

GoesOn(w) ==
    /\ pc[w] \in InTransaction /\ pc'[w] \in InTransaction
    /\ view'[w].current = view[w].current /\ request' = request

LEMMA GoingOn ==
  ASSUME NEW w \in Worker, TypeOK, NEW from \in InTransaction, NEW to \in InTransaction,
         Advance(w, from, to), request' = request, answer' = answer,
         \/ view' = view
         \/ view' = [view EXCEPT ![w].observedAt = now]
         \/ view' = [view EXCEPT ![w].reservedAt = now]
  PROVE  Moves(w) /\ GoesOn(w)
  BY DEF Advance, Moves, GoesOn, TypeOK, View

\* what a step of a worker is to its desk
LEMMA WhatAWorkerDoes ==
  ASSUME NEW w \in Worker, IndInv,
         (\E r \in Request : Submit(w, r)) \/ Step(w) \/ Failure(w)
  PROVE  /\ Moves(w)
         /\ \/ Begin(w)
            \/ pc'[w] \notin InTransaction /\ UNCHANGED database
            \/ GoesOn(w) /\ UNCHANGED database
            \/ /\ pc[w] = "reserved" /\ ~KeyTaken(w) /\ Store(w)
               /\ pc'[w] \notin InTransaction
  <1> USE DEF Deny
  <1>1. TypeOK
    BY DEF IndInv
  <1>2. ASSUME NEW r \in Request, Submit(w, r)
        PROVE  Moves(w) /\ pc'[w] \notin InTransaction /\ UNCHANGED database
    BY <1>1, <1>2 DEF Submit, Advance, Moves, TypeOK, InTransaction, Claimed
  <1>3. CASE Begin(w)
    BY <1>1, <1>3 DEF Begin, Advance, Moves, TypeOK
  <1>4. CASE Authenticate(w)
    BY <1>1, <1>4, Replying, GoingOn DEF Authenticate, InTransaction
  <1>5. CASE Claim(w)
    BY <1>1, <1>5, Replying, GivingUp, GoingOn DEF Claim, InTransaction, Claimed
  <1>6. CASE LockSeller(w)
    BY <1>1, <1>6, Replying, GivingUp, GoingOn DEF LockSeller, InTransaction, Claimed
  <1>7. CASE Sample(w)
    BY <1>1, <1>7, Replying, GoingOn DEF Sample, InTransaction, Claimed
  <1>8. CASE Reserve(w)
    BY <1>1, <1>8, Replying, GivingUp, GoingOn DEF Reserve, MovedOn, InTransaction, Claimed
  <1>9. CASE Persist(w)
    BY <1>1, <1>9, Replying, GivingUp DEF Persist
  <1>10. ASSUME Forget(w)
         PROVE  Moves(w) /\ pc'[w] \notin InTransaction /\ UNCHANGED database
    BY <1>1, <1>10 DEF Forget, Moves, TypeOK, InTransaction, Claimed
  <1>11. CASE Return(w)
    BY <1>10, <1>11 DEF Return
  <1>12. CASE Failure(w)
    BY <1>1, <1>10, <1>12, Replying, GivingUp
       DEF Failure, SerializationFailure, TransactionLost, Crash
  <1> QED
    BY <1>2, <1>3, <1>4, <1>5, <1>6, <1>7, <1>8, <1>9, <1>11, <1>12 DEF Step

LEMMA StoreIsAccept ==
  ASSUME NEW w \in Worker, IndInv, pc[w] = "reserved", ~KeyTaken(w), Store(w),
         Moves(w), pc'[w] \notin InTransaction
  PROVE  Book!Accept(w, request[w].customer, request[w].key, TripOf(w), request[w].terms,
                     view[w].reservedAt)
  <1> DEFINE t == TripOf(w)
             at == view[w].reservedAt
  <1>1. WorkerInv(w)
    BY DEF IndInv
  <1>2. trip[t] = view[w].row /\ trip' = [trip EXCEPT ![t] = ReservedRow(w)]
    BY AtTheCommit DEF Store
  <1>3. Book!MayOrder(request[w].customer, t, request[w].terms)
    <2>1. Eligibility(w) = "ELIGIBLE" /\ SellerOf(w) \in selling
      BY <1>1 DEF WorkerInv, HoldsSeller
    <2>2. /\ Offer[t].status = "PUBLISHED" /\ Offer[t].seller # request[w].customer
          /\ request[w].terms.mode \in Offer[t].modes
      BY <2>1, OfferAssumption, AtTheCommit
         DEF Eligibility, SelfOrder, SellerOf, OfferType, Status
    <2>3. request[w].terms.units <= trip[t].remaining
      BY AtTheCommit
    <2> QED
      BY <2>1, <2>2, <2>3 DEF Book!MayOrder, SellerOf
  <1>4. Book!KeyIsFree(request[w].customer, request[w].key, at)
    BY EarlierOrdersExpired DEF Book!KeyIsFree, SameKey
  <1>5. at <= now
    BY AtTheCommit
  <1>6. Offer[t].opens <= at /\ at < Offer[t].closes
    BY <1>1 DEF WorkerInv, HoldsTrip, StillOpen, InWindow
  <1>7. orders' = Append(orders,
          [customer |-> request[w].customer, key |-> request[w].key, trip |-> t,
           terms |-> request[w].terms, version |-> trip[t].version, submittedAt |-> at])
    BY <1>2 DEF Store, NewOrder
  <1>8. trip' = [trip EXCEPT ![t] = [version |-> trip[t].version + 1,
                          remaining |-> trip[t].remaining - request[w].terms.units]]
    BY <1>2 DEF ReservedRow
  <1>9. UNCHANGED <<now, selling, current>>
    BY DEF Store
  <1>10. <<w, request[w].customer>> \in Admitted
    BY <1>1 DEF WorkerInv, HoldsSession, Admitted, InTransaction, Claimed
  <1>11. Admitted' = Admitted \ {<<w, request[w].customer>>}
    BY DeskLeft DEF AtDesk, Ticket
  <1> QED
    BY <1>3, <1>4, <1>5, <1>6, <1>7, <1>8, <1>9, <1>10, <1>11 DEF Book!Accept

(***************************************************************************)
(* No order is committed once its seller has been suspended, although the  *)
(* seller was checked several statements before the commit.                *)
(***************************************************************************)
THEOREM SellersAreEligible == Spec => SellerEligibleAtCommit
  <1>1. ASSUME IndInv, [Next]_vars
        PROVE  [orders' # orders
                  => Offer[orders'[Len(orders')].trip].seller \in selling]_vars
    <2>1. CASE UNCHANGED orders
      BY <2>1
    <2>2. ASSUME NEW w \in Worker, pc[w] = "reserved", ~KeyTaken(w), Store(w)
          PROVE  Offer[orders'[Len(orders')].trip].seller \in selling
      <3>1. orders'[Len(orders')] = NewOrder(w)
        BY <1>1, <2>2, StoredOrders
      <3>2. SellerOf(w) \in selling
        BY <1>1, <2>2 DEF IndInv, WorkerInv, HoldsSeller
      <3> QED
        BY <3>1, <3>2 DEF NewOrder, SellerOf
    <2> QED
      BY <1>1, <2>1, <2>2, WhatChangesTheDatabase DEF database, Tick, EndSession, Suspend
  <1> QED
    BY <1>1, Invariance, PTL DEF Spec, SellerEligibleAtCommit

(***************************************************************************)
(* Order submission implements the order book: with any number of          *)
(* concurrent workers, conflicts, retries, lost answers and crashes, every *)
(* order enters against the current revision, in its window, within the    *)
(* capacity left, for an eligible seller, and once per retained key.       *)
(***************************************************************************)
THEOREM OrderBookImplemented == Spec => ImplementsOrderBook
  <1>1. Init => Book!Init
    BY DEF Init, Book!Init, Admitted, InTransaction, Claimed
  <1>2. ASSUME IndInv, [Next]_vars
        PROVE  [Book!Next]_(Book!vars)
    <2>1. ASSUME NEW w \in Worker,
                 (\E r \in Request : Submit(w, r)) \/ Step(w) \/ Failure(w)
          PROVE  [Book!Next]_(Book!vars)
      <3> DEFINE customer == request[w].customer
      <3>1. Moves(w)
        BY <1>2, <2>1, WhatAWorkerDoes
      <3>2. ASSUME pc[w] # "idle"
            PROVE  request[w] \in Request /\ customer \in Account
        BY <1>2, <3>2, RequestFields DEF IndInv, WorkerInv, HasRequest
      <3>3. CASE Begin(w)
        <4>1. /\ pc[w] = "ready" /\ pc'[w] = "opened" /\ request' = request
              /\ view'[w].current = (customer \in current) /\ UNCHANGED database
          BY <1>2, <3>3 DEF Begin, Advance, Snapshot, IndInv, TypeOK
        <4>2. CASE customer \in current
          <5>1. Admitted' = Admitted \cup {<<w, customer>>}
            BY <3>1, <4>1, <4>2, DeskTaken DEF AtDesk, Ticket, InTransaction
          <5>2. Book!Admit(w, customer)
            BY <4>1, <4>2, <5>1 DEF Book!Admit, database
          <5> QED
            BY <3>2, <4>1, <5>2 DEF Book!Next
        <4>3. CASE customer \notin current
          <5>1. \A v \in Worker : AtDesk(v)' = AtDesk(v)
                                    /\ (AtDesk(v) => request'[v] = request[v])
            BY <3>1, <4>1, <4>3 DEF Moves, AtDesk, InTransaction, Claimed
          <5> QED
            BY <4>1, <5>1, SameDesks DEF Book!vars, database
        <4> QED
          BY <4>2, <4>3
      <3>4. CASE pc'[w] \notin InTransaction /\ UNCHANGED database
        <4>1. CASE pc[w] = "idle"
          <5>1. \A v \in Worker : AtDesk(v)' = AtDesk(v)
                                    /\ (AtDesk(v) => request'[v] = request[v])
            BY <3>1, <3>4, <4>1 DEF Moves, AtDesk, InTransaction, Claimed
          <5> QED
            BY <3>4, <5>1, SameDesks DEF Book!vars, database
        <4>2. CASE pc[w] # "idle"
          <5>1. Admitted' = Admitted \ {<<w, customer>>}
            BY <3>1, <3>4, DeskLeft DEF AtDesk, Ticket
          <5>2. Book!Leave(w, customer)
            BY <3>4, <5>1 DEF Book!Leave, database
          <5> QED
            BY <3>2, <4>2, <5>2 DEF Book!Next
        <4> QED
          BY <4>1, <4>2
      <3>5. CASE GoesOn(w) /\ UNCHANGED database
        <4>1. \A v \in Worker : AtDesk(v)' = AtDesk(v)
                                  /\ (AtDesk(v) => request'[v] = request[v])
          BY <3>1, <3>5 DEF GoesOn, Moves, AtDesk
        <4> QED
          BY <3>5, <4>1, SameDesks DEF Book!vars, database
      <3>6. CASE /\ pc[w] = "reserved" /\ ~KeyTaken(w) /\ Store(w)
                 /\ pc'[w] \notin InTransaction
        <4>1. /\ customer \in Account /\ request[w].key \in Key
              /\ TripOf(w) \in Trip /\ request[w].terms \in Terms
              /\ view[w].reservedAt \in 0 .. now
          BY <1>2, <3>6, AtTheCommit, RequestFields
        <4>2. Book!Accept(w, customer, request[w].key, TripOf(w), request[w].terms,
                          view[w].reservedAt)
          BY <1>2, <3>1, <3>6, StoreIsAccept
        <4> QED
          BY <4>1, <4>2 DEF Book!Next
      <3> QED
        BY <1>2, <2>1, <3>3, <3>4, <3>5, <3>6, WhatAWorkerDoes
    <2>2. ASSUME UNCHANGED worker
          PROVE  Admitted' = Admitted
      BY <2>2 DEF worker, Admitted
    <2>3. CASE Tick
      BY <2>2, <2>3 DEF Tick, Book!Next, Book!Tick
    <2>4. ASSUME NEW a \in Unsteady, EndSession(a)
          PROVE  Book!Next
      BY <2>2, <2>4, BoundsAssumption DEF EndSession, Book!Next, Book!EndSession
    <2>5. ASSUME NEW a \in Unsteady, Suspend(a)
          PROVE  Book!Next
      BY <2>2, <2>5, BoundsAssumption DEF Suspend, Book!Next, Book!Suspend
    <2>6. CASE UNCHANGED vars
      BY <2>2, <2>6 DEF vars, database, Book!vars
    <2> QED
      BY <1>2, <2>1, <2>3, <2>4, <2>5, <2>6 DEF Next, Environment
  <1> QED
    BY <1>1, <1>2, Invariance, PTL DEF Spec, ImplementsOrderBook, Book!Spec
-----------------------------------------------------------------------------
\* The running totals behind CapacityConserved

LEMMA LeastNumber ==
  ASSUME NEW S \in SUBSET Nat, S # {}
  PROVE  \E n \in S : \A m \in S : n <= m
  <1> DEFINE R == OpToRel(<, Nat)
  <1>1. IsWellFoundedOn(R, Nat)
    BY NatLessThanWellFounded
  <1> HIDE DEF R
  <1>2. PICK n \in S : \A m \in S : ~ (<<m, n>> \in R)
    BY <1>1, WFMin
  <1>3. \A m \in S : ~ (m < n)
    BY <1>2 DEF R, OpToRel
  <1> QED
    BY <1>3

LEMMA ReservedType ==
  ASSUME TypeOK, NEW i \in 1 .. Len(orders), NEW t \in Trip
  PROVE  Reserved(i, t) \in Nat
  <1>1. orders[i].terms \in Terms
    BY OrdersType DEF OrderType
  <1> QED
    BY <1>1, TermsAssumption DEF Reserved

(***************************************************************************)
(* What the orders of a trip have reserved is one number: a running total  *)
(* is determined by the orders, so CapacityConserved speaks of their sum,  *)
(* whichever total shows it.                                               *)
(***************************************************************************)
THEOREM RunningTotalsAgree ==
  ASSUME TypeOK, NEW t \in Trip,
         NEW f \in [0 .. Len(orders) -> Nat], RunningTotal(f, t),
         NEW g \in [0 .. Len(orders) -> Nat], RunningTotal(g, t)
  PROVE  f = g
  <1> DEFINE n == Len(orders)
             S == {i \in 0 .. n : f[i] # g[i]}
  <1>1. n \in Nat
    BY DEF TypeOK
  <1>2. S = {}
    <2> SUFFICES ASSUME S # {}
                 PROVE  FALSE
      OBVIOUS
    <2>1. PICK i \in S : \A j \in S : i <= j
      <3>1. S \in SUBSET Nat
        OBVIOUS
      <3> HIDE DEF S
      <3> QED
        BY <3>1, LeastNumber
    <2>2. i \in 0 .. n /\ i # 0 /\ f[i] # g[i]
      BY <2>1 DEF RunningTotal
    <2>3. i \in 1 .. n /\ i - 1 \in 0 .. n /\ ~(i <= i - 1)
      BY <1>1, <2>2
    <2>4. f[i - 1] = g[i - 1]
      <3>1. i - 1 \notin S
        <4>1. \A j \in S : i <= j
          BY <2>1
        <4> HIDE DEF S
        <4> QED
          BY <4>1, <2>3
      <3> QED
        BY <2>3, <3>1
    <2> QED
      BY <2>2, <2>3, <2>4 DEF RunningTotal
  <1> QED
    BY <1>2

LEMMA NothingReserved == Init => CapacityConserved
  <1> SUFFICES ASSUME Init, NEW t \in Trip
               PROVE  \E sold \in [0 .. Len(orders) -> 0 .. Capacity[t]] :
                         /\ RunningTotal(sold, t)
                         /\ trip[t].remaining + sold[Len(orders)] = Capacity[t]
    BY DEF CapacityConserved
  <1>1. Len(orders) = 0 /\ trip[t].remaining = Capacity[t] /\ Capacity[t] \in Nat
    BY CapacityAssumption DEF Init
  <1> DEFINE sold == [i \in 0 .. 0 |-> 0]
  <1>2. sold \in [0 .. 0 -> 0 .. Capacity[t]] /\ sold[0] = 0
    BY <1>1
  <1> HIDE DEF sold
  <1>3. RunningTotal(sold, t)
    BY <1>1, <1>2 DEF RunningTotal
  <1>4. trip[t].remaining + sold[0] = Capacity[t]
    BY <1>1, <1>2
  <1> QED
    BY <1>1, <1>2, <1>3, <1>4

LEMMA StoreConserves ==
  ASSUME NEW w \in Worker, IndInv, CapacityConserved, pc[w] = "reserved", Store(w)
  PROVE  CapacityConserved'
  <1> SUFFICES ASSUME NEW t \in Trip
               PROVE  \E sold \in [0 .. Len(orders') -> 0 .. Capacity[t]] :
                         /\ RunningTotal(sold, t)'
                         /\ trip'[t].remaining + sold[Len(orders')] = Capacity[t]
    BY DEF CapacityConserved
  <1> DEFINE new == IF TripOf(w) = t THEN request[w].terms.units ELSE 0
  <1>0. PICK n \in Nat : n = Len(orders)
    BY StoredOrders
  <1>1. PICK f \in [0 .. n -> 0 .. Capacity[t]] :
           RunningTotal(f, t) /\ trip[t].remaining + f[n] = Capacity[t]
    BY <1>0 DEF CapacityConserved
  <1>2. /\ n \in Nat /\ Len(orders') = n + 1
        /\ \A i \in 1 .. n : orders'[i] = orders[i]
        /\ Reserved(n + 1, t)' = new
    <2>1. orders'[n + 1] = NewOrder(w)
      BY <1>0, StoredOrders
    <2> QED
      BY <1>0, <2>1, StoredOrders DEF NewOrder, Reserved
  <1>3. \A i \in 1 .. n : Reserved(i, t)' = Reserved(i, t)
    BY <1>2 DEF Reserved
  <1>4. /\ trip[t].remaining \in Nat /\ trip'[t].remaining \in Nat /\ new \in Nat
        /\ trip'[t].remaining + new = trip[t].remaining
    <2>1. trip[t] \in Row /\ trip'[t] \in Row
      BY StoredRows DEF IndInv, TypeOK
    <2>2. request[w].terms.units \in Nat
      BY AtTheCommit
    <2>3. CASE TripOf(w) = t
      <3>1. trip[t] = view[w].row
        BY <2>3, AtTheCommit
      <3>2. trip'[t].remaining = trip[t].remaining - new
        <4>1. trip'[t] = ReservedRow(w)
          BY <2>3, StoredRows
        <4> QED
          BY <2>3, <3>1, <4>1 DEF ReservedRow
      <3> QED
        BY <2>1, <2>2, <2>3, <3>2 DEF Row
    <2>4. CASE TripOf(w) # t
      BY <2>1, <2>4, StoredRows DEF Row
    <2> QED
      BY <2>3, <2>4
  <1> HIDE DEF new
  <1>5. Capacity[t] \in Nat
    BY CapacityAssumption
  <1>6. f[n] \in 0 .. Capacity[t] /\ f[n] + new \in 0 .. Capacity[t]
    <2>1. f[n] \in 0 .. Capacity[t]
      BY <1>1
    <2> QED
      BY <1>1, <1>4, <1>5, <2>1
  <1>7. PICK g \in [0 .. n + 1 -> 0 .. Capacity[t]] :
           g[n + 1] = f[n] + new /\ \A i \in 0 .. n : g[i] = f[i]
    <2> DEFINE h == [i \in 0 .. n + 1 |-> IF i = n + 1 THEN f[n] + new ELSE f[i]]
    <2>1. h \in [0 .. n + 1 -> 0 .. Capacity[t]]
      BY <1>6
    <2>2. h[n + 1] = f[n] + new /\ \A i \in 0 .. n : h[i] = f[i]
      OBVIOUS
    <2> QED
      BY <2>1, <2>2
  <1>8. RunningTotal(g, t)'
    <2>1. g[0] = 0
      BY <1>1, <1>2, <1>7 DEF RunningTotal
    <2>2. ASSUME NEW i \in 1 .. n
          PROVE  g[i] = g[i - 1] + Reserved(i, t)'
      <3>1. i \in 0 .. n /\ i - 1 \in 0 .. n
        BY <1>2
      <3>2. f[i] = f[i - 1] + Reserved(i, t)
        BY <1>0, <1>1 DEF RunningTotal
      <3> QED
        BY <1>3, <1>7, <3>1, <3>2
    <2>3. g[n + 1] = g[(n + 1) - 1] + Reserved(n + 1, t)'
      <3>1. (n + 1) - 1 = n /\ n \in 0 .. n
        BY <1>2
      <3> QED
        BY <1>2, <1>7, <3>1
    <2>4. \A i \in 1 .. n + 1 : i \in 1 .. n \/ i = n + 1
      BY <1>2
    <2> QED
      BY <1>2, <2>1, <2>2, <2>3, <2>4 DEF RunningTotal
  <1>9. trip'[t].remaining + g[n + 1] = Capacity[t]
    BY <1>1, <1>4, <1>5, <1>6, <1>7
  <1> QED
    BY <1>2, <1>7, <1>8, <1>9

(***************************************************************************)
(* Capacity is neither lost nor sold twice: what is left of a trip and     *)
(* what its orders reserved make what was published, whatever workers,     *)
(* conflicts, retries and crashes there were.                              *)
(***************************************************************************)
THEOREM CapacityIsConserved == Spec => []CapacityConserved
  <1>1. ASSUME IndInv, CapacityConserved, [Next]_vars
        PROVE  CapacityConserved'
    <2>1. CASE UNCHANGED <<trip, orders>>
      BY <1>1, <2>1 DEF CapacityConserved, RunningTotal, Reserved
    <2>2. ASSUME NEW w \in Worker, pc[w] = "reserved", Store(w)
          PROVE  CapacityConserved'
      BY <1>1, <2>2, StoreConserves
    <2> QED
      BY <1>1, <2>1, <2>2, WhatChangesTheDatabase DEF database, Tick, EndSession, Suspend
  <1> QED
    BY <1>1, NothingReserved, Invariance, PTL DEF Spec
=============================================================================
