---------------------- MODULE OrderSubmissionInvariant ----------------------
(***************************************************************************)
(* The inductive invariant of OrderSubmission: what the tables say of each *)
(* other, and what an open transaction may still rely on of its snapshot   *)
(* at each place, thanks to the locks it holds by then.                    *)
(***************************************************************************)
EXTENDS OrderSubmission

\* an idempotency row of this customer and key, and the order it stands for
Names(r, customer, key) ==
    /\ r.order \in 1 .. Len(orders)
    /\ orders[r.order].customer = customer
    /\ orders[r.order].key = key
    /\ r.fingerprint = <<orders[r.order].trip, orders[r.order].terms>>
    /\ r.expiresAt = orders[r.order].submittedAt + Retention

RecordsNameOrders ==
    \A a \in Account, k \in Key : record[a][k] # NoRecord => Names(record[a][k], a, k)

\* every order is the one its key's row names, or had expired before that one
OrdersAreRecorded ==
    \A i \in 1 .. Len(orders) :
        LET r == record[orders[i].customer][orders[i].key]
        IN  /\ r # NoRecord
            /\ \/ i = r.order
               \/ /\ i < r.order
                  /\ orders[i].submittedAt + Retention <= orders[r.order].submittedAt

OrdersArePast == \A i \in 1 .. Len(orders) : orders[i].submittedAt <= now

BookInv ==
    /\ RecordsNameOrders
    /\ OrdersAreRecorded
    /\ OrdersArePast
    /\ OneOrderPerRevision
    /\ OneOrderPerKey

HasRequest(w) == pc[w] # "idle" => request[w] \in Request

\* the snapshot is a past of the database, in which rows only move on
SeesThePast(w) ==
    pc[w] \in InTransaction =>
        /\ trip[TripOf(w)].remaining <= view[w].row.remaining
        /\ view[w].record # NoRecord =>
              Names(view[w].record, request[w].customer, request[w].key)
        /\ view[w].observedAt <= now

\* past requireCurrentActor, the snapshot has shown a current session
HoldsSession(w) == pc[w] \in {"current"} \cup Claimed => view[w].current

\* the advisory lock keeps an expired row as it was when it was deleted
HoldsKey(w) ==
    pc[w] \in Claimed /\ view[w].record # NoRecord =>
        /\ ~RecordChanged(w)
        /\ Expired(view[w].record, view[w].observedAt)

HoldsSeller(w) ==
    pc[w] \in {"sellerLocked", "sampled", "reserved"} =>
        Eligibility(w) = "ELIGIBLE" /\ SellerOf(w) \in selling

HasSampled(w) ==
    pc[w] \in {"sampled", "reserved"} =>
        /\ CapacityLeft(w)
        /\ view[w].observedAt <= view[w].reservedAt
        /\ view[w].reservedAt <= now

HoldsTrip(w) == pc[w] = "reserved" => ~RowChanged(w) /\ StillOpen(w)

Closed(t) == Offer[t].closes <= now

AnswersTruly(w) ==
    /\ SuccessNamesTheOrder(w)
    /\ ConflictMeansKeyReused(w)
    /\ SoldOutIsTrue(w)
    /\ Answered(w, {"OFFER_REVISION_STALE"}) => Closed(TripOf(w))

WorkerInv(w) ==
    /\ HasRequest(w)
    /\ SeesThePast(w)
    /\ HoldsSession(w)
    /\ HoldsKey(w)
    /\ HoldsSeller(w)
    /\ HasSampled(w)
    /\ HoldsTrip(w)
    /\ AnswersTruly(w)

LocksExclude ==
    \A w \in Worker :
        /\ pc[w] \in Claimed => ~KeyLockedByOther(w)
        /\ pc[w] = "reserved" => ~TripLockedByOther(w)

(***************************************************************************)
(* The inductive invariant: types, the book, what each worker may rely on, *)
(* and the exclusion of the advisory and row locks.                        *)
(***************************************************************************)
IndInv ==
    /\ TypeOK
    /\ BookInv
    /\ \A w \in Worker : WorkerInv(w)
    /\ LocksExclude
=============================================================================
