------------------------- MODULE PaymentProtection -------------------------
(***************************************************************************)
(* assessPaymentProtection: what an observation of the provider says about *)
(* one payment attempt and the amount expected of it.                      *)
(*                                                                         *)
(* The four statuses and three amounts that follow a hold (release,        *)
(* refund, settlement, chargeback) matter by whether one of them shows     *)
(* anything, and by whether a status is UNKNOWN.                           *)
(***************************************************************************)
EXTENDS Integers

Collection == {"PENDING", "CONFIRMED", "FAILED", "EXPIRED", "UNKNOWN"}
Hold == {"NOT_CONFIRMED", "PENDING", "CONFIRMED", "FAILED", "UNKNOWN"}

\* null: the provider reported no amount
None == -1

Amount == Nat \cup {None}

Snapshot ==
    [collection : Collection, hold : Hold, after : {"NOTHING", "ACTIVITY", "UNKNOWN"},
     collected : Amount, held : Amount, own : BOOLEAN, referenced : BOOLEAN]

SomeUnknown(s) ==
    s.collection = "UNKNOWN" \/ s.hold = "UNKNOWN" \/ s.after = "UNKNOWN"

Contradictory(s) ==
    \/ s.hold = "CONFIRMED" /\ s.collection # "CONFIRMED"
    \/ s.hold = "FAILED" /\ s.collection = "PENDING"
    \/ s.collection \in {"FAILED", "EXPIRED"} /\ (s.collected # None \/ s.held # None)

Is(status, reason) == [status |-> status, reason |-> reason]
Unreconciled(reason) == Is("RECONCILIATION_REQUIRED", reason)

\* the money, once the provider has confirmed that it was collected
AssessCollected(s, expected) ==
    IF ~ s.referenced THEN Unreconciled("PAYMENT_REFERENCE_MISSING")
    ELSE IF s.collected = None THEN Unreconciled("COLLECTED_AMOUNT_MISSING")
    ELSE IF s.collected # expected THEN Unreconciled("COLLECTED_AMOUNT_MISMATCH")
    ELSE IF s.hold = "FAILED" THEN Unreconciled("HOLD_FAILED_AFTER_COLLECTION")
    ELSE IF s.hold # "CONFIRMED"
         THEN Is("AWAITING_CONFIRMATION", "HOLD_CONFIRMATION_PENDING")
    ELSE IF s.held = None THEN Unreconciled("HELD_AMOUNT_MISSING")
    ELSE IF s.held # expected THEN Unreconciled("HELD_AMOUNT_MISMATCH")
    ELSE Is("HELD_CONFIRMED", "COLLECTION_AND_HOLD_RECONCILED")

\* expected, an amount in minor units, is positive
Assess(s, expected) ==
    IF ~ s.own THEN Unreconciled("PAYMENT_ATTEMPT_MISMATCH")
    ELSE IF SomeUnknown(s) THEN Unreconciled("UNKNOWN_PROVIDER_STATE")
    ELSE IF s.after = "ACTIVITY" THEN Unreconciled("POST_HOLD_ACTIVITY_OBSERVED")
    ELSE IF Contradictory(s) THEN Unreconciled("CONTRADICTORY_PROVIDER_STATE")
    ELSE IF s.collection = "FAILED" THEN Is("FAILED", "COLLECTION_FAILED")
    ELSE IF s.collection = "EXPIRED" THEN Is("FAILED", "COLLECTION_EXPIRED")
    ELSE IF s.collection = "PENDING"
         THEN Is("AWAITING_CONFIRMATION", "COLLECTION_PENDING")
    ELSE AssessCollected(s, expected)

-----------------------------------------------------------------------------
\* What docs/product/order-lifecycle.md asks of HELD: the observation is of the
\* expected attempt, has a reference, and shows the exact amount collected and
\* held, with nothing unknown and no release, refund, settlement or chargeback.
Reconciled(s, expected) ==
    /\ s.own /\ s.referenced /\ s.after = "NOTHING"
    /\ s.collection = "CONFIRMED" /\ s.collected = expected
    /\ s.hold = "CONFIRMED" /\ s.held = expected
=============================================================================
