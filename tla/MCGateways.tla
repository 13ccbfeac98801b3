----------------------------- MODULE MCGateways -----------------------------
(***************************************************************************)
(* An instance of Gateways for TLC: one order, three operations under the  *)
(* same client key.  The provider of refunds may throw, and releases have  *)
(* no receipt configured.  Payment protection is compared with its         *)
(* reference on amounts around the expected one.                           *)
(***************************************************************************)
EXTENDS Gateways, PaymentProtection, TLC

CONSTANTS o1, k1, c1, c2, c3, p1, p2

Keys == [order : {o1}, key : {k1},
         operation : {"payment.initiate", "payment.refund", "payment.release"}]
Receipts == 1 .. 3

Amounts == {None} \cup 0 .. 2
Observed ==
    [collection : Collection, hold : Hold, after : {"NOTHING", "ACTIVITY", "UNKNOWN"},
     collected : Amounts, held : Amounts, own : BOOLEAN, referenced : BOOLEAN]

\* Money that was collected counts as protected only with its hold: a failed hold
\* goes to reconciliation, a pending one waits.
ASSUME MoneyWithoutAHoldIsNotProtected ==
    \A s \in Observed :
       /\ (Assess(s, 1).status = "HELD_CONFIRMED") = Reconciled(s, 1)
       /\ s.collection = "CONFIRMED" /\ s.hold = "FAILED"
             => Assess(s, 1).status = "RECONCILIATION_REQUIRED"
       /\ s.own /\ s.referenced /\ s.after = "NOTHING" /\ s.collection = "CONFIRMED"
             /\ s.collected = 1 /\ s.hold \in {"PENDING", "NOT_CONFIRMED"}
             => Assess(s, 1).status = "AWAITING_CONFIRMATION"

=============================================================================
