--------------------------- MODULE EvidenceVault ----------------------------
(***************************************************************************)
(* What the evidence lifecycle promises, without calls, keys or records:   *)
(* bytes lie in quarantine until they are promoted, the very bytes that    *)
(* are admitted and that a scan has found clean; what is promoted stays as *)
(* it is until its retention is over, and then it is gone.                 *)
(***************************************************************************)
EXTENDS Naturals

CONSTANTS
    Evidence, Content,
    Admitted,             \* the contents that the server admits
    UploadIntentTtl, AcceptedRetention

VARIABLES
    now,
    stage,       \* how far each evidence has come
    until,       \* when its upload, and later its retention, ends
    quarantine,  \* its bytes in quarantine,
    clean,       \* the bytes that its last scan has found clean,
    private      \* and its private object: none or one of each

vars == <<now, stage, until, quarantine, clean, private>>

Init ==
    /\ now = 0
    /\ stage = [e \in Evidence |-> "UNKNOWN"]
    /\ until = [e \in Evidence |-> 0]
    /\ quarantine = [e \in Evidence |-> {}]
    /\ clean = [e \in Evidence |-> {}]
    /\ private = [e \in Evidence |-> {}]

\* an intent begins with nothing uploaded and nothing scanned
Announce(e) ==
    /\ stage[e] = "UNKNOWN"
    /\ stage' = [stage EXCEPT ![e] = "ANNOUNCED"]
    /\ until' = [until EXCEPT ![e] = now + UploadIntentTtl]
    /\ quarantine' = [quarantine EXCEPT ![e] = {}]
    /\ clean' = [clean EXCEPT ![e] = {}]
    /\ UNCHANGED <<now, private>>

Upload(e, x) ==
    /\ stage[e] = "ANNOUNCED" /\ quarantine[e] = {} /\ now < until[e]
    /\ quarantine' = [quarantine EXCEPT ![e] = {x}]
    /\ UNCHANGED <<now, stage, until, clean, private>>

\* a scan finds these bytes clean, or none
Scanned(e, found) ==
    /\ stage[e] = "ANNOUNCED" /\ quarantine[e] # {}
    /\ clean' = [clean EXCEPT ![e] = found]
    /\ UNCHANGED <<now, stage, until, quarantine, private>>

Promote(e) ==
    /\ stage[e] = "ANNOUNCED"
    /\ \E x \in Admitted : quarantine[e] = {x} /\ clean[e] = {x}
    /\ stage' = [stage EXCEPT ![e] = "ACCEPTED"]
    /\ private' = [private EXCEPT ![e] = quarantine[e]]
    /\ quarantine' = [quarantine EXCEPT ![e] = {}]
    /\ until' = [until EXCEPT ![e] = now + AcceptedRetention]
    /\ UNCHANGED <<now, clean>>

Delete(e) ==
    /\ stage[e] = "ACCEPTED" /\ until[e] <= now
    /\ stage' = [stage EXCEPT ![e] = "DELETED"]
    /\ private' = [private EXCEPT ![e] = {}]
    /\ UNCHANGED <<now, until, quarantine, clean>>

Tick == now' = now + 1 /\ UNCHANGED <<stage, until, quarantine, clean, private>>

Next ==
    \/ \E e \in Evidence : Announce(e) \/ Promote(e) \/ Delete(e)
    \/ \E e \in Evidence, x \in Content : Upload(e, x) \/ Scanned(e, {x})
    \/ \E e \in Evidence : Scanned(e, {})
    \/ Tick

Spec == Init /\ [][Next]_vars

=============================================================================
