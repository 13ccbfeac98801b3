------------------------- MODULE EvidenceLifecycle --------------------------
(***************************************************************************)
(* InMemoryEvidenceLifecycle: evidence is announced (an upload intent),    *)
(* uploaded to quarantine, scanned, promoted to a private object when the  *)
(* scan is clean and is about the very bytes in quarantine, and deleted    *)
(* when its retention is over.  Announcing, accepting and deleting go      *)
(* through the idempotency store, so each has a check before the claim and *)
(* an effect after it, with any number of other calls between the two;     *)
(* uploads and scan results arrive whenever they like.                     *)
(*                                                                         *)
(* Upload and quarantine references share one number, the intent's.  A     *)
(* content is a record of its length and of the signature it begins with,  *)
(* and its digest is the content itself.                                   *)
(***************************************************************************)
EXTENDS IdempotencyStore

CONSTANTS Evidence,            \* records with an owner and an id
          Classification,
          Content,             \* what may be uploaded: [length, signature]
          MaximumByteLength, AllowedMediaTypes, UploadIntentTtl, AcceptedRetention,
          MaxReference,        \* bound: references that are ever handed out
          NoContent, NoClassification

\* validatePolicy, as far as the model tells lifetimes and sizes apart
MediaTypes == {"image/jpeg", "image/png", "image/webp"}
ValidPolicy ==
    /\ {MaximumByteLength, UploadIntentTtl, AcceptedRetention} \subseteq Nat \ {0}
    /\ AllowedMediaTypes # {} /\ AllowedMediaTypes \subseteq MediaTypes

ASSUME PolicyAssumption == ValidPolicy

\* references are results, and what a call is about is fingerprinted
ASSUME NameAssumption ==
    /\ MaxReference \in Nat /\ 1 .. MaxReference \subseteq Result
    /\ [evidence : Evidence, what : Classification \cup (1 .. MaxReference)] \subseteq Payload
    /\ NoContent \notin Content

VARIABLES evidence,            \* records: what is known of each evidence
          objects,             \* acceptedObjects: the private objects that are stored
          references           \* referenceSequence

vars == <<now, records, leases, call, evidence, objects, references>>
domainVars == <<evidence, objects, references>>

Scan == [status : {"NONE", "CLEAN", "REJECTED", "UNAVAILABLE"}, digest : Content \cup {NoContent}]
NotScanned == [status |-> "NONE", digest |-> NoContent]

Unknown == [classification |-> NoClassification, reference |-> 0, expiresAt |-> 0,
            upload |-> NoContent, scan |-> NotScanned, accepted |-> 0,
            digest |-> NoContent, retainedUntil |-> 0, deleted |-> FALSE]

Init ==
    /\ StoreInit
    /\ evidence = [e \in Evidence |-> Unknown]
    /\ objects = {}
    /\ references = 0

Known(e) == evidence[e].reference # 0
-----------------------------------------------------------------------------
(* What the server observes                                                *)

DetectMediaType(content) ==
    CASE content.signature = "ff d8 ff" -> "image/jpeg"
      [] content.signature = "89 PNG 0d 0a 1a 0a" -> "image/png"
      [] content.signature = "RIFF ---- WEBP" -> "image/webp"
      [] OTHER -> "NONE"

Admissible(content) ==
    /\ content.length # 0
    /\ content.length <= MaximumByteLength
    /\ DetectMediaType(content) \in AllowedMediaTypes

\* the bytes in quarantine, against the scan that is on record
VerifiedBytes(r) ==
    /\ Admissible(r.upload)
    /\ r.scan.status = "CLEAN"
    /\ r.scan.digest = r.upload

\* inspectRecord
Status(r) ==
    IF r.deleted THEN "DELETED"
    ELSE IF r.accepted # 0 THEN "ACCEPTED"
    ELSE IF r.upload = NoContent
         THEN IF now >= r.expiresAt THEN "REJECTED" ELSE "AWAITING_UPLOAD"
    ELSE IF VerifiedBytes(r) THEN "VERIFIED"
    ELSE IF Admissible(r.upload) /\ r.scan.status \in {"NONE", "UNAVAILABLE"}
         THEN "VERIFICATION_PENDING"
    ELSE "REJECTED"

\* recordForQuery: the reference must be the one of the intent
Named(e, reference) == Known(e) /\ evidence[e].reference = reference
-----------------------------------------------------------------------------
(* Calls: what is checked before the claim, and the effect after it        *)

\* a call that its own checks refuse
Refuse(c) ==
    /\ At(c, "idle")
    /\ call' = Answered(c, "ERROR", NoResult)
    /\ UNCHANGED <<now, records, leases>>

Scoped(key, operation, e) == key.operation = operation /\ key.owner = e.owner
About(e, what) == [evidence |-> e, what |-> what]

EnterIf(checked, c, key, payload) ==
    /\ IF checked THEN Enter(c, key, payload) ELSE Refuse(c)
    /\ UNCHANGED domainVars

CreateUploadIntent(c, key, e, classification) ==
    /\ Scoped(key, "evidence.upload-intent.create", e)
    /\ EnterIf(Known(e) => evidence[e].classification = classification,
               c, key, About(e, classification))

Accept(c, key, e, reference) ==
    /\ Scoped(key, "evidence.accept", e)
    /\ EnterIf(/\ Named(e, reference)
               /\ Status(evidence[e]) \in {"VERIFIED", "ACCEPTED"},
               c, key, About(e, reference))

RetentionIgnored(r) == TRUE  \* mutant
RetentionOver(r) == now >= r.retainedUntil

\* the object's reference must be the accepted one, also when it is deleted already
DeleteExpired(c, key, e, reference) ==
    /\ Scoped(key, "evidence.delete-expired", e)
    /\ EnterIf(/\ Known(e)
               /\ evidence[e].accepted = reference
               /\ reference # 0
               /\ evidence[e].deleted \/ RetentionOver(evidence[e]),
               c, key, About(e, reference))

Executing(c, operation) == At(c, "executing") /\ call[c].key.operation = operation
Subject(c) == call[c].fingerprint.evidence

NextReference == references + 1
RetainedUntil == now + AcceptedRetention

\* the intent exists already: whoever asks again is given it
SameIntent(c) ==
    /\ Known(Subject(c))
    /\ call' = Returned(c, evidence[Subject(c)].reference)
    /\ UNCHANGED domainVars

NewIntent(c) ==
    /\ ~Known(Subject(c))
    /\ references < MaxReference
    /\ references' = NextReference
    /\ evidence' = [evidence EXCEPT ![Subject(c)] =
          [Unknown EXCEPT !.classification = call[c].fingerprint.what,
                          !.reference = references',
                          !.expiresAt = now + UploadIntentTtl]]
    /\ call' = Returned(c, references')
    /\ UNCHANGED objects

PerformCreate(c) ==
    /\ Executing(c, "evidence.upload-intent.create")
    /\ SameIntent(c) \/ NewIntent(c)
    /\ UNCHANGED <<now, records, leases>>

\* the effect inspects again: a scan may have arrived since the first inspection
VerifiedBefore(r) == TRUE  \* mutant
StillVerified(r) == Status(r) = "VERIFIED"

\* another call may have accepted meanwhile, which cleared the upload: looked at first
PromotionRepeated(r) == "PROMOTE"                                   \* mutant
AcceptanceUnseen(r) == IF StillVerified(r) THEN "PROMOTE" ELSE "FAIL"  \* mutant
Effect(r) ==
    IF r.accepted # 0 THEN "SAME" ELSE IF StillVerified(r) THEN "PROMOTE" ELSE "FAIL"

SameAcceptance(c) ==
    /\ Effect(evidence[Subject(c)]) = "SAME"
    /\ call' = Returned(c, evidence[Subject(c)].accepted)
    /\ UNCHANGED domainVars

NewAcceptance(c) ==
    LET r == evidence[Subject(c)] IN
    /\ Effect(r) = "PROMOTE"
    /\ references < MaxReference
    /\ references' = NextReference
    /\ objects' = objects \cup {[reference |-> references', content |-> r.upload]}
    /\ evidence' = [evidence EXCEPT ![Subject(c)] =
          [r EXCEPT !.accepted = references', !.digest = r.upload, !.upload = NoContent,
                    !.retainedUntil = RetainedUntil]]
    /\ call' = Returned(c, references')

\* the key is spent: the error is recorded as an outcome that needs recovery
VerificationChanged(c) ==
    /\ Effect(evidence[Subject(c)]) = "FAIL"
    /\ call' = Threw(c)
    /\ UNCHANGED domainVars

PerformAccept(c) ==
    /\ Executing(c, "evidence.accept")
    /\ SameAcceptance(c) \/ NewAcceptance(c) \/ VerificationChanged(c)
    /\ UNCHANGED <<now, records, leases>>

ObjectForgotten(reference) == objects  \* mutant: marked as deleted, left in storage
ObjectsWithout(reference) == {o \in objects : o.reference # reference}

PerformDelete(c) ==
    /\ Executing(c, "evidence.delete-expired")
    /\ IF evidence[Subject(c)].deleted
       THEN UNCHANGED <<evidence, objects>>
       ELSE /\ objects' = ObjectsWithout(call[c].fingerprint.what)
            /\ evidence' = [evidence EXCEPT ![Subject(c)].deleted = TRUE]
    /\ call' = Returned(c, call[c].fingerprint.what)
    /\ UNCHANGED <<now, records, leases, references>>
-----------------------------------------------------------------------------
(* Storage and scanner, which know evidence by its reference only          *)

IntentKnown(r) == TRUE  \* mutant
IntentOpen(r) == now < r.expiresAt

UploadToQuarantine(e, content) ==
    LET r == evidence[e] IN
    /\ Known(e)
    /\ r.upload = NoContent /\ r.accepted = 0 /\ ~r.deleted
    /\ IntentOpen(r)
    /\ evidence' = [evidence EXCEPT ![e].upload = content]
    /\ UNCHANGED <<storeVars, objects, references>>

\* a completed scan names the bytes it is about, which may not be the ones in quarantine
RecordScanResult(e, scan) ==
    /\ Known(e)
    /\ evidence[e].upload # NoContent
    /\ (scan.status = "UNAVAILABLE") = (scan.digest = NoContent)
    /\ scan.status # "NONE"
    /\ evidence' = [evidence EXCEPT ![e].scan = scan]
    /\ UNCHANGED <<storeVars, objects, references>>

Ask(c, key, e) ==
    \/ \E classification \in Classification : CreateUploadIntent(c, key, e, classification)
    \/ \E reference \in 1 .. references : Accept(c, key, e, reference)
    \/ \E reference \in 1 .. references : DeleteExpired(c, key, e, reference)

Next ==
    \/ \E c \in Call, key \in Key, e \in Evidence : Ask(c, key, e)
    \/ \E c \in Call : PerformCreate(c)
    \/ \E c \in Call : PerformAccept(c)
    \/ \E c \in Call : PerformDelete(c)
    \/ \E e \in Evidence, content \in Content : UploadToQuarantine(e, content)
    \/ \E e \in Evidence, scan \in Scan : RecordScanResult(e, scan)
    \/ StoreNext /\ UNCHANGED domainVars

Spec == Init /\ [][Next]_vars
-----------------------------------------------------------------------------
EvidenceRecord ==
    [classification : Classification \cup {NoClassification}, reference : 0 .. MaxReference,
     expiresAt : Nat, upload : Content \cup {NoContent}, scan : Scan,
     accepted : 0 .. MaxReference, digest : Content \cup {NoContent},
     retainedUntil : Nat, deleted : BOOLEAN]

\* Records, objects and references keep their types.
TypeOK ==
    /\ StoreTypeOK
    /\ evidence \in [Evidence -> EvidenceRecord]
    /\ objects \subseteq [reference : 1 .. MaxReference, content : Content]
    /\ references \in 0 .. MaxReference

\* Evidence is promoted only with bytes that the server admits and that a scan found clean,
\* whatever scan results arrive while its acceptance is under way; and no scan that
\* arrives after the promotion is recorded against it.
AcceptedIsClean ==
    \A e \in Evidence : evidence[e].accepted # 0 =>
        /\ Admissible(evidence[e].digest)
        /\ evidence[e].scan = [status |-> "CLEAN", digest |-> evidence[e].digest]

\* An object is stored exactly while its evidence is accepted and not deleted, with the bytes
\* that were accepted: two promotions of one evidence at once, under different keys, leave
\* one object, and a deletion leaves none, also when it runs beside another.
StoredWhileAccepted ==
    objects = {[reference |-> evidence[e].accepted, content |-> evidence[e].digest] :
                 e \in {x \in Evidence : evidence[x].accepted # 0 /\ ~evidence[x].deleted}}

Accepts(c) == call[c].key # NoKey /\ call[c].key.operation = "evidence.accept"

AnsweredWithObject(c) ==
    call[c].outcome = "OK" =>
       call[c].result # 0 /\ call[c].result = evidence[Subject(c)].accepted

\* Whoever has evidence accepted, at once with others, under another key, later, or again
\* under the same key, is answered with the one object it was promoted to; and an acceptance
\* does not fail, and spend its key, on the upload that another has cleared.
AcceptancesAgree ==
    [][\A c \in Call : Accepts(c)' =>
          /\ AnsweredWithObject(c)'
          /\ At(c, "executing") /\ At(c, "failing")' => evidence[Subject(c)].accepted = 0]_vars

\* An accepted object, its bytes and its retention never change, and it is deleted only
\* when the retention that it was accepted with is over.
KeptUntilExpiry ==
    [][\A e \in Evidence : evidence[e].accepted # 0 =>
          /\ evidence'[e].accepted = evidence[e].accepted
          /\ evidence'[e].digest = evidence[e].digest
          /\ evidence'[e].retainedUntil = evidence[e].retainedUntil
          /\ evidence[e].deleted => evidence'[e].deleted
          /\ evidence'[e].deleted /\ ~evidence[e].deleted => evidence[e].retainedUntil <= now]_vars
-----------------------------------------------------------------------------
(***************************************************************************)
(* Announcing, accepting and deleting, checked before their claims and     *)
(* repeated, raced or lost in any way, act on an evidence as if each were  *)
(* one step: the bytes promoted are clean and admitted at that instant,    *)
(* and deletion finds the retention over then (InMemoryEvidenceLifecycle). *)
(***************************************************************************)
Stage ==
    [e \in Evidence |->
       CASE ~Known(e) -> "UNKNOWN"
         [] Known(e) /\ evidence[e].accepted = 0 -> "ANNOUNCED"
         [] Known(e) /\ evidence[e].accepted # 0 /\ ~evidence[e].deleted -> "ACCEPTED"
         [] OTHER -> "DELETED"]

Until ==
    [e \in Evidence |-> IF evidence[e].accepted = 0 THEN evidence[e].expiresAt
                        ELSE evidence[e].retainedUntil]

Quarantine == [e \in Evidence |-> {evidence[e].upload} \ {NoContent}]

Clean ==
    [e \in Evidence |-> IF evidence[e].scan.status = "CLEAN" THEN {evidence[e].scan.digest}
                        ELSE {}]

Private ==
    [e \in Evidence |->
       {o.content : o \in {x \in objects : x.reference = evidence[e].accepted}}]

Vault ==
    INSTANCE EvidenceVault WITH
        Admitted <- {x \in Content : Admissible(x)}, stage <- Stage, until <- Until,
        quarantine <- Quarantine, clean <- Clean, private <- Private

ImplementsVault == Vault!Spec
=============================================================================
