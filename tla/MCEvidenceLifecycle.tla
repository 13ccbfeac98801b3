------------------------ MODULE MCEvidenceLifecycle -------------------------
(***************************************************************************)
(* An instance of EvidenceLifecycle for TLC: one account, an image, and a  *)
(* file that is not an image.                                              *)
(***************************************************************************)
EXTENDS EvidenceLifecycle, TLC

CONSTANTS ann, e1, purchase, k1, k2, c1, c2, c3, c4

Ids == {[owner |-> ann, id |-> e1]}

Keys == [owner : {ann}, key : {k1, k2}, operation :
           {"evidence.upload-intent.create", "evidence.accept", "evidence.delete-expired"}]

Payloads == [evidence : Evidence, what : Classification \cup (1 .. MaxReference)]
References == 1 .. MaxReference

Image == [length |-> 8, signature |-> "89 PNG 0d 0a 1a 0a"]
NotAnImage == [length |-> 8, signature |-> "other"]
Contents == {Image, NotAnImage}

Symmetric == Permutations({c1, c2, c3, c4}) \cup Permutations({k1, k2})
=============================================================================
