\* Four calls about one evidence, under two keys each, in one tick of every lifetime.
\* The third reference is what promoting the evidence a second time would take.
SPECIFICATION Spec
CONSTANTS
  ann = ann
  e1 = e1
  purchase = purchase
  c1 = c1
  c2 = c2
  c3 = c3
  c4 = c4
  k1 = k1
  k2 = k2
  Call = {c1, c2, c3, c4}
  Key <- Keys
  Payload <- Payloads
  Result <- References
  NoKey = NoKey
  NoPayload = NoPayload
  NoResult = 0
  Retention = 1
  MaxTime = 1
  Evidence <- Ids
  Classification = {purchase}
  Content <- Contents
  MaximumByteLength = 8
  AllowedMediaTypes = {"image/png"}
  UploadIntentTtl = 1
  AcceptedRetention = 1
  MaxReference = 3
  NoContent = NoContent
  NoClassification = NoClassification
SYMMETRY Symmetric
INVARIANTS
  AcceptedIsClean
  StoredWhileAccepted
PROPERTIES
  AcceptancesAgree
  KeptUntilExpiry
  ImplementsVault
CHECK_DEADLOCK FALSE
