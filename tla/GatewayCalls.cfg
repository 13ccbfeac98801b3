\* Three calls on one order while the clock moves twice.
SPECIFICATION FairSpec
CONSTANTS
  c1 = c1
  c2 = c2
  c3 = c3
  p1 = p1
  p2 = p2
  o1 = o1
  k1 = k1
  Call = {c1, c2, c3}
  Key <- Keys
  Payload = {p1, p2}
  Result <- Receipts
  NoKey = NoKey
  NoPayload = NoPayload
  NoResult = 0
  Configured = {"payment.initiate", "payment.refund"}
  Uncertain = {"payment.refund"}
  MaxPerformed = 3
  Retention = 1
  MaxTime = 2
INVARIANTS
  NeverBlindlyRepeated
  AnswersTruthful
PROPERTIES
  ClaimsEnd
  ImplementsRegister
CHECK_DEADLOCK FALSE
