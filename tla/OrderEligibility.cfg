\* Requests of every kind that must be denied.
SPECIFICATION Spec
CONSTANTS
  ann = ann
  ben = ben
  sam = sam
  k1 = k1
  t1 = t1
  t2 = t2
  t3 = t3
  shop = shop
  carry = carry
  w1 = w1
  w2 = w2
  w3 = w3
  NoRecord = NoRecord
  NoRequest = NoRequest
  Worker = {w1}
  Account = {ann, sam}
  Key = {k1}
  Trip = {t1, t2, t3}
  Mode = {shop, carry}
  Terms <- MCTerms
  Request <- EligibilityRequest
  Offer <- EligibilityOffer
  Capacity <- OneUnitEach
  Retention = 2
  MaxAttempts = 3
  MaxTime = 3
  Unsteady = {ann, sam}
PROPERTY ImplementsOrderBook
