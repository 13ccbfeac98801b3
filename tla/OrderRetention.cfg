\* One key used for two trips while its record expires.
SPECIFICATION Spec
CONSTANTS
  ann = ann
  ben = ben
  sam = sam
  k1 = k1
  t1 = t1
  t2 = t2
  t3 = t3
  shop = shop
  carry = carry
  w1 = w1
  w2 = w2
  w3 = w3
  NoRecord = NoRecord
  NoRequest = NoRequest
  Worker = {w1, w2}
  Account = {ann, sam}
  Key = {k1}
  Trip = {t1, t2}
  Mode = {shop, carry}
  Terms <- MCTerms
  Request <- RetentionRequest
  Offer <- RetentionOffer
  Capacity <- TwoUnitsEach
  Retention = 1
  MaxAttempts = 2
  MaxTime = 3
  Unsteady = {}
SYMMETRY Workers
INVARIANTS
  OneOrderPerKey
  RetainedOrdersReplay
  IndInv
