\* Two buyers after one unit, with fair workers.
SPECIFICATION FairSpec
CONSTANTS
  ann = ann
  ben = ben
  sam = sam
  k1 = k1
  t1 = t1
  t2 = t2
  t3 = t3
  shop = shop
  carry = carry
  w1 = w1
  w2 = w2
  w3 = w3
  NoRecord = NoRecord
  NoRequest = NoRequest
  Worker = {w1, w2}
  Account = {ann, ben, sam}
  Key = {k1}
  Trip = {t1}
  Mode = {shop, carry}
  Terms <- MCTerms
  Request <- RaceRequest
  Offer <- RaceOffer
  Capacity <- OneUnit
  Retention = 2
  MaxAttempts = 3
  MaxTime = 0
  Unsteady = {}
PROPERTY EverySubmissionEnds
