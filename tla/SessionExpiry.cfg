\* Two workers of two instances, one of them ahead, while a session expires.
SPECIFICATION Spec
CONSTANTS
  ann = ann
  w1 = w1
  w2 = w2
  NoView = NoView
  Worker = {w1, w2}
  Account = {ann}
  Unsteady = {}
  Skew <- OneAhead
  IdleTtl = 2
  AbsoluteTtl = 3
  MaxTime = 1
  MaxSessions = 2
  MaxVersion = 1
PROPERTY ImplementsFamilies
