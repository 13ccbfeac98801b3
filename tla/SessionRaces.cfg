\* Two workers on the sessions of one account, with the clock at rest.
SPECIFICATION Spec
CONSTANTS
  ann = ann
  w1 = w1
  w2 = w2
  NoView = NoView
  Worker = {w1, w2}
  Account = {ann}
  Unsteady = {ann}
  Skew <- InStep
  IdleTtl = 1
  AbsoluteTtl = 2
  MaxTime = 0
  MaxSessions = 3
  MaxVersion = 2
SYMMETRY Workers
INVARIANTS
  FamiliesAreChains
PROPERTIES
  ReuseEndsFamily
  RevocationIsTotal
  AcceptedWhileActive
