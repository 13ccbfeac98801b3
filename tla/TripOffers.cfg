\* Two workers on one trip of ann, from its draft to its discussion, beside a published one.
SPECIFICATION Spec
CONSTANTS
  ann = ann
  mod = mod
  t1 = t1
  t2 = t2
  w1 = w1
  w2 = w2
  NoTrip = NoTrip
  NoCall = NoCall
  NoView = NoView
  Worker = {w1, w2}
  Account = {ann, mod}
  Trip = {t1, t2}
  IdBefore <- FirstId
  Day = 2
  Skew <- InStep
  Schedule <- MCSchedule
  Assured = {mod}
  Granted = {mod}
  Unsteady <- MCUnsteady
  Stored <- OnePublished
  Input <- MCInput
  Answerer = {ann, mod}
  MaxTime = 1
  MaxQuestions = 1
SYMMETRY Workers
INVARIANTS
  TypeOK
  DecidedOnce
  PublishedTripsProject
PROPERTIES
  PagingMissesNothing
  ImplementsCatalogue
