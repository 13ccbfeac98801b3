\* Two workers of two instances, the second one ahead, on the discussion of a published trip.
SPECIFICATION Spec
CONSTANTS
  ann = ann
  mod = mod
  t1 = t1
  t2 = t2
  w1 = w1
  w2 = w2
  NoTrip = NoTrip
  NoCall = NoCall
  NoView = NoView
  Worker = {w1, w2}
  Account = {ann, mod}
  Trip = {t2}
  IdBefore <- FirstId
  Day = 2
  Skew <- OneAhead
  Schedule <- MCSchedule
  Assured = {mod}
  Granted = {mod}
  Unsteady = {}
  Stored <- Discussed
  Input <- SkewInput
  Answerer = {ann, mod}
  MaxTime = 1
  MaxQuestions = 1
INVARIANT PublishedTripsProject
