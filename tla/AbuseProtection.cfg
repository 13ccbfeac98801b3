\* Three evaluations at once over two axes, one attempt admitted on each.
SPECIFICATION Spec
CONSTANTS
  w1 = w1
  w2 = w2
  w3 = w3
  net = net
  ann = ann
  ben = ben
  Absent = Absent
  NoCall = NoCall
  Worker = {w1, w2, w3}
  Subject = {net, ann, ben}
  Maximum <- One
  Length <- NetworkShorter
  Request <- MCRequest
  BatchSize = 1
  MaxTime = 2
  MaxCount = 2
SYMMETRY Workers
INVARIANTS
  AdmittedWithinLimit
  DenialAuditedOnce
  CountersNeverDeadlock
PROPERTIES
  ImplementsCounters
\* the bounds on time and on the counts stop it
CHECK_DEADLOCK FALSE
