\* Two logins at once, in one browser or in two, by one person or by two.
SPECIFICATION Spec
CONSTANTS
  w1 = w1
  w2 = w2
  b1 = b1
  b2 = b2
  a1 = a1
  a2 = a2
  ann = ann
  ben = ben
  Absent = Absent
  NoCall = NoCall
  Worker = {w1, w2}
  Browser = {b1, b2}
  Attempt = {a1, a2}
  Subject = {ann, ben}
  Unsteady = {ann}
SYMMETRY Alike
INVARIANTS
  TypeOK
  OneSessionPerAttempt
  SessionOfItsLogin
  OneAccountPerIdentity
PROPERTIES
  ImplementsLogins
