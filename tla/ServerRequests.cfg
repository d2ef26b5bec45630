SPECIFICATION MCSpec
CONSTANTS
  None = None
  Process = {p, q}
  SessionId = {s}
  User = {u}
  Idle = 2
  Absolute = 3
  MaxTime = 4
  Account = {u1, u2}
  Address = {h}
  Password = {a, b}
  Allowed = {b}
  MaxDay = 1
  Server = {p1}
  Org = {o1, o2}
  Queue = {q1}
  Case = {c1, c2}
SYMMETRY Alike
INVARIANTS
  TypesOK
  ServedWasLive
  LoginsAreHonest
  AnswersAreForMembers
  AnswersAreConsistent
PROPERTIES
  SessionsOnlyAge
  DecidedByReviewers
