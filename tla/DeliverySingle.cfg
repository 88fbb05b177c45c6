\* No manual retry: every id has one owner.  Crashes and Redis errors happen.
SPECIFICATION Spec
CONSTANTS
  e1 = e1  e2 = e2  e3 = e3
  w1 = w1  w2 = w2
  a1 = a1  a2 = a2
  retrier = retrier
  none = none
  Events <- MCEvents
  Workers <- MCWorkers
  Retrier <- retrier
  Admins <- MCAdmins
  None <- none
  NoTarget <- MCEmpty
  Blocked <- MCEmpty
  MaxRetries = 1
  MaxCalls = 2
  MaxPosts = 5
  Operations = {"ack", "delete", "expire"}
  Faults = {"crash", "redis"}
SYMMETRY TaskSymmetry
INVARIANTS
  TypeOK
  OneOwner
  AttemptBudget
  OneVerdict
  AttemptsAccounted
PROPERTIES
  DeliveredSticks
  ImplementsLifecycle
CHECK_DEADLOCK FALSE
