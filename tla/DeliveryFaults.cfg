\* Every fault at once, refused and missing targets: the engine still never
\* gives an id to two tasks.
SPECIFICATION Spec
CONSTANTS
  e1 = e1  e2 = e2  e3 = e3
  w1 = w1  w2 = w2
  a1 = a1  a2 = a2
  retrier = retrier
  none = none
  Events <- MCThree
  Workers <- MCWorkers
  Retrier <- retrier
  Admins <- MCAdmin
  None <- none
  NoTarget <- MCOther
  Blocked <- MCOne
  MaxRetries = 1
  MaxCalls = 1
  MaxPosts = 2
  Operations = {"delete"}
  Faults = {"crash", "redis", "db", "dns"}
SYMMETRY TaskSymmetry
INVARIANTS
  OneOwner
CHECK_DEADLOCK FALSE
