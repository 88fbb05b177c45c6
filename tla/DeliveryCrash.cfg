\* The process may be killed between any two steps; nothing else goes wrong.
SPECIFICATION Spec
CONSTANTS
  e1 = e1  e2 = e2  e3 = e3
  w1 = w1  w2 = w2
  a1 = a1  a2 = a2
  retrier = retrier
  none = none
  Events <- MCOne
  Workers <- MCWorkers
  Retrier <- retrier
  Admins <- MCAdmin
  None <- none
  NoTarget <- MCEmpty
  Blocked <- MCEmpty
  MaxRetries = 1
  MaxCalls = 0
  MaxPosts = 5
  Operations = {}
  Faults = {"crash"}
INVARIANTS
  Custody
CHECK_DEADLOCK FALSE
