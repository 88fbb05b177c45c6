\* Three events, stamped and committed in any order; the client reconnects once.
SPECIFICATION FairSpec
CONSTANTS
  e1 = e1  e2 = e2  e3 = e3
  Events <- MCEvents
  Limit = 2
  Capacity = 1
  MaxTime = 3
  MaxConnects = 2
INVARIANTS
  TypeOK
  MirroredInOrder
  OnlyLateMissed
PROPERTIES
  Arrives
CHECK_DEADLOCK FALSE
