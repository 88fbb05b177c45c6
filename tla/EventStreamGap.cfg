\* A row committed behind the cursor of the stream is never mirrored.
SPECIFICATION Spec
CONSTANTS
  e1 = e1  e2 = e2  e3 = e3
  Events <- MCEvents
  Limit = 2
  Capacity = 1
  MaxTime = 3
  MaxConnects = 2
INVARIANTS
  MirrorsEach
CHECK_DEADLOCK FALSE
