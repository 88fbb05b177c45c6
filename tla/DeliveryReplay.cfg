\* Manual retries by one admin at a time, no faults: ids may have many owners.
SPECIFICATION FairSpec
CONSTANTS
  e1 = e1  e2 = e2  e3 = e3
  w1 = w1  w2 = w2
  a1 = a1  a2 = a2
  retrier = retrier
  none = none
  Events <- MCOne
  Workers <- MCWorker
  Retrier <- retrier
  Admins <- MCAdmin
  None <- none
  NoTarget <- MCEmpty
  Blocked <- MCEmpty
  MaxRetries = 1
  MaxCalls = 2
  MaxPosts = 8
  Operations = {"retry", "ack"}
  Faults = {}
INVARIANTS
  Custody
PROPERTIES
  DeliveredSticks
  Settles
CHECK_DEADLOCK FALSE
