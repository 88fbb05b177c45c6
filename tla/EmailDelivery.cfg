\* A new account, or two older ones whose follow-ups compete for the one place in
\* the batch; crashes, overruns, lost answers and failing writes.
SPECIFICATION FairSpec
CONSTANTS
  hello = hello
  nudge = nudge
  reminder = reminder
  callback = callback
  worker = worker
  none = none
  Welcomes <- MCWelcomes
  FollowUps <- MCFollowUps
  Backlogs <- MCBacklogs
  Created <- MCCreated
  BatchSize = 1
  Callbacks <- MCCallbacks
  Worker <- worker
  None <- none
  Faults = {"provider", "db", "crash"}
  MaxAttempts = 2
INVARIANTS
  TypeOK
  OneSender
  MailsAccounted
  NoSecondCopy
PROPERTIES
  ClosedSticks
  Concluded
CHECK_DEADLOCK FALSE
