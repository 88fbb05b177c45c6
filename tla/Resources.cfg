\* Two rules, a domain, an API key, a passkey; two requests of any kind.
SPECIFICATION Spec
CONSTANTS
  ann = ann
  k1 = k1
  k2 = k2
  stripe = stripe
  star = star
  t1 = t1
  t2 = t2
  fallback = fallback
  shop = shop
  none = none
  Requests <- MCRequests
  None <- none
  Olds <- MCOlds
  Sources <- MCSources
  Star <- star
  Targets <- MCTargets
  Fallback <- fallback
  Hosts <- MCHosts
  Limit <- MCLimit
  EventLimit = 1
  Users <- MCUsers
  Keys <- MCKeys
  OldRules <- MCOldRules
  OldKeys <- MCOldKeys
INVARIANTS
  TypeOK
  LogTrue
PROPERTIES
  QuotaKept
  EditsStick
  
  HooksMeant
  CounterRises
CHECK_DEADLOCK FALSE
