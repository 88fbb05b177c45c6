\* As Resources.cfg; a provider for `*` is created, then a webhook comes in.
SPECIFICATION Spec
CONSTANTS
  ann = ann
  k1 = k1
  k2 = k2
  stripe = stripe
  star = star
  t1 = t1
  t2 = t2
  fallback = fallback
  shop = shop
  none = none
  Requests <- MCRequests
  None <- none
  Olds <- MCOlds
  Sources <- MCSources
  Star <- star
  Targets <- MCTargets
  Fallback <- fallback
  Hosts <- MCHosts
  Limit <- MCLimit
  EventLimit = 1
  Users <- MCUsers
  Keys <- MCKeys
  OldRules <- MCOldRules
  OldKeys <- MCOldKeys
PROPERTIES
  WildcardRoutes
CHECK_DEADLOCK FALSE
