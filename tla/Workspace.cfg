\* Two founders and a guest; two requests of any kind, interleaved.
SPECIFICATION Spec
CONSTANTS
  ann = ann
  bob = bob
  gil = gil
  gilGoogle = gilGoogle
  gilGithub = gilGithub
  f1 = f1
  ours = ours
  none = none
  gone = gone
  Emails <- MCEmails
  Founders <- MCFounders
  Identities <- MCIdentities
  EmailOf <- MCEmailOf
  Invites <- MCInvites
  Requests <- MCRequests
  Flows <- MCFlows
  Ours <- ours
  None <- none
  Gone <- gone
SYMMETRY MCSymmetry
INVARIANTS
  TypeOK
  FreeClosed
  SeatsByInvite
PROPERTIES
  JoinsByLiveInvite
  AdminLeft
  OneBootstrap
  UpgradesMeant
  SpentOnce
CHECK_DEADLOCK FALSE
