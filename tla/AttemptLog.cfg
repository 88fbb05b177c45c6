\* Four attempts of one event are recorded in any overlap, and it may be deleted.
SPECIFICATION Spec
CONSTANTS
  r1 = r1  r2 = r2  r3 = r3  r4 = r4
  none = none
  Recorders <- MCRecorders
  None <- none
SYMMETRY RecorderSymmetry
INVARIANTS
  TypeOK
  NumbersDense
  LostOnlyInRace
CHECK_DEADLOCK FALSE
