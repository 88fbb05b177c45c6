\* Two attempts recorded at once take the same number.
SPECIFICATION Spec
CONSTANTS
  r1 = r1  r2 = r2  r3 = r3  r4 = r4
  none = none
  Recorders <- MCRecorders
  None <- none
SYMMETRY RecorderSymmetry
INVARIANTS
  OneRowPerAttempt
CHECK_DEADLOCK FALSE
