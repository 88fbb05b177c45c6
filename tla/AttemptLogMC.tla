---------------------------- MODULE AttemptLogMC ----------------------------
(***************************************************************************)
(* Instances of AttemptLog for TLC.                                        *)
(***************************************************************************)
EXTENDS AttemptLog, TLC

CONSTANTS r1, r2, r3, r4, none

MCRecorders == {r1, r2, r3, r4}
RecorderSymmetry == Permutations(MCRecorders)
=============================================================================
