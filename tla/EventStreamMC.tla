---------------------------- MODULE EventStreamMC ----------------------------
(***************************************************************************)
(* Instances of EventStream for TLC.                                       *)
(***************************************************************************)
EXTENDS EventStream, TLC

CONSTANTS e1, e2, e3

MCEvents == {e1, e2, e3}
=============================================================================
