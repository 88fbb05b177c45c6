----------------------------- MODULE DeliveryMC -----------------------------
(***************************************************************************)
(* Instances of Delivery for TLC.                                          *)
(***************************************************************************)
EXTENDS Delivery, TLC

CONSTANTS e1, e2, e3, w1, w2, a1, a2, retrier, none

MCEvents  == {e1, e2}
MCThree   == {e1, e2, e3}
MCOne     == {e1}
MCOther   == {e2}
MCWorkers == {w1, w2}
MCWorker  == {w1}
MCAdmins  == {a1, a2}
MCAdmin   == {a1}
MCEmpty   == {}

\* Tasks of the pool, and requests, are interchangeable.
TaskSymmetry == Permutations(MCWorkers) \cup Permutations(MCAdmins)
=============================================================================
