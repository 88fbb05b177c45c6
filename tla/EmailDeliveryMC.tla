--------------------------- MODULE EmailDeliveryMC ---------------------------
(***************************************************************************)
(* An instance of EmailDelivery for TLC.                                   *)
(***************************************************************************)
EXTENDS EmailDelivery

CONSTANTS hello, nudge, reminder, callback, worker, none

MCWelcomes  == {hello}
MCFollowUps == {nudge, reminder}
MCCallbacks == {callback}
MCCreated   == [d \in Deliveries |-> IF d = reminder THEN 1 ELSE 2]

\* One account signs up, or the follow-ups of two older ones compete.
MCBacklogs == {{}, {nudge, reminder}}
=============================================================================
