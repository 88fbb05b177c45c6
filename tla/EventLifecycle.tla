--------------------------- MODULE EventLifecycle ---------------------------
(***************************************************************************)
(* The life of an event as the API and the dashboard present it: what a     *)
(* webhook_events row may go through when nobody replays it by hand.  No     *)
(* queues, workers or requests here; module Delivery implements this.       *)
(***************************************************************************)
EXTENDS Naturals

CONSTANTS
    Events,      \* the events that may be ingested
    MaxRetries,  \* retries an event is entitled to
    Refusable    \* events whose target URL may be refused before any POST

VARIABLES
    status,  \* what the dashboard shows, "none" when there is no event
    tries,   \* scheduled retries so far
    born     \* events that have been accepted, deleted ones included

lifecycle == <<status, tries, born>>

Open(e) == status[e] \in {"queued", "retrying"}
Live(e) == status[e] # "none"

Init ==
    /\ status = [e \in Events |-> "none"]
    /\ tries = [e \in Events |-> 0]
    /\ born = {}

Become(e, s) == status' = [status EXCEPT ![e] = s]

Accept(e) ==
    /\ e \notin born
    /\ born' = born \cup {e}
    /\ Become(e, "queued")
    /\ UNCHANGED tries

\* One retry more is scheduled; the entitlement is never exceeded, the count
\* never repeated or skipped.
Reschedule(e) ==
    /\ Open(e)
    /\ tries[e] < MaxRetries
    /\ Become(e, "retrying")
    /\ tries' = [tries EXCEPT ![e] = @ + 1]
    /\ UNCHANGED born

Settle(e) ==
    /\ Open(e)
    /\ \E s \in {"delivered", "failed"} : Become(e, s)
    /\ UNCHANGED <<tries, born>>

\* The URL is refused: failed, even if it had been acknowledged just before.
Refuse(e) ==
    /\ e \in Refusable
    /\ Live(e)
    /\ Become(e, "failed")
    /\ UNCHANGED <<tries, born>>

Acknowledge(e) ==
    /\ Live(e)
    /\ Become(e, "delivered")
    /\ UNCHANGED <<tries, born>>

Remove(e) ==
    /\ Live(e)
    /\ Become(e, "none")
    /\ tries' = [tries EXCEPT ![e] = 0]
    /\ UNCHANGED born

Next ==
    \E e \in Events :
        \/ Accept(e) \/ Reschedule(e) \/ Settle(e)
        \/ Refuse(e) \/ Acknowledge(e) \/ Remove(e)

Spec == Init /\ [][Next]_lifecycle
=============================================================================
