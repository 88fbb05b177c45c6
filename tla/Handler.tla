------------------------------- MODULE Handler -------------------------------
(***************************************************************************)
(* The frame of an axum handler: a request that runs one statement per step  *)
(* and keeps its local variables between them, so that the steps of two       *)
(* requests interleave.  A history variable says which of them were          *)
(* overtaken: somebody else changed what they had read and still rely on.     *)
(***************************************************************************)
EXTENDS Naturals, FiniteSets

CONSTANTS
    Requests,  \* requests, made in this order, once each
    None       \* NULL, no row, or no argument

ASSUME RequestsAssumption == Requests \subseteq Nat /\ None \notin Requests

VARIABLES
    req,       \* where each request is, and its local variables
    overtaken  \* history: the requests that were overtaken

Idle == [pc |-> "idle", op |-> None, who |-> None, on |-> None, as |-> None, saw |-> None]
Over == [Idle EXCEPT !.pc = "over"]
Busy(r) == req[r].pc \notin {"idle", "over"}

HandlerInit ==
    /\ req = [r \in Requests |-> Idle]
    /\ overtaken = [r \in Requests |-> FALSE]

\* auth_middleware reads the caller's row once; that row goes with the request.
Enter(r, pc, op, who, on, as) ==
    /\ req[r] = Idle
    /\ \A s \in Requests : s < r => req[s] # Idle
    /\ req' = [req EXCEPT ![r] = [pc |-> pc, op |-> op, who |-> who,
                                  on |-> on, as |-> as, saw |-> None]]

\* A handler that is a single statement.
Once(r) == Enter(r, "over", None, None, None, None)

Goto(r, pc)    == req' = [req EXCEPT ![r].pc = pc]
Keep(r, x, pc) == req' = [req EXCEPT ![r].saw = x, ![r].pc = pc]
Finish(r)      == req' = [req EXCEPT ![r] = Over]

\* A step, of a request or not, overtakes those who rely on what it changes.
Overtake(r, relying) ==
    overtaken' = [s \in Requests |-> overtaken[s] \/ (s # r /\ Busy(s) /\ s \in relying)]

\* The request whose step this is.
Acts(r) == req'[r] # req[r]
=============================================================================
