----------------------------- MODULE AttemptLog -----------------------------
(***************************************************************************)
(* record_attempt: the one SQL statement that appends an attempt to the      *)
(* timeline of an event, run by several tasks that deliver the same event    *)
(* at once (manual retries make that happen, see module Delivery).           *)
(*                                                                         *)
(* Postgres gives a statement its snapshot before it runs.  The statement    *)
(* takes the advisory lock of the event and computes MAX(attempt_number) + 1 *)
(* from that snapshot, so a number committed while it waited for the lock is *)
(* not seen; UNIQUE (event_id, attempt_number) refuses the second one and    *)
(* the caller ignores the error.                                            *)
(***************************************************************************)
EXTENDS Naturals, FiniteSets

CONSTANTS
    Recorders,  \* calls of record_attempt for one event
    None        \* nobody holds the advisory lock

ASSUME AttemptLogAssumption == None \notin Recorders

VARIABLES
    rows,      \* attempt numbers in delivery_attempts
    exists,    \* whether the webhook_events row is there
    pc,        \* where each call is
    snapshot,  \* the attempt numbers the call's statement sees
    lock,      \* who holds pg_advisory_xact_lock(hashtext(event_id))
    beside     \* history: calls that ran while another one was running

vars == <<rows, exists, pc, snapshot, lock, beside>>

Running == {c \in Recorders : pc[c] \in {"waiting", "locked"}}
Ended   == {c \in Recorders : pc[c] \in {"stored", "refused"}}

Init ==
    /\ rows = {}
    /\ exists = TRUE
    /\ pc = [c \in Recorders |-> "new"]
    /\ snapshot = [c \in Recorders |-> {}]
    /\ lock = None
    /\ beside = {}

\* The statement starts and takes its snapshot.
Begin(c) ==
    /\ pc[c] = "new"
    /\ pc' = [pc EXCEPT ![c] = "waiting"]
    /\ snapshot' = [snapshot EXCEPT ![c] = rows]
    /\ beside' = beside \cup (IF Running = {} THEN {} ELSE Running \cup {c})
    /\ UNCHANGED <<rows, exists, lock>>

\* Mutant: the statement does not wait for the lock.
LockUnawaited(c) ==
    /\ pc[c] = "waiting"
    /\ lock' = c
    /\ pc' = [pc EXCEPT ![c] = "locked"]
    /\ UNCHANGED <<rows, exists, snapshot, beside>>

AcquireLock(c) ==
    /\ pc[c] = "waiting"
    /\ lock = None
    /\ lock' = c
    /\ pc' = [pc EXCEPT ![c] = "locked"]
    /\ UNCHANGED <<rows, exists, snapshot, beside>>

\* Mutant: the number is the caller's own count of attempts, retry_count + 1
\* (the argument _attempt_number, which the code ignores), here of a first retry.
NextAttemptOfCaller(numbers) == 2

\* Mutant: MAX(attempt_number) without + 1.
NextAttemptMax(numbers) ==
    IF numbers = {} THEN 1 ELSE CHOOSE n \in numbers : \A k \in numbers : k <= n

\* COALESCE(MAX(attempt_number), 0) + 1 over a set of attempt numbers.
NextAttempt(numbers) ==
    IF numbers = {} THEN 1
    ELSE CHOOSE n \in {k + 1 : k \in numbers} : \A k \in numbers : k < n

\* The INSERT, and the end of the transaction, which releases the lock.
Insert(c) ==
    LET n == NextAttempt(snapshot[c])
    IN  /\ pc[c] = "locked"
        /\ \/ /\ exists
              /\ n \notin rows
              /\ rows' = rows \cup {n}
              /\ pc' = [pc EXCEPT ![c] = "stored"]
           \/ /\ ~exists \/ n \in rows
              /\ pc' = [pc EXCEPT ![c] = "refused"]
              /\ UNCHANGED rows
        /\ lock' = None
        /\ UNCHANGED <<exists, snapshot, beside>>

\* The event is deleted, and its attempts with it (ON DELETE CASCADE).
DeleteEvent ==
    /\ exists
    /\ exists' = FALSE
    /\ rows' = {}
    /\ UNCHANGED <<pc, snapshot, lock, beside>>

Next ==
    \/ \E c \in Recorders : Begin(c) \/ AcquireLock(c) \/ Insert(c)
    \/ DeleteEvent

Spec == Init /\ [][Next]_vars

-----------------------------------------------------------------------------
\* Every variable keeps its type, and the lock is held by the one call that is
\* past it.
TypeOK ==
    /\ rows \subseteq Nat
    /\ exists \in BOOLEAN
    /\ pc \in [Recorders -> {"new", "waiting", "locked", "stored", "refused"}]
    /\ snapshot \in [Recorders -> SUBSET Nat]
    /\ lock \in Recorders \cup {None}
    /\ \A c \in Recorders : pc[c] = "locked" <=> lock = c
    /\ beside \subseteq Recorders

\* The timeline has no holes: attempts are numbered 1, 2, 3, ... although the
\* numbers are computed from snapshots that may be out of date.
NumbersDense == rows = 1..Cardinality(rows)

\* The attempt of an existing event is refused only when another call ran at
\* the same time; a call that runs alone is never lost.
LostOnlyInRace ==
    \A c \in Recorders : pc[c] = "refused" /\ exists => c \in beside

\* The timeline shows every attempt that was recorded while the event exists.
OneRowPerAttempt == exists => Cardinality(rows) = Cardinality(Ended)
=============================================================================
