----------------------------- MODULE EventStream -----------------------------
(***************************************************************************)
(* The live stream of new events (GET /events/stream) and its follower       *)
(* `trusin dev`, which posts each of them to a local service.  A server task *)
(* polls Postgres for rows newer than the last created_at it has seen and    *)
(* feeds a bounded channel; the client reads the other end and reconnects    *)
(* when the connection breaks.                                              *)
(*                                                                         *)
(* enqueue_event stamps created_at before its transaction begins, and the    *)
(* transaction may wait for the row lock of the workspace (quota), so rows   *)
(* need not become visible in the order of their stamps.                    *)
(***************************************************************************)
EXTENDS Naturals, Sequences, FiniteSets

CONSTANTS
    Events,       \* events of the workspace and source being followed
    Limit,        \* LIMIT of the polling query, 100
    Capacity,     \* capacity of the channel to the client, 16
    MaxTime,      \* bound on the clock
    MaxConnects   \* bound on the connections of the client

ASSUME EventStreamAssumption ==
    /\ Limit \in Nat \ {0}
    /\ Capacity \in Nat \ {0}
    /\ MaxTime \in Nat
    /\ MaxConnects \in Nat

VARIABLES
    clock,     \* the time of the backend
    stage,     \* where the ingest transaction of each event is
    stamp,     \* created_at of each event
    open,      \* whether the client is connected
    connects,  \* connections so far
    opened,    \* when the present connection was opened
    lastSeen,  \* last_seen of the server task
    outbox,    \* rows of the last poll that are still to be sent
    channel,   \* what the client has not read yet
    mirrored,  \* what the client has posted to the local service
    late       \* history: rows that became visible behind the server task

ingestVars == <<stage, stamp>>
serverVars == <<opened, lastSeen, outbox>>
vars == <<clock, ingestVars, open, connects, serverVars, channel, mirrored, late>>

Init ==
    /\ clock = 0
    /\ stage = [e \in Events |-> "new"]
    /\ stamp = [e \in Events |-> 0]
    /\ open = FALSE
    /\ connects = 0
    /\ opened = 0
    /\ lastSeen = 0
    /\ outbox = << >>
    /\ channel = << >>
    /\ mirrored = << >>
    /\ late = {}

-----------------------------------------------------------------------------
(***************************************************************************)
(* Ingest.                                                                 *)
(***************************************************************************)
Tick ==
    /\ clock < MaxTime
    /\ clock' = clock + 1
    /\ UNCHANGED <<ingestVars, open, connects, serverVars, channel, mirrored, late>>

Stamp(e) ==
    /\ stage[e] = "new"
    /\ stage' = [stage EXCEPT ![e] = "stamped"]
    /\ stamp' = [stamp EXCEPT ![e] = clock]
    /\ UNCHANGED <<clock, open, connects, serverVars, channel, mirrored, late>>

Commit(e) ==
    /\ stage[e] = "stamped"
    /\ stage' = [stage EXCEPT ![e] = "visible"]
    /\ late' = IF open /\ stamp[e] <= lastSeen THEN late \cup {e} ELSE late
    /\ UNCHANGED <<clock, stamp, open, connects, serverVars, channel, mirrored>>

\* The quota is used up, or the database fails.
Abort(e) ==
    /\ stage[e] = "stamped"
    /\ stage' = [stage EXCEPT ![e] = "refused"]
    /\ UNCHANGED <<clock, stamp, open, connects, serverVars, channel, mirrored, late>>

-----------------------------------------------------------------------------
(***************************************************************************)
(* The server task of a connection.                                        *)
(***************************************************************************)
Connect ==
    /\ ~open
    /\ connects < MaxConnects
    /\ open' = TRUE
    /\ connects' = connects + 1
    /\ opened' = clock
    /\ lastSeen' = clock
    /\ UNCHANGED <<clock, ingestVars, outbox, channel, mirrored, late>>

\* Mutant: created_at >= last_seen.
FreshAgain == {e \in Events : stage[e] = "visible" /\ stamp[e] >= lastSeen}

\* WHERE created_at > last_seen.
Fresh == {e \in Events : stage[e] = "visible" /\ stamp[e] > lastSeen}

\* ORDER BY created_at ASC LIMIT: which of several rows with one stamp come
\* first, or at all, is up to Postgres.
Selections(rows) ==
    LET n == IF Cardinality(rows) < Limit THEN Cardinality(rows) ELSE Limit
    IN  {s \in [1..n -> rows] :
            /\ \A i, j \in 1..n : i < j => s[i] # s[j] /\ stamp[s[i]] <= stamp[s[j]]
            /\ \A e \in rows : (\A i \in 1..n : s[i] # e) => stamp[s[n]] <= stamp[e]}

\* Mutant: the next poll asks for what is newer than this poll.
PollSinceNow ==
    /\ open
    /\ outbox = << >>
    /\ Fresh # {}
    /\ outbox' \in Selections(Fresh)
    /\ lastSeen' = clock
    /\ UNCHANGED <<clock, ingestVars, open, connects, opened, channel, mirrored, late>>

\* A poll that finds nothing, or fails, changes nothing.
Poll ==
    /\ open
    /\ outbox = << >>
    /\ Fresh # {}
    /\ \E s \in Selections(Fresh) :
          /\ outbox' = s
          /\ lastSeen' = stamp[s[Len(s)]]
    /\ UNCHANGED <<clock, ingestVars, open, connects, opened, channel, mirrored, late>>

\* Mutant: an unbounded channel.
SendUnbounded ==
    /\ open
    /\ outbox # << >>
    /\ channel' = Append(channel, Head(outbox))
    /\ outbox' = Tail(outbox)
    /\ UNCHANGED <<clock, ingestVars, open, connects, opened, lastSeen, mirrored, late>>

\* Mutant: try_send, which drops what does not fit.
SendOrDrop ==
    /\ open
    /\ outbox # << >>
    /\ channel' = IF Len(channel) < Capacity THEN Append(channel, Head(outbox)) ELSE channel
    /\ outbox' = Tail(outbox)
    /\ UNCHANGED <<clock, ingestVars, open, connects, opened, lastSeen, mirrored, late>>

\* tx.send waits while the channel is full.
Send ==
    /\ open
    /\ outbox # << >>
    /\ Len(channel) < Capacity
    /\ channel' = Append(channel, Head(outbox))
    /\ outbox' = Tail(outbox)
    /\ UNCHANGED <<clock, ingestVars, open, connects, opened, lastSeen, mirrored, late>>

-----------------------------------------------------------------------------
(***************************************************************************)
(* The client: run_local_dev posts one event after the other, and goes on    *)
(* whatever the local service answers.                                      *)
(***************************************************************************)
Mirror ==
    /\ open
    /\ channel # << >>
    /\ mirrored' = Append(mirrored, Head(channel))
    /\ channel' = Tail(channel)
    /\ UNCHANGED <<clock, ingestVars, open, connects, serverVars, late>>

\* The connection breaks; what was on its way is gone.
Disconnect ==
    /\ open
    /\ open' = FALSE
    /\ outbox' = << >>
    /\ channel' = << >>
    /\ UNCHANGED <<clock, ingestVars, connects, opened, lastSeen, mirrored, late>>

Next ==
    \/ Tick
    \/ \E e \in Events : Stamp(e) \/ Commit(e) \/ Abort(e)
    \/ Connect \/ Poll \/ Send \/ Mirror \/ Disconnect

Spec == Init /\ [][Next]_vars

(***************************************************************************)
(* The server task polls every two seconds and sends when it can; the client *)
(* reads when it can.                                                       *)
(***************************************************************************)
FairSpec == Spec /\ WF_vars(Poll) /\ WF_vars(Send) /\ WF_vars(Mirror)

-----------------------------------------------------------------------------
\* Every variable keeps its type, and the channel its capacity.
TypeOK ==
    /\ clock \in 0..MaxTime
    /\ stage \in [Events -> {"new", "stamped", "visible", "refused"}]
    /\ stamp \in [Events -> 0..MaxTime]
    /\ open \in BOOLEAN
    /\ connects \in 0..MaxConnects
    /\ opened \in 0..MaxTime
    /\ lastSeen \in 0..MaxTime
    /\ outbox \in Seq(Events)
    /\ channel \in Seq(Events)
    /\ Len(channel) <= Capacity
    /\ mirrored \in Seq(Events)
    /\ late \subseteq Events

\* Everything on its way to the local service, the oldest first.
Pipeline == mirrored \o channel \o outbox

\* The local service sees no event twice, and sees them in the order of their
\* stamps, reconnections included.
MirroredInOrder ==
    \A i, j \in 1..Len(Pipeline) :
        i < j => /\ Pipeline[i] # Pipeline[j]
                 /\ stamp[Pipeline[i]] <= stamp[Pipeline[j]]

\* An event stamped during the connection that the server task has passed.
Passed(e) == open /\ stage[e] = "visible" /\ opened < stamp[e] /\ stamp[e] <= lastSeen
InPipeline(e) == \E i \in 1..Len(Pipeline) : Pipeline[i] = e
Tied(e) == \E f \in Events \ {e} : stage[f] = "visible" /\ stamp[f] = stamp[e]

\* During a connection the server task skips an event only if it became visible
\* behind it, or shares its stamp with another one (a LIMIT may fall between the
\* two; every event with such a stamp is excused, wherever the LIMIT falls).
OnlyLateMissed == \A e \in Events : Passed(e) => InPipeline(e) \/ e \in late \/ Tied(e)

\* An event that is visible before the server task has passed it reaches the
\* local service, unless the connection breaks first.
Arrives ==
    \A e \in Events :
        open /\ stage[e] = "visible" /\ stamp[e] > lastSeen
            ~> ~open \/ Tied(e) \/ \E i \in 1..Len(mirrored) : mirrored[i] = e

\* While the client is connected, each new event is mirrored.
MirrorsEach == \A e \in Events : Passed(e) => InPipeline(e) \/ Tied(e)
=============================================================================
