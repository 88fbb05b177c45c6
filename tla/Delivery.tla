------------------------------ MODULE Delivery ------------------------------
(***************************************************************************)
(* The delivery engine of the backend: webhook_events rows in Postgres, the *)
(* Redis list terusin:queue, the Redis sorted set terusin:retry, the pool   *)
(* of `worker` tasks, the single `retry_worker` task, the ingest requests   *)
(* that feed them and the admin requests that interfere with them.          *)
(*                                                                         *)
(* Every step between two awaits of the code is an action of its own, so    *)
(* the tasks interleave exactly where the async runtime lets them.          *)
(***************************************************************************)
EXTENDS RedisList, FiniteSets

CONSTANTS
    Events,      \* the webhook_events that may be ingested
    Workers,     \* the `worker` tasks, WORKER_COUNT of them
    Retrier,     \* the one `retry_worker` task
    Admins,      \* concurrent admin HTTP requests
    None,        \* no event
    NoTarget,    \* events whose target_url is the empty string
    Blocked,     \* events whose target is a private or malformed URL
    MaxRetries,  \* MAX_RETRIES
    Operations,  \* which of retry, ack, delete, expire the instance exercises
    Faults,      \* which of crash, redis, db, dns the instance suffers
    MaxCalls,    \* bound on the number of admin requests
    MaxPosts     \* bound on the POSTs of one event

Hands == Workers \cup {Retrier}

ASSUME DeliveryAssumption ==
    /\ Retrier \notin Workers
    /\ None \notin Events
    /\ NoTarget \subseteq Events
    /\ Blocked \subseteq Events
    /\ NoTarget \cap Blocked = {}
    /\ MaxRetries \in Nat
    /\ MaxCalls \in Nat
    /\ MaxPosts \in Nat
    /\ Operations \subseteq {"retry", "ack", "delete", "expire"}
    /\ Faults \subseteq {"crash", "redis", "db", "dns"}

VARIABLES
    status,    \* webhook_events.status; "none" when there is no row
    retries,   \* webhook_events.retry_count
    logged,    \* delivery_attempts rows of the event
    queue,     \* terusin:queue
    retrySet,  \* members of terusin:retry
    due,       \* events whose latest retry score has been reached by the clock
    hand,      \* local state of the delivery tasks
    ingest,    \* progress of the request that brings the event in
    admin,     \* local state of the admin requests
    calls,     \* admin requests made so far
    sent,      \* history: POSTs of the event to its target
    accepted,  \* history: events whose target processed a POST
    hooks,     \* history: outcomes announced to the event's hooks
    dropped    \* history: events whose request was cut off before its LPUSH

rowVars   == <<status, retries, logged>>
redisVars == <<queue, retrySet>>
history   == <<sent, accepted, hooks, dropped>>
vars      == <<rowVars, redisVars, due, hand, ingest, admin, calls, history>>

(***************************************************************************)
(* A delivery task holds the id it popped, the retry_count it read with the *)
(* row before the POST, and what became of the POST: a 2xx answer (ok), a    *)
(* 408, 429 or 5xx answer (soft), any other answer (hard), a transport       *)
(* error (neterr), or no POST at all because validate_target_url refused     *)
(* the URL by policy (rejected) or could not resolve its host (unresolved).  *)
(***************************************************************************)
Answers  == {"ok", "soft", "hard", "neterr"}
Refusals == {"rejected", "unresolved"}
Verdicts == Answers \cup Refusals \cup {"unknown"}
HandPcs  == {"idle", "putback", "fetch", "post", "check", "record", "update",
             "zadd", "notify"}
HandStates == [pc : HandPcs, job : Events \cup {None}, tries : Nat, verdict : Verdicts]
IdleHand == [pc |-> "idle", job |-> None, tries |-> 0, verdict |-> "unknown"]

AdminPcs  == {"idle", "reset", "unschedule", "push", "scrubQueue", "scrubRetry"}
IdleAdmin == [pc |-> "idle", job |-> None]

Statuses == {"none", "queued", "retrying", "delivered", "failed"}

Init ==
    /\ status   = [e \in Events |-> "none"]
    /\ retries  = [e \in Events |-> 0]
    /\ logged   = [e \in Events |-> 0]
    /\ queue    = << >>
    /\ retrySet = {}
    /\ due      = {}
    /\ hand     = [h \in Hands |-> IdleHand]
    /\ ingest   = [e \in Events |-> "new"]
    /\ admin    = [a \in Admins |-> IdleAdmin]
    /\ calls    = 0
    /\ sent     = [e \in Events |-> 0]
    /\ accepted = {}
    /\ hooks    = [e \in Events |-> << >>]
    /\ dropped  = {}

-----------------------------------------------------------------------------
(***************************************************************************)
(* Redis and Postgres as the code uses them: an error of a write is dropped *)
(* with .ok() and the caller goes on as if it had happened.                 *)
(***************************************************************************)
RedisWrite(list, set) ==
    \/ /\ queue' = list
       /\ retrySet' = set
    \/ /\ "redis" \in Faults
       /\ UNCHANGED redisVars

\* Mutant: the clause AND status != 'delivered' is left out everywhere.
UpdateRowUnguarded(e, guarded, s, n) ==
    \/ /\ status[e] # "none"
       /\ status' = [status EXCEPT ![e] = s]
       /\ retries' = [retries EXCEPT ![e] = n]
    \/ /\ status[e] = "none" \/ "db" \in Faults
       /\ UNCHANGED <<status, retries>>

\* UPDATE webhook_events SET status, retry_count WHERE id = e, with or without
\* the clause AND status != 'delivered'.
UpdateRow(e, guarded, s, n) ==
    \/ /\ status[e] # "none"
       /\ guarded => status[e] # "delivered"
       /\ status' = [status EXCEPT ![e] = s]
       /\ retries' = [retries EXCEPT ![e] = n]
    \/ /\ \/ status[e] = "none"
          \/ guarded /\ status[e] = "delivered"
          \/ "db" \in Faults
       /\ UNCHANGED <<status, retries>>

\* DELETE of the row; delivery_attempts go with it (ON DELETE CASCADE).
DropRow(e) ==
    /\ status' = [status EXCEPT ![e] = "none"]
    /\ retries' = [retries EXCEPT ![e] = 0]
    /\ logged' = [logged EXCEPT ![e] = 0]

Goto(h, pc) == hand' = [hand EXCEPT ![h].pc = pc]
Release(h)  == hand' = [hand EXCEPT ![h] = IdleHand]

-----------------------------------------------------------------------------
(***************************************************************************)
(* Ingest: enqueue_event commits the row, then pushes the id.  A failed     *)
(* LPUSH is logged and the caller is still told "queued".                   *)
(*                                                                         *)
(* axum drops the future of a handler whose client hangs up: the request     *)
(* ends at the await it has reached and nothing takes up the rest.  An LPUSH *)
(* that was on its way then happens or not; it is Enqueue, or it is not.     *)
(***************************************************************************)
Accept(e) ==
    /\ ingest[e] = "new"
    /\ status' = [status EXCEPT ![e] = "queued"]
    /\ ingest' = [ingest EXCEPT ![e] = "pushing"]
    /\ UNCHANGED <<retries, logged, redisVars, due, hand, admin, calls, history>>

Enqueue(e) ==
    /\ ingest[e] = "pushing"
    /\ RedisWrite(Lpush(queue, e), retrySet)
    /\ ingest' = [ingest EXCEPT ![e] = "done"]
    /\ UNCHANGED <<rowVars, due, hand, admin, calls, history>>

\* The client hangs up between the COMMIT and the LPUSH.
AbandonIngest(e) ==
    /\ ingest[e] = "pushing"
    /\ ingest' = [ingest EXCEPT ![e] = "done"]
    /\ dropped' = dropped \cup {e}
    /\ UNCHANGED <<rowVars, redisVars, due, hand, admin, calls, sent, accepted, hooks>>

-----------------------------------------------------------------------------
(***************************************************************************)
(* The delivery tasks.  BRPOP and ZPOPMIN take the id out of Redis before    *)
(* anything is known of its delivery.                                       *)
(***************************************************************************)
\* Mutant: the id is read (LRANGE) and left in the list while it is handled.
BrpopPeek(w) ==
    /\ hand[w].pc = "idle"
    /\ queue # << >>
    /\ hand' = [hand EXCEPT ![w] = [IdleHand EXCEPT !.pc = "fetch",
                                                   !.job = BrpopId(queue)]]
    /\ UNCHANGED <<rowVars, redisVars, due, ingest, admin, calls, history>>

Brpop(w) ==
    /\ hand[w].pc = "idle"
    /\ queue # << >>
    /\ queue' = BrpopRest(queue)
    /\ \/ hand' = [hand EXCEPT ![w] = [IdleHand EXCEPT !.pc = "fetch",
                                                       !.job = BrpopId(queue)]]
       \/ "redis" \in Faults /\ UNCHANGED hand   \* the reply is lost
    /\ UNCHANGED <<rowVars, retrySet, due, ingest, admin, calls, history>>

\* Mutant: due ids are read with ZRANGEBYSCORE and stay in the set.
ZpopminPeek ==
    /\ hand[Retrier].pc = "idle"
    /\ \E e \in retrySet \cap due :
          hand' = [hand EXCEPT ![Retrier] = [IdleHand EXCEPT !.pc = "fetch", !.job = e]]
    /\ UNCHANGED <<rowVars, redisVars, due, ingest, admin, calls, history>>

\* The member with the lowest score: one that is due, if any is.
Zpopmin ==
    /\ hand[Retrier].pc = "idle"
    /\ \E e \in retrySet :
          /\ e \in due \/ retrySet \cap due = {}
          /\ retrySet' = retrySet \ {e}
          /\ due' = due \ {e}
          /\ \/ hand' = [hand EXCEPT ![Retrier] =
                            [IdleHand EXCEPT
                                !.pc = IF e \in due THEN "fetch" ELSE "putback",
                                !.job = e]]
             \/ "redis" \in Faults /\ UNCHANGED hand
    /\ UNCHANGED <<rowVars, queue, ingest, admin, calls, history>>

\* Mutant: the id is not put back.
PutBackDropped ==
    /\ hand[Retrier].pc = "putback"
    /\ Release(Retrier)
    /\ UNCHANGED <<rowVars, redisVars, due, ingest, admin, calls, history>>

\* Mutant: the id is put back with a fresh delay instead of its own score.
PutBackFresh ==
    /\ hand[Retrier].pc = "putback"
    /\ RedisWrite(queue, retrySet \cup {hand[Retrier].job})
    /\ due' = due \ {hand[Retrier].job}
    /\ Release(Retrier)
    /\ UNCHANGED <<rowVars, ingest, admin, calls, history>>

\* Not due yet: ZADD the id again under the score it was popped with.
PutBack ==
    /\ hand[Retrier].pc = "putback"
    /\ RedisWrite(queue, retrySet \cup {hand[Retrier].job})
    /\ Release(Retrier)
    /\ UNCHANGED <<rowVars, due, ingest, admin, calls, history>>

\* The clock reaches the score of a waiting retry.
BecomeDue(e) ==
    /\ e \notin due
    /\ \/ e \in retrySet
       \/ hand[Retrier].pc = "putback" /\ hand[Retrier].job = e
    /\ due' = due \cup {e}
    /\ UNCHANGED <<rowVars, redisVars, hand, ingest, admin, calls, history>>

\* SELECT * FROM webhook_events: no row, or a failed query, and the id is gone.
FetchNothing(h) ==
    /\ hand[h].pc = "fetch"
    /\ status[hand[h].job] = "none" \/ "db" \in Faults
    /\ Release(h)
    /\ UNCHANGED <<rowVars, redisVars, due, ingest, admin, calls, history>>

FetchRow(h) ==
    LET e == hand[h].job
        Read(pc, v) == hand' = [hand EXCEPT ![h].pc = pc, ![h].verdict = v,
                                            ![h].tries = retries[e]]
    IN  /\ hand[h].pc = "fetch"
        /\ status[e] # "none"
        /\ \/ e \notin NoTarget \cup Blocked /\ Read("post", "unknown")
           \/ e \in Blocked /\ Read("record", "rejected")
           \/ e \notin NoTarget /\ "dns" \in Faults /\ Read("record", "unresolved")
           \/ /\ e \in NoTarget   \* the main worker records no attempt for it
              /\ Read(IF h \in Workers THEN "update" ELSE "record", "rejected")
        /\ UNCHANGED <<rowVars, redisVars, due, ingest, admin, calls, history>>

\* Mutant: an attempt that ends in a transport error is not recorded.
PostUnrecorded(h) ==
    LET e == hand[h].job
    IN  /\ hand[h].pc = "post"
        /\ sent[e] < MaxPosts
        /\ \E v \in Answers :
              /\ hand' = [hand EXCEPT
                            ![h].verdict = v,
                            ![h].pc = IF v = "neterr" THEN "update"
                                      ELSE IF h = Retrier THEN "check" ELSE "record"]
              /\ \/ v \in {"ok", "neterr"} /\ accepted' = accepted \cup {e}
                 \/ v # "ok" /\ UNCHANGED accepted
        /\ sent' = [sent EXCEPT ![e] = @ + 1]
        /\ UNCHANGED <<rowVars, redisVars, due, ingest, admin, calls, hooks, dropped>>

\* The HTTP request.  A transport error may hide that the target processed it.
Post(h) ==
    LET e == hand[h].job
    IN  /\ hand[h].pc = "post"
        /\ sent[e] < MaxPosts
        /\ \E v \in Answers :
              /\ hand' = [hand EXCEPT
                            ![h].verdict = v,
                            ![h].pc = IF h = Retrier \/ v = "neterr"
                                      THEN "check" ELSE "record"]
              /\ \/ v \in {"ok", "neterr"} /\ accepted' = accepted \cup {e}
                 \/ v # "ok" /\ UNCHANGED accepted
        /\ sent' = [sent EXCEPT ![e] = @ + 1]
        /\ UNCHANGED <<rowVars, redisVars, due, ingest, admin, calls, hooks, dropped>>

\* SELECT status after the POST: somebody else delivered it, drop the result.
CheckDelivered(h) ==
    /\ hand[h].pc = "check"
    /\ \/ status[hand[h].job] = "delivered" /\ Release(h)
       \/ status[hand[h].job] # "delivered" /\ Goto(h, "record")
       \/ "db" \in Faults /\ Goto(h, "record")
    /\ UNCHANGED <<rowVars, redisVars, due, ingest, admin, calls, history>>

\* record_attempt is best effort: no row is written for a deleted event, and
\* two attempts recorded at the same moment may take the same number, of which
\* the UNIQUE constraint keeps one (module AttemptLog has the details).
Record(h) ==
    LET e == hand[h].job
    IN  /\ hand[h].pc = "record"
        /\ \/ /\ status[e] # "none"
              /\ logged' = [logged EXCEPT ![e] = @ + 1]
           \/ /\ \/ status[e] = "none"
                 \/ "db" \in Faults
                 \/ \E g \in Hands \ {h} : hand[g].pc = "record" /\ hand[g].job = e
              /\ UNCHANGED logged
        /\ Goto(h, "update")
        /\ UNCHANGED <<status, retries, redisVars, due, ingest, admin, calls, history>>

-----------------------------------------------------------------------------
(***************************************************************************)
(* What the task does with the verdict.  The decision uses the retry_count   *)
(* read before the POST, not the row's current one.                         *)
(***************************************************************************)

\* Mutant: <= where the code has <.
ReschedulesOnceMore(h) ==
    hand[h].verdict \in {"soft", "neterr"} /\ hand[h].tries <= MaxRetries

Reschedules(h) == hand[h].verdict \in {"soft", "neterr"} /\ hand[h].tries < MaxRetries
Exhausts(h)    == hand[h].verdict \in {"soft", "neterr"} /\ hand[h].tries >= MaxRetries

MarkDelivered(h) ==
    LET e == hand[h].job
    IN  /\ hand[h].pc = "update"
        /\ hand[h].verdict = "ok"
        /\ UpdateRow(e, TRUE, "delivered", retries[e])
        /\ Goto(h, "notify")
        /\ UNCHANGED <<logged, redisVars, due, ingest, admin, calls, history>>

\* Mutant: the retry_count that was read is written back, not the next one.
MarkRetryingUncounted(h) ==
    /\ hand[h].pc = "update"
    /\ Reschedules(h)
    /\ UpdateRow(hand[h].job, TRUE, "retrying", hand[h].tries)
    /\ Goto(h, "zadd")
    /\ UNCHANGED <<logged, redisVars, due, ingest, admin, calls, history>>

\* Mutant: a status no other part of the program knows.
MarkRetryingMisspelt(h) ==
    /\ hand[h].pc = "update"
    /\ Reschedules(h)
    /\ UpdateRow(hand[h].job, TRUE, "retry", hand[h].tries + 1)
    /\ Goto(h, "zadd")
    /\ UNCHANGED <<logged, redisVars, due, ingest, admin, calls, history>>

MarkRetrying(h) ==
    /\ hand[h].pc = "update"
    /\ Reschedules(h)
    /\ UpdateRow(hand[h].job, TRUE, "retrying", hand[h].tries + 1)
    /\ Goto(h, "zadd")
    /\ UNCHANGED <<logged, redisVars, due, ingest, admin, calls, history>>

\* Mutant: only this UPDATE lacks AND status != 'delivered'.
MarkFailedUnguarded(h) ==
    /\ hand[h].pc = "update"
    /\ hand[h].verdict = "hard" \/ Exhausts(h)
    /\ UpdateRow(hand[h].job, FALSE, "failed", retries[hand[h].job])
    /\ Goto(h, "notify")
    /\ UNCHANGED <<logged, redisVars, due, ingest, admin, calls, history>>

\* A transport error also writes back the retry_count that was read.
MarkFailed(h) ==
    LET e == hand[h].job
        n == IF hand[h].verdict = "neterr" THEN hand[h].tries ELSE retries[e]
    IN  /\ hand[h].pc = "update"
        /\ hand[h].verdict = "hard" \/ Exhausts(h)
        /\ UpdateRow(e, TRUE, "failed", n)
        /\ Goto(h, "notify")
        /\ UNCHANGED <<logged, redisVars, due, ingest, admin, calls, history>>

\* A refused URL fails the event whatever its status has become meanwhile.
MarkRefused(h) ==
    LET e == hand[h].job
    IN  /\ hand[h].pc = "update"
        /\ hand[h].verdict \in Refusals
        /\ UpdateRow(e, FALSE, "failed", retries[e])
        /\ Goto(h, "notify")
        /\ UNCHANGED <<logged, redisVars, due, ingest, admin, calls, history>>

\* Mutant: the hooks are told of every attempt that failed, not of the outcome.
ScheduleAndTell(h) ==
    LET e == hand[h].job
    IN  /\ hand[h].pc = "zadd"
        /\ RedisWrite(queue, retrySet \cup {e})
        /\ due' = due \ {e}
        /\ Goto(h, "notify")
        /\ UNCHANGED <<rowVars, ingest, admin, calls, history>>

\* ZADD terusin:retry with a fresh score, whether or not the row was updated.
Schedule(h) ==
    LET e == hand[h].job
    IN  /\ hand[h].pc = "zadd"
        /\ RedisWrite(queue, retrySet \cup {e})
        /\ due' = due \ {e}
        /\ Release(h)
        /\ UNCHANGED <<rowVars, ingest, admin, calls, history>>

\* forward_to_rules with trigger "success" or "failure".
Notify(h) ==
    LET e == hand[h].job
        trigger == IF hand[h].verdict = "ok" THEN "success" ELSE "failure"
    IN  /\ hand[h].pc = "notify"
        /\ hooks' = [hooks EXCEPT ![e] = Append(@, trigger)]
        /\ Release(h)
        /\ UNCHANGED <<rowVars, redisVars, due, ingest, admin, calls, sent, accepted,
                   dropped>>

-----------------------------------------------------------------------------
(***************************************************************************)
(* Admin requests.  Each is a chain of awaits: Postgres first, then Redis.   *)
(* A bulk request is the same chain once per id.                            *)
(***************************************************************************)
Call(a, op) ==
    /\ admin[a].pc = "idle"
    /\ op \in Operations
    /\ calls < MaxCalls
    /\ calls' = calls + 1

AdminAt(a, pc, e) == admin' = [admin EXCEPT ![a] = [pc |-> pc, job |-> e]]
AdminDone(a)      == admin' = [admin EXCEPT ![a] = IdleAdmin]

\* A replay has reset the row of e and its LPUSH is still to come.
Pushes(a, e) == admin[a].job = e /\ admin[a].pc \in {"unschedule", "push"}

\* retry_event looks the row up ...
RetryFind(a, e) ==
    /\ Call(a, "retry")
    /\ status[e] # "none"
    /\ AdminAt(a, "reset", e)
    /\ UNCHANGED <<rowVars, redisVars, due, hand, ingest, history>>

\* ... and resets it; the row may be gone by now, which goes unnoticed.
RetryReset(a) ==
    LET e == admin[a].job
    IN  /\ admin[a].pc = "reset"
        /\ \/ /\ status[e] # "none"
              /\ status' = [status EXCEPT ![e] = "queued"]
              /\ retries' = [retries EXCEPT ![e] = 0]
              /\ AdminAt(a, "unschedule", e)
           \/ /\ status[e] = "none"
              /\ AdminAt(a, "unschedule", e)
              /\ UNCHANGED <<status, retries>>
           \/ /\ "db" \in Faults
              /\ AdminDone(a)
              /\ UNCHANGED <<status, retries>>
        /\ UNCHANGED <<logged, redisVars, due, hand, ingest, calls, history>>

\* bulk_retry resets the row at once and skips an id that has none.
BulkReset(a, e) ==
    /\ Call(a, "retry")
    /\ status[e] # "none"
    /\ status' = [status EXCEPT ![e] = "queued"]
    /\ retries' = [retries EXCEPT ![e] = 0]
    /\ AdminAt(a, "unschedule", e)
    /\ UNCHANGED <<logged, redisVars, due, hand, ingest, history>>

RetryUnschedule(a) ==
    LET e == admin[a].job
    IN  /\ admin[a].pc = "unschedule"
        /\ RedisWrite(queue, retrySet \ {e})
        /\ AdminAt(a, "push", e)
        /\ UNCHANGED <<rowVars, due, hand, ingest, calls, history>>

RetryPush(a) ==
    /\ admin[a].pc = "push"
    /\ RedisWrite(Lpush(queue, admin[a].job), retrySet)
    /\ AdminDone(a)
    /\ dropped' = dropped \ {admin[a].job}
    /\ UNCHANGED <<rowVars, due, hand, ingest, calls, sent, accepted, hooks>>

\* ack_event marks the row delivered, and scrubs Redis even if there is none.
Ack(a, e) ==
    /\ Call(a, "ack")
    /\ ingest[e] # "new"
    /\ UpdateRow(e, FALSE, "delivered", retries[e])
    /\ AdminAt(a, "scrubQueue", e)
    /\ UNCHANGED <<logged, redisVars, due, hand, ingest, history>>

\* delete_event and bulk_delete scrub Redis only if they removed a row.
Delete(a, e) ==
    /\ Call(a, "delete")
    /\ status[e] # "none"
    /\ DropRow(e)
    /\ AdminAt(a, "scrubQueue", e)
    /\ UNCHANGED <<redisVars, due, hand, ingest, history>>

ScrubQueue(a) ==
    LET e == admin[a].job
    IN  /\ admin[a].pc = "scrubQueue"
        /\ RedisWrite(Lrem(queue, e), retrySet)
        /\ AdminAt(a, "scrubRetry", e)
        /\ UNCHANGED <<rowVars, due, hand, ingest, calls, history>>

ScrubRetry(a) ==
    /\ admin[a].pc = "scrubRetry"
    /\ RedisWrite(queue, retrySet \ {admin[a].job})
    /\ AdminDone(a)
    /\ UNCHANGED <<rowVars, due, hand, ingest, calls, history>>

\* The client of an admin request hangs up between two of its awaits.
AbandonAdmin(a) ==
    /\ admin[a].pc # "idle"
    /\ dropped' = dropped \cup {e \in {admin[a].job} : Pushes(a, e)}
    /\ AdminDone(a)
    /\ UNCHANGED <<rowVars, redisVars, due, hand, ingest, calls, sent, accepted, hooks>>

\* retention_worker deletes old rows of free workspaces, open or not, and
\* leaves their ids in Redis.
Expire(e) ==
    /\ "expire" \in Operations
    /\ status[e] # "none"
    /\ DropRow(e)
    /\ UNCHANGED <<redisVars, due, hand, ingest, admin, calls, history>>

\* The process dies with every task in it and starts again; Postgres and
\* Redis keep what they have.
Crash ==
    /\ "crash" \in Faults
    /\ hand' = [h \in Hands |-> IdleHand]
    /\ admin' = [a \in Admins |-> IdleAdmin]
    /\ ingest' = [e \in Events |-> IF ingest[e] = "pushing" THEN "done" ELSE ingest[e]]
    /\ dropped' = dropped \cup {e \in Events : ingest[e] = "pushing"
                                            \/ \E a \in Admins : Pushes(a, e)}
    /\ UNCHANGED <<rowVars, redisVars, due, calls, sent, accepted, hooks>>

-----------------------------------------------------------------------------
Deliver(h) ==
    \/ FetchNothing(h) \/ FetchRow(h) \/ Post(h) \/ CheckDelivered(h) \/ Record(h)
    \/ MarkDelivered(h) \/ MarkRetrying(h) \/ MarkFailed(h) \/ MarkRefused(h)
    \/ Schedule(h) \/ Notify(h)

Administer(a) ==
    \/ RetryReset(a) \/ RetryUnschedule(a) \/ RetryPush(a)
    \/ ScrubQueue(a) \/ ScrubRetry(a)
    \/ \E e \in Events : RetryFind(a, e) \/ BulkReset(a, e) \/ Ack(a, e) \/ Delete(a, e)

Next ==
    \/ \E e \in Events :
          Accept(e) \/ Enqueue(e) \/ AbandonIngest(e) \/ BecomeDue(e) \/ Expire(e)
    \/ \E w \in Workers : Brpop(w)
    \/ Zpopmin
    \/ PutBack
    \/ \E h \in Hands : Deliver(h)
    \/ \E a \in Admins : Administer(a) \/ AbandonAdmin(a)
    \/ Crash

Spec == Init /\ [][Next]_vars

(***************************************************************************)
(* Fairness: tokio runs every ready task, Redis and Postgres answer, the     *)
(* clock advances, and a target either answers or its connection breaks      *)
(* (reqwest::Client::new() sets no timeout, so this last one is an           *)
(* assumption about targets and not something the code enforces).  Nobody    *)
(* is obliged to send a webhook or to press a button, and a request that was *)
(* begun goes on only while its client stays: hanging up disables the rest,  *)
(* so that weak fairness asks nothing of a request that was dropped.         *)
(***************************************************************************)
Finish(a) == RetryReset(a) \/ RetryUnschedule(a) \/ RetryPush(a)
             \/ ScrubQueue(a) \/ ScrubRetry(a)

Fairness ==
    /\ \A e \in Events : WF_vars(Enqueue(e)) /\ WF_vars(BecomeDue(e))
    /\ \A w \in Workers : WF_vars(Brpop(w))
    /\ WF_vars(Zpopmin) /\ WF_vars(PutBack)
    /\ \A h \in Hands : WF_vars(Deliver(h))
    /\ \A a \in Admins : WF_vars(Finish(a))

FairSpec == Spec /\ Fairness
-----------------------------------------------------------------------------
(***************************************************************************)
(* Properties.                                                             *)
(***************************************************************************)

RowsOK ==
    /\ status \in [Events -> Statuses]
    /\ retries \in [Events -> Nat]
    /\ logged \in [Events -> Nat]

RedisOK ==
    /\ queue \in Seq(Events)
    /\ retrySet \subseteq Events
    /\ due \subseteq Events

HandsOK ==
    /\ hand \in [Hands -> HandStates]
    /\ \A h \in Hands : hand[h].pc # "idle" => hand[h].job \in Events

AdminsOK ==
    /\ admin \in [Admins -> [pc : AdminPcs, job : Events \cup {None}]]
    /\ \A a \in Admins : admin[a].pc # "idle" => admin[a].job \in Events
    /\ calls \in Nat

HistoryOK ==
    /\ sent \in [Events -> Nat]
    /\ accepted \subseteq Events
    /\ hooks \in [Events -> Seq({"success", "failure"})]
    /\ dropped \subseteq Events

\* Every variable keeps its type; a task or a request that is not idle holds
\* the id of an event.
TypeOK ==
    /\ RowsOK
    /\ RedisOK
    /\ HandsOK
    /\ AdminsOK
    /\ ingest \in [Events -> {"new", "pushing", "done"}]
    /\ HistoryOK

\* As long as nobody retries by hand, an event id is in at most one place: at
\* most once in terusin:queue, or in terusin:retry, or with one delivery task,
\* or with the request that brings it in.  Nothing in the code locks an event,
\* so this is all that keeps two workers from posting the same one at once.
OneOwner ==
    /\ Distinct(queue)
    /\ Members(queue) \cap retrySet = {}
    /\ \A h \in Hands : hand[h].job \notin Members(queue) \cup retrySet
    /\ \A g, h \in Hands : hand[g].job = hand[h].job /\ hand[g].job # None => g = h
    /\ \A e \in Events : ingest[e] # "done" =>
          /\ e \notin Members(queue) \cup retrySet
          /\ \A h \in Hands : hand[h].job # e

\* An open event (queued or retrying) is never forgotten: its id is in one of
\* the Redis keys, or with a task that will still act on it (a task that only
\* has hooks left to call will not), or with a request about to push it.  The
\* exception is an event whose request was cut off in front of its LPUSH, by
\* its client or by a crash; a later replay brings it back.
Custody ==
    \A e \in Events : status[e] \in {"queued", "retrying"} =>
        \/ e \in Members(queue) \cup retrySet
        \/ ingest[e] = "pushing"
        \/ \E h \in Hands : hand[h].job = e /\ hand[h].pc # "notify"
        \/ \E a \in Admins : Pushes(a, e)
        \/ e \in dropped

\* Without manual retries a target sees at most MAX_RETRIES + 1 POSTs of an
\* event, even though every decision uses a retry_count read before the POST
\* and the guarded UPDATE may leave the row's counter behind.
AttemptBudget == \A e \in Events : sent[e] <= MaxRetries + 1

\* Without manual retries the hooks of an event hear one outcome at most, and
\* hear it only when delivery is over: success only of an event the target
\* processed, and nothing more is going to be posted.
OneVerdict ==
    \A e \in Events :
        /\ Len(hooks[e]) <= 1
        /\ hooks[e] = <<"success">> => e \in accepted
        /\ hooks[e] # << >> =>
              /\ status[e] \notin {"queued", "retrying"}
              /\ e \notin Members(queue) \cup retrySet
              /\ \A h \in Hands : hand[h].job # e

\* The timeline of an event shows every POST made for it, the one still being
\* handled excepted, as long as its delivery goes on and after it has failed or
\* its outcome was announced.  (A task that finds the event acknowledged drops
\* its result, and one that dies loses it; no other task goes on after that.)
AttemptsAccounted ==
    \A e \in Events :
        /\ status[e] # "none"
        /\ \/ e \in Members(queue) \cup retrySet
           \/ \E h \in Hands : hand[h].job = e
           \/ status[e] = "failed"
           \/ hooks[e] # << >>
        => sent[e] <= logged[e] + Cardinality({h \in Hands :
                        /\ hand[h].job = e
                        /\ hand[h].pc \in {"check", "record"}
                        /\ hand[h].verdict \in Answers})

\* A delivered row stays delivered until an admin retries the event or the row
\* is deleted, however many tasks still hold older copies of it.  Events whose
\* URL can be refused are the exception: that UPDATE has no guard.
KeepsDelivered ==
    \A e \in Events : status[e] = "delivered" =>
        \/ status'[e] \in {"delivered", "none"}
        \/ \E a \in Admins : admin'[a] = [pc |-> "unschedule", job |-> e]
        \/ e \in NoTarget \cup Blocked
        \/ "dns" \in Faults
DeliveredSticks == [][KeepsDelivered]_vars

\* What the engine promises to its users, as the module EventLifecycle states it.
Lifecycle == INSTANCE EventLifecycle WITH
    status <- status, tries <- retries,
    born <- {e \in Events : ingest[e] # "new"},
    Refusable <- IF "dns" \in Faults THEN Events ELSE NoTarget \cup Blocked

\* Without manual retries the engine implements that lifecycle.
ImplementsLifecycle == Lifecycle!Spec

\* Every accepted event is eventually settled: delivered, failed or deleted,
\* unless its request is cut off in front of the LPUSH.
Settles ==
    \A e \in Events : status[e] \in {"queued", "retrying"} ~>
                      status[e] \in {"delivered", "failed", "none"} \/ e \in dropped
=============================================================================
