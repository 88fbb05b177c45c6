---------------------------- MODULE EmailDelivery ----------------------------
(***************************************************************************)
(* The e-mails a new user gets: a welcome at once and, a day later, a        *)
(* follow-up if the workspace has received no webhook.  Rows of              *)
(* email_deliveries are claimed by the sign-in request that created them     *)
(* and by welcome_email_worker.  A claim marks the row `sending` for 15      *)
(* minutes; after that anybody may claim it again.  The request to the       *)
(* provider has no timeout, so a sender may outlive its claim.               *)
(***************************************************************************)
EXTENDS Naturals, FiniteSets

CONSTANTS
    Welcomes,     \* deliveries of kind `welcome`
    FollowUps,    \* deliveries of kind `inactive_follow_up`
    Callbacks,    \* sign-in requests that create an account
    Worker,       \* the task welcome_email_worker
    None,         \* no delivery
    Backlogs,     \* the follow-ups of older accounts that may wait from the start
    Created,      \* email_deliveries.created_at, by which the worker's queries sort
    BatchSize,    \* LIMIT 20 of the worker's queries
    Faults,       \* which of provider, db, crash the instance suffers
    MaxAttempts   \* bound on the claims of one delivery

Deliveries == Welcomes \cup FollowUps
Tasks == Callbacks \cup {Worker}

ASSUME EmailDeliveryAssumption ==
    /\ Welcomes \cap FollowUps = {}
    /\ Worker \notin Callbacks
    /\ None \notin Deliveries
    /\ Backlogs \subseteq SUBSET FollowUps
    /\ Created \in [Deliveries -> Nat]
    /\ \A kind \in {Welcomes, FollowUps} :
          \A d, e \in kind : Created[d] = Created[e] => d = e
    /\ BatchSize \in Nat \ {0}
    /\ MaxAttempts \in Nat
    /\ Faults \subseteq {"provider", "db", "crash"}

VARIABLES
    status,    \* email_deliveries.status; "none" before the account exists
    attempts,  \* email_deliveries.attempts
    reached,   \* deliveries whose next_attempt_at has passed
    lapsed,    \* deliveries whose updated_at is 15 minutes old
    active,    \* follow-ups whose workspace has received a webhook
    task,      \* local state of the sign-in requests and of the worker
    batch,     \* what the worker's last query returned, still to be handled
    turn,      \* the part of its loop the worker is in
    calm,      \* whether Postgres and the process have stopped failing
    mails,     \* history: e-mails the provider accepted
    overrun,   \* history: deliveries with a sender that outlived its claim
    doubtful   \* history: deliveries with an accepted e-mail nobody recorded

rowVars  == <<status, attempts, reached, lapsed, active>>
loopVars == <<batch, turn, calm>>
history  == <<mails, overrun, doubtful>>
vars     == <<rowVars, task, loopVars, history>>

Statuses   == {"none", "pending", "sending", "sent", "failed", "skipped"}
TaskPcs    == {"idle", "claim", "send", "sent", "failed"}
TaskStates == [pc : TaskPcs, job : Deliveries \cup {None}]
Idle == [pc |-> "idle", job |-> None]
Fails(fault) == fault \in Faults /\ ~calm
Senders(d) == {t \in Tasks : task[t].job = d /\ task[t].pc \in {"send", "sent", "failed"}}

Init ==
    /\ \E old \in Backlogs :
          status = [d \in Deliveries |-> IF d \in old THEN "pending" ELSE "none"]
    /\ attempts = [d \in Deliveries |-> 0]
    /\ reached  = {}
    /\ lapsed   = {}
    /\ active   = {}
    /\ task     = [t \in Tasks |-> Idle]
    /\ batch    = {}
    /\ turn     = "skip"
    /\ calm     = FALSE
    /\ mails    = [d \in Deliveries |-> 0]
    /\ overrun  = {}
    /\ doubtful = {}

-----------------------------------------------------------------------------
(***************************************************************************)
(* What the UPDATEs of the code do to a row.                               *)
(***************************************************************************)
Write(d, s) ==
    /\ status' = [status EXCEPT ![d] = s]
    /\ lapsed' = lapsed \ {d}

\* Mutant: a claim is never taken over.
OpenUnclaimed(d) == status[d] \in {"pending", "failed"} /\ d \in reached

\* The condition of the claim, and of the worker's queries (which leave out
\* the last conjunct).
Open(d) ==
    \/ status[d] \in {"pending", "failed"} /\ d \in reached
    \/ status[d] = "sending" /\ d \in lapsed
Claimable(d) == Open(d) /\ (d \in FollowUps => d \notin active)

\* The INSERTs of one new account, in a transaction and so with one NOW(), and the
\* request that goes on to welcome it.
SignUp(c, w, f) ==
    /\ task[c] = Idle
    /\ Created[w] = Created[f]
    /\ status[w] = "none"
    /\ status[f] = "none"
    /\ status' = [status EXCEPT ![w] = "pending", ![f] = "pending"]
    /\ reached' = reached \cup {w}
    /\ task' = [task EXCEPT ![c] = [pc |-> "claim", job |-> w]]
    /\ UNCHANGED <<attempts, lapsed, active, loopVars, history>>

\* The first webhook of the workspace arrives; once the follow-up is closed it
\* makes no difference.  That all events of a workspace are deleted again is
\* left out.
Activity(f) ==
    /\ status[f] \in {"pending", "failed", "sending"}
    /\ f \notin active
    /\ active' = active \cup {f}
    /\ UNCHANGED <<status, attempts, reached, lapsed, task, loopVars, history>>

\* The clock reaches next_attempt_at.
Reach(d) ==
    /\ status[d] \in {"pending", "failed"}
    /\ d \notin reached
    /\ reached' = reached \cup {d}
    /\ UNCHANGED <<status, attempts, lapsed, active, task, loopVars, history>>

\* Fifteen minutes pass after a claim.
Lapse(d) ==
    /\ status[d] = "sending"
    /\ d \notin lapsed
    /\ lapsed' = lapsed \cup {d}
    /\ overrun' = IF Senders(d) = {} THEN overrun ELSE overrun \cup {d}
    /\ UNCHANGED <<status, attempts, reached, active, task, loopVars, mails, doubtful>>

-----------------------------------------------------------------------------
(***************************************************************************)
(* deliver_email.                                                          *)
(***************************************************************************)
\* Mutant: a lapsed or fresh claim of somebody else is no obstacle.
ClaimSending(t) ==
    LET d == task[t].job
    IN  /\ task[t].pc = "claim"
        /\ Claimable(d) \/ status[d] = "sending"
        /\ attempts[d] < MaxAttempts
        /\ Write(d, "sending")
        /\ attempts' = [attempts EXCEPT ![d] = @ + 1]
        /\ task' = [task EXCEPT ![t].pc = "send"]
        /\ UNCHANGED <<reached, active, loopVars, history>>

\* Mutant: attempts is counted only after a failure.
ClaimUncounted(t) ==
    LET d == task[t].job
    IN  /\ task[t].pc = "claim"
        /\ Claimable(d)
        /\ attempts[d] < MaxAttempts
        /\ Write(d, "sending")
        /\ task' = [task EXCEPT ![t].pc = "send"]
        /\ UNCHANGED <<attempts, reached, active, loopVars, history>>

\* One UPDATE with FOR UPDATE SKIP LOCKED: atomic.
Claim(t) ==
    LET d == task[t].job
    IN  /\ task[t].pc = "claim"
        /\ Claimable(d)
        /\ attempts[d] < MaxAttempts
        /\ Write(d, "sending")
        /\ attempts' = [attempts EXCEPT ![d] = @ + 1]
        /\ task' = [task EXCEPT ![t].pc = "send"]
        /\ UNCHANGED <<reached, active, loopVars, history>>

\* Somebody else has it, or the query fails: nothing to do here.
ClaimNothing(t) ==
    /\ task[t].pc = "claim"
    /\ \/ ~Claimable(task[t].job)
       \/ attempts[task[t].job] = MaxAttempts   \* the bound
       \/ Fails("db")
    /\ task' = [task EXCEPT ![t] = Idle]
    /\ UNCHANGED <<rowVars, loopVars, history>>

\* Configuration, template and request to the provider.  An error may hide
\* that the e-mail was accepted (the answer is lost or does not parse).
Send(t) ==
    LET d == task[t].job
    IN  /\ task[t].pc = "send"
        /\ \/ /\ task' = [task EXCEPT ![t].pc = "sent"]
              /\ mails' = [mails EXCEPT ![d] = @ + 1]
              /\ UNCHANGED doubtful
           \/ /\ "provider" \in Faults
              /\ task' = [task EXCEPT ![t].pc = "failed"]
              /\ \/ UNCHANGED <<mails, doubtful>>
                 \/ /\ mails' = [mails EXCEPT ![d] = @ + 1]
                    /\ doubtful' = doubtful \cup {d}
        /\ UNCHANGED <<rowVars, loopVars, overrun>>

\* Neither UPDATE looks at the status it replaces.
Finish(t, s, due) ==
    LET d == task[t].job
    IN  /\ task' = [task EXCEPT ![t] = Idle]
        /\ \/ /\ Write(d, s)
              /\ reached' = due
              /\ UNCHANGED <<doubtful, attempts, active>>
           \/ /\ Fails("db")
              /\ doubtful' = IF s = "sent" THEN doubtful \cup {d} ELSE doubtful
              /\ UNCHANGED rowVars
        /\ UNCHANGED <<loopVars, mails, overrun>>

\* Mutant: the row of an accepted e-mail is left to lapse.
RecordSentNever(t) ==
    /\ task[t].pc = "sent"
    /\ Finish(t, "failed", reached)

RecordSent(t) == task[t].pc = "sent" /\ Finish(t, "sent", reached)

\* Mutant: a failure is final.
RecordFailedForGood(t) ==
    /\ task[t].pc = "failed"
    /\ Finish(t, "gone", reached)

RecordFailed(t) == task[t].pc = "failed" /\ Finish(t, "failed", reached \ {task[t].job})

-----------------------------------------------------------------------------
(***************************************************************************)
(* welcome_email_worker: skip, welcomes, follow-ups, sleep, and again.       *)
(***************************************************************************)

\* Mutant: the condition on the status is left out.
SkipActiveAny ==
    /\ turn = "skip"
    /\ status' = [d \in Deliveries |-> IF d \in active THEN "skipped" ELSE status[d]]
    /\ turn' = "welcome"
    /\ UNCHANGED <<attempts, reached, lapsed, active, task, batch, calm, history>>

SkipActive ==
    /\ turn = "skip"
    /\ \/ status' = [d \in Deliveries |->
                        IF d \in active /\ status[d] \in {"pending", "failed"}
                        THEN "skipped" ELSE status[d]]
       \/ Fails("db") /\ UNCHANGED status
    /\ turn' = "welcome"
    /\ UNCHANGED <<attempts, reached, lapsed, active, task, batch, calm, history>>

\* The rows one of the worker's queries selects.  MaxAttempts is a bound here
\* too: a row that was claimed so often counts as done, unless it is stuck.
Due(kind) == {d \in kind : Open(d) /\ (Claimable(d) => attempts[d] < MaxAttempts)}
Before(d, rows) == {e \in rows : Created[e] < Created[d]}

\* Mutant: the youngest rows come first.
ListedYoungest(kind) ==
    {d \in Due(kind) : Cardinality({e \in Due(kind) : Created[e] > Created[d]}) < BatchSize}

\* ORDER BY created_at LIMIT 20: younger rows wait for a later turn of the loop.
Listed(kind) == {d \in Due(kind) : Cardinality(Before(d, Due(kind))) < BatchSize}

\* One of the two queries; an error counts as no rows.
List(from, kind, to) ==
    /\ turn = from
    /\ task[Worker] = Idle
    /\ batch = {}
    /\ \/ batch' = Listed(kind)
       \/ Fails("db") /\ batch' = {}
    /\ turn' = to
    /\ UNCHANGED <<rowVars, task, calm, history>>

ListWelcomes  == List("welcome", Welcomes, "followUp")
ListFollowUps == List("followUp", FollowUps, "sleep")

TakeNext ==
    /\ task[Worker] = Idle
    /\ \E d \in batch :
          /\ Before(d, batch) = {}
          /\ task' = [task EXCEPT ![Worker] = [pc |-> "claim", job |-> d]]
          /\ batch' = batch \ {d}
    /\ UNCHANGED <<rowVars, turn, calm, history>>

Wake ==
    /\ turn = "sleep"
    /\ task[Worker] = Idle
    /\ batch = {}
    /\ turn' = "skip"
    /\ UNCHANGED <<rowVars, task, batch, calm, history>>

-----------------------------------------------------------------------------
(***************************************************************************)
(* The browser goes away, and axum drops the sign-in request where it is.    *)
(* Or the process dies with all its tasks and starts again.                  *)
(***************************************************************************)
Unrecorded(tasks) == {task[t].job : t \in {s \in tasks : task[s].pc = "sent"}}

Abandon(c) ==
    /\ task[c] # Idle
    /\ task' = [task EXCEPT ![c] = Idle]
    /\ doubtful' = doubtful \cup Unrecorded({c})
    /\ UNCHANGED <<rowVars, loopVars, mails, overrun>>

Crash ==
    /\ Fails("crash")
    /\ task' = [t \in Tasks |-> Idle]
    /\ batch' = {}
    /\ turn' = "skip"
    /\ doubtful' = doubtful \cup Unrecorded(Tasks)
    /\ UNCHANGED <<rowVars, calm, mails, overrun>>

\* From some moment on Postgres answers and the process is not killed.
Settle ==
    /\ ~calm
    /\ calm' = TRUE
    /\ UNCHANGED <<rowVars, task, batch, turn, history>>

Deliver(t) == Claim(t) \/ ClaimNothing(t) \/ Send(t) \/ RecordSent(t) \/ RecordFailed(t)
Loop == SkipActive \/ ListWelcomes \/ ListFollowUps \/ TakeNext \/ Wake

Next ==
    \/ \E c \in Callbacks, w \in Welcomes, f \in FollowUps : SignUp(c, w, f)
    \/ \E f \in FollowUps : Activity(f)
    \/ \E d \in Deliveries : Reach(d) \/ Lapse(d)
    \/ \E t \in Tasks : Deliver(t)
    \/ \E c \in Callbacks : Abandon(c)
    \/ Loop
    \/ Crash
    \/ Settle

Spec == Init /\ [][Next]_vars

(***************************************************************************)
(* The worker keeps looping, the clock advances, the provider answers or the *)
(* connection breaks (an assumption: the request has no timeout), and        *)
(* Postgres and the process do not fail for ever.                           *)
(***************************************************************************)
FairSpec ==
    /\ Spec
    /\ WF_vars(Settle) /\ WF_vars(Loop) /\ WF_vars(Deliver(Worker))
    /\ \A d \in Deliveries : WF_vars(Reach(d)) /\ WF_vars(Lapse(d))

-----------------------------------------------------------------------------
\* Every variable keeps its type; a task that is not idle has a delivery.
TypeOK ==
    /\ status \in [Deliveries -> Statuses]
    /\ attempts \in [Deliveries -> Nat]
    /\ reached \subseteq Deliveries
    /\ lapsed \subseteq Deliveries
    /\ active \subseteq FollowUps
    /\ task \in [Tasks -> TaskStates]
    /\ \A t \in Tasks : task[t].pc = "idle" <=> task[t].job = None
    /\ batch \subseteq Deliveries
    /\ calm \in BOOLEAN
    /\ turn \in {"skip", "welcome", "followUp", "sleep"}
    /\ mails \in [Deliveries -> Nat]
    /\ overrun \subseteq Deliveries
    /\ doubtful \subseteq Deliveries

\* Unless a sender outlived its 15 minutes, a delivery has at most one sender,
\* and its row says so: the row is `sending` for as long as it has one.
OneSender ==
    \A d \in Deliveries \ overrun :
        /\ \A s, t \in Senders(d) : s = t
        /\ Senders(d) # {} => status[d] = "sending"

\* Each e-mail the provider accepted is backed by a counted attempt, crashes,
\* overruns and failed writes included: the attempts are counted first.
MailsAccounted ==
    \A d \in Deliveries :
        mails[d] + Cardinality({t \in Senders(d) : task[t].pc = "send"}) <= attempts[d]

\* A user gets a second copy of an e-mail only when the first one was accepted
\* and nobody could record it, or when a sender outlived its claim.
NoSecondCopy ==
    \A d \in Deliveries : mails[d] > 1 => d \in doubtful \cup overrun

\* A sent or skipped delivery stays what it is, although no UPDATE of the
\* outcome looks at the status it replaces; overruns are the exception.
ClosedStays ==
    \A d \in Deliveries :
        status[d] \in {"sent", "skipped"} => status'[d] = status[d] \/ d \in overrun
ClosedSticks == [][ClosedStays]_vars

\* A follow-up that was claimed by a sender that died, and whose workspace has
\* become active since: the queries return it, and no claim or skip takes it.
Stuck(d) == status[d] = "sending" /\ d \in lapsed \cap active

\* Rows that are stuck fill the batch in front of d: its query never reaches it.
Crowded(d) ==
    \E kind \in {Welcomes, FollowUps} :
        d \in kind /\ Cardinality({e \in Before(d, kind) : Stuck(e)}) >= BatchSize

\* Every e-mail is sent or skipped in the end, whatever was killed or lost on
\* the way, up to the bound on attempts.  The exceptions are a follow-up that is
\* stuck, and a follow-up for which stuck ones leave no place in the batch.
Concluded ==
    \A d \in Deliveries :
        <>[](status[d] \in {"pending", "failed", "sending"} /\ attempts[d] < MaxAttempts)
            => <>[](Stuck(d) \/ Crowded(d))
=============================================================================
