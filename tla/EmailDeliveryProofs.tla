------------------------- MODULE EmailDeliveryProofs -------------------------
(***************************************************************************)
(* Proofs about EmailDelivery, for any number of accounts and sign-in        *)
(* requests and under every fault.                                         *)
(***************************************************************************)
EXTENDS EmailDelivery, FiniteSetTheorems, TLAPS

\* A task that changes its state keeps the type of all of them.
LEMMA TaskType ==
    ASSUME TypeOK, NEW t \in Tasks, NEW r \in TaskStates,
           r.pc = "idle" <=> r.job = None,
           task' = [task EXCEPT ![t] = r]
    PROVE  /\ task' \in [Tasks -> TaskStates]
           /\ \A s \in Tasks : task'[s].pc = "idle" <=> task'[s].job = None
BY DEF TypeOK

LEMMA PcType ==
    ASSUME TypeOK, NEW t \in Tasks, NEW pc \in TaskPcs \ {"idle"}, task[t].pc # "idle",
           task' = [task EXCEPT ![t].pc = pc]
    PROVE  /\ task' \in [Tasks -> TaskStates]
           /\ \A s \in Tasks : task'[s].pc = "idle" <=> task'[s].job = None
<1> DEFINE r == [task[t] EXCEPT !.pc = pc]
<1>1. task[t] \in TaskStates
    BY DEF TypeOK
<1>2. r \in TaskStates /\ r.pc = pc /\ r.job = task[t].job
    BY <1>1 DEF TaskStates
<1>3. r.pc = "idle" <=> r.job = None
    BY <1>2 DEF TypeOK
<1>4. task' = [task EXCEPT ![t] = r]
    OBVIOUS
<1> QED BY <1>2, <1>3, <1>4, TaskType

LEMMA IdleType == Idle \in TaskStates /\ (Idle.pc = "idle" <=> Idle.job = None)
BY DEF Idle, TaskStates, TaskPcs

LEMMA JobType ==
    ASSUME TypeOK, NEW t \in Tasks, task[t].pc # "idle"
    PROVE  task[t].job \in Deliveries
BY DEF TypeOK, TaskStates

\* Every step keeps the types.
LEMMA TypeStep ==
    ASSUME TypeOK, [Next]_vars
    PROVE  TypeOK'
<1> USE DEF rowVars, loopVars, history
<1>1. ASSUME NEW c \in Callbacks, NEW w \in Welcomes, NEW f \in FollowUps, SignUp(c, w, f)
      PROVE  TypeOK'
  <2> DEFINE r == [pc |-> "claim", job |-> w]
  <2>1. c \in Tasks /\ w \in Deliveries /\ w # None
      BY EmailDeliveryAssumption DEF Tasks, Deliveries
  <2>2. r \in TaskStates /\ (r.pc = "idle" <=> r.job = None)
      BY <2>1 DEF TaskStates, TaskPcs
  <2>3. /\ task' \in [Tasks -> TaskStates]
        /\ \A s \in Tasks : task'[s].pc = "idle" <=> task'[s].job = None
      BY <1>1, <2>1, <2>2, TaskType DEF SignUp
  <2> QED BY <1>1, <2>1, <2>3 DEF SignUp, TypeOK, Statuses, Deliveries
<1>2. ASSUME NEW f \in FollowUps, Activity(f)
      PROVE  TypeOK'
    BY <1>2 DEF Activity, TypeOK
<1>3. ASSUME NEW d \in Deliveries, Reach(d) \/ Lapse(d)
      PROVE  TypeOK'
    BY <1>3 DEF Reach, Lapse, TypeOK
<1>4. ASSUME NEW t \in Tasks, Claim(t)
      PROVE  TypeOK'
  <2>1. task[t].job \in Deliveries
      BY <1>4, JobType DEF Claim
  <2>2. /\ task' \in [Tasks -> TaskStates]
        /\ \A s \in Tasks : task'[s].pc = "idle" <=> task'[s].job = None
      BY <1>4, PcType DEF Claim, TaskPcs
  <2> QED BY <1>4, <2>1, <2>2 DEF Claim, Write, TypeOK, Statuses
<1>5. ASSUME NEW t \in Tasks, ClaimNothing(t)
      PROVE  TypeOK'
  <2>1. /\ task' \in [Tasks -> TaskStates]
        /\ \A s \in Tasks : task'[s].pc = "idle" <=> task'[s].job = None
      BY <1>5, IdleType, TaskType DEF ClaimNothing
  <2> QED BY <1>5, <2>1 DEF ClaimNothing, TypeOK
<1>6. ASSUME NEW t \in Tasks, Send(t)
      PROVE  TypeOK'
  <2>1. task[t].job \in Deliveries
      BY <1>6, JobType DEF Send
  <2>2. /\ task' \in [Tasks -> TaskStates]
        /\ \A s \in Tasks : task'[s].pc = "idle" <=> task'[s].job = None
      BY <1>6, PcType DEF Send, TaskPcs
  <2>3. mails' \in [Deliveries -> Nat] /\ doubtful' \subseteq Deliveries
      BY <1>6, <2>1 DEF Send, TypeOK
  <2> QED BY <1>6, <2>2, <2>3 DEF Send, TypeOK
<1>7. ASSUME NEW t \in Tasks, NEW s \in {"sent", "failed"}, NEW due \in SUBSET Deliveries,
             task[t].pc # "idle", Finish(t, s, due)
      PROVE  TypeOK'
  <2>1. task[t].job \in Deliveries
      BY <1>7, JobType
  <2>2. /\ task' \in [Tasks -> TaskStates]
        /\ \A u \in Tasks : task'[u].pc = "idle" <=> task'[u].job = None
      BY <1>7, IdleType, TaskType DEF Finish
  <2> QED BY <1>7, <2>1, <2>2 DEF Finish, Write, TypeOK, Statuses
<1>8. ASSUME NEW t \in Tasks, RecordSent(t) \/ RecordFailed(t)
      PROVE  TypeOK'
    BY <1>7, <1>8 DEF RecordSent, RecordFailed, TypeOK
<1>9. ASSUME NEW c \in Callbacks, Abandon(c)
      PROVE  TypeOK'
  <2>1. /\ task' \in [Tasks -> TaskStates]
        /\ \A s \in Tasks : task'[s].pc = "idle" <=> task'[s].job = None
      BY <1>9, IdleType, TaskType DEF Abandon, Tasks
  <2>2. Unrecorded({c}) \subseteq Deliveries
      BY JobType DEF Unrecorded, Tasks
  <2> QED BY <1>9, <2>1, <2>2 DEF Abandon, TypeOK
<1>10. CASE Crash
  <2>1. Unrecorded(Tasks) \subseteq Deliveries
      BY JobType DEF Unrecorded
  <2> QED BY <1>10, <2>1, IdleType DEF Crash, TypeOK
<1>11. CASE SkipActive
    BY <1>11 DEF SkipActive, TypeOK, Statuses
<1>12. ASSUME NEW from, NEW kind \in SUBSET Deliveries, NEW to \in {"followUp", "sleep"},
              List(from, kind, to)
       PROVE  TypeOK'
    BY <1>12 DEF List, Listed, Due, TypeOK
<1>13. CASE TakeNext
  <2>1. PICK d \in batch : task' = [task EXCEPT ![Worker] = [pc |-> "claim", job |-> d]]
      BY <1>13 DEF TakeNext
  <2> DEFINE r == [pc |-> "claim", job |-> d]
  <2>2. d \in Deliveries /\ d # None /\ Worker \in Tasks
      BY EmailDeliveryAssumption DEF TypeOK, Tasks
  <2>3. r \in TaskStates /\ (r.pc = "idle" <=> r.job = None)
      BY <2>2 DEF TaskStates, TaskPcs
  <2>4. /\ task' \in [Tasks -> TaskStates]
        /\ \A s \in Tasks : task'[s].pc = "idle" <=> task'[s].job = None
      BY <2>1, <2>2, <2>3, TaskType
  <2> QED BY <1>13, <2>4 DEF TakeNext, TypeOK
<1>14. CASE Wake \/ Settle
    BY <1>14 DEF Wake, Settle, TypeOK
<1>15. CASE UNCHANGED vars
    BY <1>15 DEF vars, TypeOK
<1>16. CASE Loop
  <2>1. Welcomes \subseteq Deliveries /\ FollowUps \subseteq Deliveries
      BY DEF Deliveries
  <2> QED BY <1>11, <1>12, <1>13, <1>14, <1>16, <2>1
             DEF Loop, ListWelcomes, ListFollowUps
<1> QED BY <1>1, <1>2, <1>3, <1>4, <1>5, <1>6, <1>8, <1>9, <1>10, <1>14, <1>15, <1>16
           DEF Next, Deliver

LEMMA InitTypes == Init => TypeOK
<1> SUFFICES ASSUME Init PROVE TypeOK
    OBVIOUS
<1>1. /\ task \in [Tasks -> TaskStates]
      /\ \A t \in Tasks : task[t].pc = "idle" <=> task[t].job = None
    BY IdleType DEF Init
<1> QED BY <1>1 DEF Init, TypeOK, Statuses

\* The variables of the e-mail deliveries keep their types, for any number of
\* accounts and sign-in requests; a task that is not idle has a delivery.
THEOREM EmailTypes == Spec => []TypeOK
<1>1. Init => TypeOK
    BY InitTypes
<1>2. TypeOK /\ [Next]_vars => TypeOK'
    BY TypeStep
<1> QED BY <1>1, <1>2, PTL DEF Spec

-----------------------------------------------------------------------------
(***************************************************************************)
(* What makes OneSender and NoSecondCopy inductive: a claim with a sender    *)
(* has not lapsed, and an accepted e-mail is known either to the row or to   *)
(* the task that is about to write it there.                               *)
(***************************************************************************)
ClaimsHeld == \A d \in Deliveries \ overrun : Senders(d) # {} => d \notin lapsed

MailsKnown ==
    \A d \in Deliveries \ (overrun \cup doubtful) :
        /\ mails[d] <= 1
        /\ mails[d] = 1 => status[d] = "sent" \/ \E t \in Senders(d) : task[t].pc = "sent"

Inv == TypeOK /\ OneSender /\ ClaimsHeld /\ MailsKnown

\* The senders of a delivery after one task has moved.
LEMMA SendersAfter ==
    ASSUME NEW t \in Tasks, NEW r, TypeOK, task' = [task EXCEPT ![t] = r], NEW d \in Deliveries
    PROVE  Senders(d)' = IF r.job = d /\ r.pc \in {"send", "sent", "failed"}
                         THEN Senders(d) \cup {t} ELSE Senders(d) \ {t}
<1>1. task'[t] = r /\ \A s \in Tasks \ {t} : task'[s] = task[s]
    BY DEF TypeOK
<1> QED BY <1>1 DEF Senders

\* A step that gives no delivery a new sender and leaves the rows that have
\* one alone keeps the invariant.
LEMMA NoNewSender ==
    ASSUME Inv, TypeOK',
           \A d \in Deliveries \ overrun :
              /\ Senders(d)' \subseteq Senders(d)
              /\ Senders(d)' # {} => status'[d] = status[d]
              /\ status[d] = "sent" => status'[d] = "sent"
              /\ \A t \in Senders(d) : task[t].pc = "sent" /\ d \notin doubtful' =>
                    status'[d] = "sent" \/ (t \in Senders(d)' /\ task'[t].pc = "sent"),
           lapsed' \subseteq lapsed, overrun' = overrun, doubtful \subseteq doubtful',
           mails' = mails
    PROVE  Inv'
<1>1. OneSender'
    BY DEF OneSender, Inv
<1>2. ClaimsHeld'
    BY DEF ClaimsHeld, Inv
<1>3. MailsKnown'
    BY DEF MailsKnown, Inv, TypeOK
<1> QED BY <1>1, <1>2, <1>3 DEF Inv

LEMMA ClaimInv ==
    ASSUME Inv, TypeOK', NEW t \in Tasks, Claim(t)
    PROVE  Inv'
<1>0. PICK e \in Deliveries : task[t].job = e
    BY JobType DEF Claim, Inv
<1> DEFINE r == [task[t] EXCEPT !.pc = "send"]
<1>1. task[t] \in TaskStates
    BY DEF Inv, TypeOK
<1>2. r.pc = "send" /\ r.job = e /\ task' = [task EXCEPT ![t] = r]
    BY <1>0, <1>1 DEF Claim, TaskStates
<1>3. \A d \in Deliveries \ {e} : Senders(d)' = Senders(d)
  <2> SUFFICES ASSUME NEW d \in Deliveries \ {e} PROVE Senders(d)' = Senders(d)
      OBVIOUS
  <2>1. t \notin Senders(d)
      BY <1>0 DEF Senders
  <2>2. Senders(d)' = Senders(d) \ {t}
      BY <1>2, SendersAfter DEF Inv
  <2> QED BY <2>1, <2>2
<1>4. e \notin overrun => Senders(e) = {}
    BY <1>0 DEF Claim, Claimable, Open, Inv, OneSender, ClaimsHeld
<1>5. e \notin overrun => Senders(e)' = {t}
  <2>1. Senders(e)' = Senders(e) \cup {t}
      BY <1>2, SendersAfter DEF Inv
  <2> QED BY <1>4, <2>1
<1>6. /\ status' = [status EXCEPT ![e] = "sending"]
      /\ lapsed' = lapsed \ {e}
      /\ status[e] \notin {"sent", "none"}
      /\ UNCHANGED <<mails, overrun, doubtful>>
    BY <1>0 DEF Claim, Write, Claimable, Open, history
<1>7. OneSender'
  <2> SUFFICES ASSUME NEW d \in Deliveries \ overrun
               PROVE  /\ \A s, u \in Senders(d)' : s = u
                      /\ Senders(d)' # {} => status'[d] = "sending"
      BY <1>6 DEF OneSender
  <2>1. CASE d = e
      BY <1>5, <1>6, <2>1 DEF Inv, TypeOK
  <2>2. CASE d # e
    <3>1. Senders(d)' = Senders(d) /\ status'[d] = status[d]
        BY <1>3, <1>6, <2>2 DEF Inv, TypeOK
    <3> QED BY <3>1 DEF OneSender, Inv
  <2> QED BY <2>1, <2>2
<1>8. ClaimsHeld'
    BY <1>3, <1>5, <1>6 DEF ClaimsHeld, Inv
<1>9. MailsKnown'
  <2> SUFFICES ASSUME NEW d \in Deliveries \ (overrun \cup doubtful)
               PROVE  /\ mails[d] <= 1
                      /\ mails[d] = 1 => status'[d] = "sent"
                                         \/ \E s \in Senders(d)' : task'[s].pc = "sent"
      BY <1>6 DEF MailsKnown
  <2>1. CASE d = e
      BY <1>4, <1>6, <2>1 DEF MailsKnown, Inv
  <2>2. CASE d # e
    <3>1. Senders(d)' = Senders(d) /\ status'[d] = status[d]
        BY <1>3, <1>6, <2>2 DEF Inv, TypeOK
    <3>2. \A s \in Senders(d) : task'[s] = task[s]
        BY <1>2, <2>2 DEF Senders, Inv, TypeOK
    <3> QED BY <3>1, <3>2 DEF MailsKnown, Inv
  <2> QED BY <2>1, <2>2
<1> QED BY <1>7, <1>8, <1>9 DEF Inv

LEMMA SendInv ==
    ASSUME Inv, TypeOK', NEW t \in Tasks, Send(t)
    PROVE  Inv'
<1>0. PICK e \in Deliveries : task[t].job = e
    BY JobType DEF Send, Inv
<1>1. PICK pc \in {"sent", "failed"} :
          /\ task' = [task EXCEPT ![t].pc = pc]
          /\ pc = "sent" => mails' = [mails EXCEPT ![e] = @ + 1] /\ doubtful' = doubtful
          /\ pc = "failed" =>
                \/ UNCHANGED <<mails, doubtful>>
                \/ /\ mails' = [mails EXCEPT ![e] = @ + 1]
                   /\ doubtful' = doubtful \cup {e}
    BY <1>0 DEF Send
<1> DEFINE r == [task[t] EXCEPT !.pc = pc]
<1>2. r.pc = pc /\ r.job = e /\ task' = [task EXCEPT ![t] = r]
    BY <1>0, <1>1 DEF Inv, TypeOK, TaskStates
<1>3. t \in Senders(e)
    BY <1>0 DEF Senders, Send
<1>4. \A d \in Deliveries : Senders(d)' = Senders(d)
  <2> SUFFICES ASSUME NEW d \in Deliveries PROVE Senders(d)' = Senders(d)
      OBVIOUS
  <2>1. d # e => t \notin Senders(d)
      BY <1>0 DEF Senders
  <2>2. Senders(d)' = IF d = e THEN Senders(d) \cup {t} ELSE Senders(d) \ {t}
      BY <1>2, SendersAfter DEF Inv
  <2> QED BY <1>3, <2>1, <2>2
<1>5. UNCHANGED <<status, lapsed, overrun>>
    BY DEF Send, rowVars
<1>6. OneSender'
    BY <1>4, <1>5 DEF OneSender, Inv
<1>7. ClaimsHeld'
    BY <1>4, <1>5 DEF ClaimsHeld, Inv
<1>8. MailsKnown'
  <2> SUFFICES ASSUME NEW d \in Deliveries \ (overrun \cup doubtful')
               PROVE  /\ mails'[d] <= 1
                      /\ mails'[d] = 1 => status[d] = "sent"
                                          \/ \E s \in Senders(d) : task'[s].pc = "sent"
      BY <1>4, <1>5 DEF MailsKnown
  <2>1. d \notin doubtful
      BY <1>1
  <2>2. CASE d # e
    <3>1. mails'[d] = mails[d]
        BY <1>1, <2>2 DEF Inv, TypeOK
    <3>2. \A s \in Senders(d) : task'[s] = task[s]
        BY <1>0, <1>2, <2>2 DEF Senders, Inv, TypeOK
    <3> QED BY <2>1, <3>1, <3>2 DEF MailsKnown, Inv
  <2>3. CASE d = e
    <3>1. status[d] = "sending" /\ \A s \in Senders(d) : s = t
        BY <1>3, <2>3 DEF OneSender, Inv
    <3>2. mails[d] <= 1 /\ mails[d] # 1
        BY <2>1, <3>1 DEF MailsKnown, Inv, Send
    <3>3. mails[d] = 0
        BY <3>2 DEF Inv, TypeOK
    <3>4. task'[t].pc = pc
        BY <1>2 DEF Inv, TypeOK
    <3> QED BY <1>1, <1>3, <2>3, <3>3, <3>4 DEF Inv, TypeOK
  <2> QED BY <2>2, <2>3
<1> QED BY <1>6, <1>7, <1>8 DEF Inv

\* A task that lets its delivery go.
LEMMA Released ==
    ASSUME TypeOK, NEW t \in Tasks, task' = [task EXCEPT ![t] = Idle], NEW d \in Deliveries
    PROVE  /\ Senders(d)' = Senders(d) \ {t}
           /\ \A s \in Senders(d)' : task'[s] = task[s]
<1>1. Senders(d)' = Senders(d) \ {t}
  <2>1. Idle.pc = "idle"
      BY DEF Idle
  <2> QED BY <2>1, SendersAfter
<1> QED BY <1>1 DEF Senders, TypeOK

LEMMA FinishInv ==
    ASSUME Inv, TypeOK', NEW t \in Tasks, NEW s \in {"sent", "failed"}, NEW due,
           task[t].pc = s, Finish(t, s, due)
    PROVE  Inv'
<1>0. PICK e \in Deliveries : task[t].job = e
    BY JobType DEF Inv
<1>1. t \in Senders(e) /\ \A d \in Deliveries \ {e} : t \notin Senders(d)
    BY <1>0 DEF Senders
<1>2. \A d \in Deliveries : /\ Senders(d)' = Senders(d) \ {t}
                            /\ \A u \in Senders(d)' : task'[u] = task[u]
    BY Released DEF Finish, Inv
<1>3. e \notin overrun => /\ status[e] = "sending"
                          /\ \A u \in Senders(e) : u = t
                          /\ Senders(e)' = {}
    BY <1>1, <1>2 DEF OneSender, Inv
<1>4. /\ status' = [status EXCEPT ![e] = s] /\ lapsed' = lapsed \ {e} /\ doubtful' = doubtful
      \/ /\ UNCHANGED <<status, lapsed>>
         /\ doubtful' = IF s = "sent" THEN doubtful \cup {e} ELSE doubtful
    BY <1>0 DEF Finish, Write, rowVars
<1>5. mails' = mails /\ overrun' = overrun
    BY DEF Finish
<1>6. \A d \in Deliveries \ {e} : status'[d] = status[d] /\ Senders(d)' = Senders(d)
  <2>1. \A d \in Deliveries \ {e} : status'[d] = status[d]
      BY <1>4 DEF Inv, TypeOK
  <2> QED BY <1>1, <1>2, <2>1
<1>7. OneSender'
  <2> SUFFICES ASSUME NEW d \in Deliveries \ overrun
               PROVE  /\ \A u, v \in Senders(d)' : u = v
                      /\ Senders(d)' # {} => status'[d] = "sending"
      BY <1>5 DEF OneSender
  <2> QED BY <1>3, <1>6 DEF OneSender, Inv
<1>8. ClaimsHeld'
    BY <1>2, <1>4, <1>5 DEF ClaimsHeld, Inv
<1>9. MailsKnown'
  <2> SUFFICES ASSUME NEW d \in Deliveries \ (overrun \cup doubtful')
               PROVE  /\ mails[d] <= 1
                      /\ mails[d] = 1 => status'[d] = "sent"
                                         \/ \E u \in Senders(d)' : task'[u].pc = "sent"
      BY <1>5 DEF MailsKnown
  <2>1. d \notin doubtful
      BY <1>4
  <2>2. CASE d # e
      BY <1>2, <1>6, <2>1, <2>2 DEF MailsKnown, Inv
  <2>3. CASE d = e /\ s = "sent"
    <3>1. status' = [status EXCEPT ![e] = s]
        BY <1>4, <2>3
    <3>2. status'[d] = "sent"
        BY <2>3, <3>1 DEF Inv, TypeOK
    <3> QED BY <2>1, <3>2 DEF MailsKnown, Inv
  <2>4. CASE d = e /\ s = "failed"
      BY <1>3, <2>1, <2>4 DEF MailsKnown, Inv
  <2> QED BY <2>2, <2>3, <2>4
<1> QED BY <1>7, <1>8, <1>9 DEF Inv

\* Steps that move no task and touch no row that is being sent.
LEMMA TasksStill ==
    ASSUME Inv, TypeOK', task' = task, lapsed' = lapsed,
           \A d \in Deliveries :
              status'[d] = status[d] \/ status[d] \in {"pending", "failed"},
           UNCHANGED history
    PROVE  Inv'
<1>1. \A d \in Deliveries : Senders(d)' = Senders(d)
    BY DEF Senders
<1>2. \A d \in Deliveries \ overrun : Senders(d) # {} => status[d] = "sending"
    BY DEF OneSender, Inv
<1> QED BY <1>1, <1>2, NoNewSender DEF history

\* A task that is not a sender takes a delivery to claim.
LEMMA StartsToClaim ==
    ASSUME Inv, TypeOK', NEW t \in Tasks, NEW e, task[t] = Idle,
           task' = [task EXCEPT ![t] = [pc |-> "claim", job |-> e]],
           \A d \in Deliveries : status'[d] = status[d] \/ status[d] = "none",
           lapsed' = lapsed, UNCHANGED history
    PROVE  Inv'
<1> DEFINE r == [pc |-> "claim", job |-> e]
<1>1. \A d \in Deliveries : t \notin Senders(d)
    BY DEF Senders, Idle
<1>2. r.pc = "claim"
    OBVIOUS
<1>3. \A d \in Deliveries : Senders(d)' = Senders(d) \ {t}
    BY <1>2, SendersAfter DEF Inv
<1>4. \A d \in Deliveries : Senders(d)' = Senders(d)
    BY <1>1, <1>3
<1>5. \A d \in Deliveries \ overrun : Senders(d) # {} => status[d] = "sending"
    BY DEF OneSender, Inv
<1>6. \A d \in Deliveries : \A s \in Senders(d) : task'[s] = task[s]
    BY <1>1 DEF Senders, Inv, TypeOK
<1> QED BY <1>4, <1>5, <1>6, NoNewSender DEF history

LEMMA AbandonInv ==
    ASSUME Inv, TypeOK', NEW t \in Tasks, task' = [task EXCEPT ![t] = Idle],
           UNCHANGED <<status, lapsed, mails, overrun>>, doubtful \subseteq doubtful',
           task[t].pc = "sent" => task[t].job \in doubtful'
    PROVE  Inv'
<1>1. \A d \in Deliveries : /\ Senders(d)' = Senders(d) \ {t}
                            /\ \A s \in Senders(d)' : task'[s] = task[s]
    BY Released DEF Inv
<1>2. \A d \in Deliveries : t \in Senders(d) /\ task[t].pc = "sent" => d \in doubtful'
    BY DEF Senders
<1> QED BY <1>1, <1>2, NoNewSender

LEMMA CrashInv ==
    ASSUME Inv, TypeOK', Crash
    PROVE  Inv'
<1>1. \A d \in Deliveries : Senders(d)' = {}
    BY DEF Crash, Senders, Idle
<1>2. \A d \in Deliveries : \A t \in Senders(d) : task[t].pc = "sent" => d \in doubtful'
    BY DEF Crash, Senders, Unrecorded
<1>3. UNCHANGED <<status, lapsed, mails, overrun>> /\ doubtful \subseteq doubtful'
    BY DEF Crash, rowVars
<1> QED BY <1>1, <1>2, <1>3, NoNewSender

LEMMA LapseInv ==
    ASSUME Inv, TypeOK', NEW e \in Deliveries, Lapse(e)
    PROVE  Inv'
<1>1. \A d \in Deliveries : Senders(d)' = Senders(d)
    BY DEF Lapse, Senders
<1>2. /\ UNCHANGED <<status, task, mails, doubtful>>
      /\ overrun \subseteq overrun'
      /\ lapsed' = lapsed \cup {e}
      /\ Senders(e) # {} => e \in overrun'
    BY DEF Lapse
<1>3. OneSender'
    BY <1>1, <1>2 DEF OneSender, Inv
<1>4. ClaimsHeld'
    BY <1>1, <1>2 DEF ClaimsHeld, Inv
<1>5. MailsKnown'
    BY <1>1, <1>2 DEF MailsKnown, Inv
<1> QED BY <1>3, <1>4, <1>5 DEF Inv

LEMMA InvStep ==
    ASSUME Inv, [Next]_vars
    PROVE  Inv'
<1> USE DEF rowVars, loopVars
<1>0. TypeOK'
    BY TypeStep DEF Inv
<1>1. ASSUME NEW c \in Callbacks, NEW w \in Welcomes, NEW f \in FollowUps, SignUp(c, w, f)
      PROVE  Inv'
  <2>1. \A d \in Deliveries : status'[d] = status[d] \/ status[d] = "none"
      BY <1>1 DEF SignUp, Inv, TypeOK
  <2>2. c \in Tasks /\ task' = [task EXCEPT ![c] = [pc |-> "claim", job |-> w]]
      BY <1>1 DEF SignUp, Tasks
  <2>3. task[c] = Idle /\ lapsed' = lapsed /\ UNCHANGED history
      BY <1>1 DEF SignUp
  <2> QED BY <1>0, <2>1, <2>2, <2>3, StartsToClaim
<1>2. ASSUME NEW d \in Deliveries, Activity(d) \/ Reach(d)
      PROVE  Inv'
    BY <1>0, <1>2, TasksStill DEF Activity, Reach
<1>3. ASSUME NEW d \in Deliveries, Lapse(d)
      PROVE  Inv'
    BY <1>0, <1>3, LapseInv
<1>4. ASSUME NEW t \in Tasks, Claim(t)
      PROVE  Inv'
    BY <1>0, <1>4, ClaimInv
<1>5. ASSUME NEW t \in Tasks, ClaimNothing(t)
      PROVE  Inv'
    BY <1>0, <1>5, AbandonInv DEF ClaimNothing, history
<1>6. ASSUME NEW t \in Tasks, Send(t)
      PROVE  Inv'
    BY <1>0, <1>6, SendInv
<1>7. ASSUME NEW t \in Tasks, RecordSent(t) \/ RecordFailed(t)
      PROVE  Inv'
    BY <1>0, <1>7, FinishInv DEF RecordSent, RecordFailed
<1>8. ASSUME NEW c \in Callbacks, Abandon(c)
      PROVE  Inv'
  <2>1. c \in Tasks
      BY DEF Tasks
  <2>2. task[c].pc = "sent" => task[c].job \in doubtful'
      BY <1>8 DEF Abandon, Unrecorded
  <2>3. /\ task' = [task EXCEPT ![c] = Idle] /\ doubtful \subseteq doubtful'
        /\ UNCHANGED <<status, lapsed, mails, overrun>>
      BY <1>8 DEF Abandon
  <2> QED BY <1>0, <2>1, <2>2, <2>3, AbandonInv
<1>9. CASE Crash
    BY <1>0, <1>9, CrashInv
<1>10. CASE SkipActive
  <2>1. \A d \in Deliveries : status'[d] = status[d] \/ status[d] \in {"pending", "failed"}
      BY <1>10 DEF SkipActive
  <2> QED BY <1>0, <1>10, <2>1, TasksStill DEF SkipActive
<1>11. CASE ListWelcomes \/ ListFollowUps
    BY <1>0, <1>11, TasksStill DEF ListWelcomes, ListFollowUps, List
<1>12. CASE TakeNext
  <2>1. PICK d \in batch : task' = [task EXCEPT ![Worker] = [pc |-> "claim", job |-> d]]
      BY <1>12 DEF TakeNext
  <2>2. Worker \in Tasks
      BY DEF Tasks
  <2>3. task[Worker] = Idle /\ UNCHANGED <<status, lapsed>> /\ UNCHANGED history
      BY <1>12 DEF TakeNext
  <2> QED BY <1>0, <2>1, <2>2, <2>3, StartsToClaim
<1>13. CASE Wake \/ Settle
    BY <1>0, <1>13, TasksStill DEF Wake, Settle
<1>14. CASE UNCHANGED vars
    BY <1>0, <1>14, TasksStill DEF vars
<1>15. FollowUps \subseteq Deliveries
    BY DEF Deliveries
<1> QED BY <1>1, <1>2, <1>3, <1>4, <1>5, <1>6, <1>7, <1>8, <1>9, <1>10, <1>11, <1>12,
           <1>13, <1>14, <1>15 DEF Next, Deliver, Loop

\* The inductive invariant of the e-mail deliveries holds in every state.
THEOREM EmailInvariance == Spec => []Inv
<1>1. Init => Inv
  <2> SUFFICES ASSUME Init PROVE Inv
      OBVIOUS
  <2>1. TypeOK
      BY InitTypes
  <2>2. \A d \in Deliveries : Senders(d) = {}
      BY DEF Init, Senders, Idle
  <2>3. \A d \in Deliveries : mails[d] = 0
      BY DEF Init
  <2> QED BY <2>1, <2>2, <2>3 DEF Inv, OneSender, ClaimsHeld, MailsKnown
<1> QED BY <1>1, InvStep, PTL DEF Spec

\* Unless a sender outlives its 15 minutes, a delivery has one sender at most
\* and its row is `sending` meanwhile, for any number of accounts and requests.
THEOREM SenderUnique == Spec => []OneSender
<1>1. Inv => OneSender
    BY DEF Inv
<1> QED BY <1>1, EmailInvariance, PTL

\* A second copy of an e-mail is sent only if the first was accepted and could
\* not be recorded, or a sender outlived its claim.
THEOREM AtMostOneCopy == Spec => []NoSecondCopy
<1>1. Inv => NoSecondCopy
    BY DEF Inv, TypeOK, MailsKnown, NoSecondCopy
<1> QED BY <1>1, EmailInvariance, PTL

\* A sent or skipped delivery stays closed: the unguarded UPDATEs of the outcome
\* never meet one, unless their sender outlived its claim.
THEOREM ClosedIsFinal == Spec => ClosedSticks
<1>1. Inv /\ [Next]_vars => [ClosedStays]_vars
  <2> SUFFICES ASSUME Inv, Next, NEW d \in Deliveries,
                      status[d] \in {"sent", "skipped"}, d \notin overrun
               PROVE  status'[d] = status[d]
      BY DEF ClosedStays
  <2> USE DEF rowVars
  <2>1. Senders(d) = {}
      BY DEF Inv, OneSender
  <2>2. ASSUME NEW c \in Callbacks, NEW w \in Welcomes, NEW f \in FollowUps, SignUp(c, w, f)
        PROVE  status'[d] = status[d]
      BY <2>2 DEF SignUp, Inv, TypeOK
  <2>3. ASSUME NEW t \in Tasks, Claim(t)
        PROVE  status'[d] = status[d]
      BY <2>3 DEF Claim, Write, Claimable, Open, Inv, TypeOK
  <2>4. ASSUME NEW t \in Tasks, RecordSent(t) \/ RecordFailed(t)
        PROVE  status'[d] = status[d]
    <3>1. task[t].job # d
        BY <2>1, <2>4 DEF Senders, RecordSent, RecordFailed
    <3> QED BY <2>4, <3>1 DEF RecordSent, RecordFailed, Finish, Write, Inv, TypeOK
  <2>5. CASE SkipActive
      BY <2>5 DEF SkipActive
  <2>6. ASSUME NEW t \in Tasks, ClaimNothing(t) \/ Send(t)
        PROVE  status'[d] = status[d]
      BY <2>6 DEF ClaimNothing, Send
  <2>7. ASSUME NEW e, Activity(e) \/ Reach(e) \/ Lapse(e)
        PROVE  status'[d] = status[d]
      BY <2>7 DEF Activity, Reach, Lapse
  <2>8. ASSUME NEW c, Abandon(c)
        PROVE  status'[d] = status[d]
      BY <2>8 DEF Abandon
  <2>9. CASE ListWelcomes \/ ListFollowUps \/ TakeNext \/ Wake \/ Crash \/ Settle
      BY <2>9 DEF ListWelcomes, ListFollowUps, List, TakeNext, Wake, Crash, Settle
  <2> QED BY <2>2, <2>3, <2>4, <2>5, <2>6, <2>7, <2>8, <2>9 DEF Next, Deliver, Loop
<1> QED BY <1>1, EmailInvariance, PTL DEF Spec, ClosedSticks

-----------------------------------------------------------------------------
(***************************************************************************)
(* Every e-mail was counted before it was sent: the attempts of a delivery   *)
(* cover its accepted e-mails and those claims that have not sent yet.       *)
(***************************************************************************)
Sending(d) == {t \in Senders(d) : task[t].pc = "send"}

LEMMA SendingFinite ==
    ASSUME IsFiniteSet(Callbacks), NEW d
    PROVE  /\ IsFiniteSet(Sending(d)) /\ Cardinality(Sending(d)) \in Nat
           /\ IsFiniteSet(Sending(d)') /\ Cardinality(Sending(d)') \in Nat
<1>1. IsFiniteSet(Tasks)
    BY FS_Union, FS_Singleton DEF Tasks
<1>2. Sending(d) \subseteq Tasks /\ Sending(d)' \subseteq Tasks
    BY DEF Sending, Senders
<1> QED BY <1>1, <1>2, FS_Subset, FS_CardinalityType

\* A step without a new claim that sends nothing keeps the account.
LEMMA AccountKept ==
    ASSUME IsFiniteSet(Callbacks), TypeOK, MailsAccounted,
           UNCHANGED <<mails, attempts>>,
           \A t \in Tasks : task'[t].pc = "send" => task'[t] = task[t]
    PROVE  MailsAccounted'
<1> SUFFICES ASSUME NEW d \in Deliveries
             PROVE  mails[d] + Cardinality(Sending(d)') <= attempts[d]
    BY DEF MailsAccounted, Sending
<1>1. Sending(d)' \subseteq Sending(d)
    BY DEF Sending, Senders
<1>2. Cardinality(Sending(d)') <= Cardinality(Sending(d))
    BY <1>1, SendingFinite, FS_Subset
<1>3. mails[d] + Cardinality(Sending(d)) <= attempts[d]
    BY DEF MailsAccounted, Sending
<1>4. mails[d] \in Nat /\ attempts[d] \in Nat
    BY DEF TypeOK
<1> QED BY <1>2, <1>3, <1>4, SendingFinite

\* One task moves to step pc of its delivery e.
LEMMA SendingAfter ==
    ASSUME TypeOK, NEW t \in Tasks, NEW pc \in {"send", "sent", "failed"},
           task[t].pc # "idle", task' = [task EXCEPT ![t].pc = pc], NEW d \in Deliveries
    PROVE  Sending(d)' = IF task[t].job = d /\ pc = "send"
                         THEN Sending(d) \cup {t} ELSE Sending(d) \ {t}
<1>1. /\ task'[t].pc = pc /\ task'[t].job = task[t].job
      /\ \A s \in Tasks \ {t} : task'[s] = task[s]
    BY DEF TypeOK, TaskStates
<1> QED BY <1>1 DEF Sending, Senders

LEMMA ClaimAccounted ==
    ASSUME IsFiniteSet(Callbacks), TypeOK, MailsAccounted, NEW t \in Tasks, Claim(t)
    PROVE  MailsAccounted'
<1>0. PICK e \in Deliveries : task[t].job = e
    BY JobType DEF Claim
<1>1. /\ task[t].pc = "claim" /\ task' = [task EXCEPT ![t].pc = "send"]
      /\ attempts' = [attempts EXCEPT ![e] = @ + 1] /\ mails' = mails
    BY <1>0 DEF Claim, history
<1> SUFFICES ASSUME NEW d \in Deliveries
             PROVE  mails[d] + Cardinality(Sending(d)') <= attempts'[d]
    BY <1>1 DEF MailsAccounted, Sending
<1>2. mails[d] + Cardinality(Sending(d)) <= attempts[d]
    BY DEF MailsAccounted, Sending
<1>3. mails[d] \in Nat /\ attempts[d] \in Nat
    BY DEF TypeOK
<1>4. t \notin Sending(d)
    BY <1>1 DEF Sending
<1>5. Sending(d)' = IF d = e THEN Sending(d) \cup {t} ELSE Sending(d) \ {t}
    BY <1>0, <1>1, SendingAfter
<1>6. CASE d = e
  <2>1. Cardinality(Sending(d)') = Cardinality(Sending(d)) + 1
      BY <1>4, <1>5, <1>6, SendingFinite, FS_AddElement
  <2>2. attempts'[d] = attempts[d] + 1
      BY <1>1, <1>6 DEF TypeOK
  <2> QED BY <1>2, <1>3, <2>1, <2>2, SendingFinite
<1>7. CASE d # e
  <2>1. Sending(d)' = Sending(d) /\ attempts'[d] = attempts[d]
      BY <1>1, <1>4, <1>5, <1>7 DEF TypeOK
  <2> QED BY <1>2, <2>1
<1> QED BY <1>6, <1>7

LEMMA SendAccounted ==
    ASSUME IsFiniteSet(Callbacks), TypeOK, MailsAccounted, NEW t \in Tasks, Send(t)
    PROVE  MailsAccounted'
<1>0. PICK e \in Deliveries : task[t].job = e
    BY JobType DEF Send
<1>1. PICK pc \in {"sent", "failed"} : task' = [task EXCEPT ![t].pc = pc]
    BY DEF Send
<1>2. /\ task[t].pc = "send" /\ attempts' = attempts
      /\ mails' = mails \/ mails' = [mails EXCEPT ![e] = @ + 1]
    BY <1>0 DEF Send, rowVars
<1> SUFFICES ASSUME NEW d \in Deliveries
             PROVE  mails'[d] + Cardinality(Sending(d)') <= attempts[d]
    BY <1>2 DEF MailsAccounted, Sending
<1>3. mails[d] + Cardinality(Sending(d)) <= attempts[d]
    BY DEF MailsAccounted, Sending
<1>4. mails[d] \in Nat /\ attempts[d] \in Nat
    BY DEF TypeOK
<1>5. Sending(d)' = Sending(d) \ {t}
    BY <1>1, <1>2, SendingAfter
<1>6. CASE d = e
  <2>1. t \in Sending(d)
      BY <1>0, <1>2, <1>6 DEF Sending, Senders
  <2>2. Cardinality(Sending(d)') = Cardinality(Sending(d)) - 1
      BY <1>5, <2>1, SendingFinite, FS_RemoveElement
  <2>3. mails'[d] <= mails[d] + 1 /\ mails'[d] \in Nat
      BY <1>2, <1>4, <1>6 DEF TypeOK
  <2> QED BY <1>3, <1>4, <2>2, <2>3, SendingFinite
<1>7. CASE d # e
  <2>1. t \notin Sending(d)
      BY <1>0, <1>7 DEF Sending, Senders
  <2>2. Sending(d)' = Sending(d) /\ mails'[d] = mails[d]
      BY <1>2, <1>5, <1>7, <2>1 DEF TypeOK
  <2> QED BY <1>3, <2>2
<1> QED BY <1>6, <1>7

LEMMA AccountedStep ==
    ASSUME IsFiniteSet(Callbacks), TypeOK, MailsAccounted, [Next]_vars
    PROVE  MailsAccounted'
<1> USE DEF rowVars, loopVars, history
<1>0. ASSUME NEW t \in Tasks, NEW r, r.pc # "send", task' = [task EXCEPT ![t] = r],
             UNCHANGED <<mails, attempts>>
      PROVE  MailsAccounted'
  <2>1. \A s \in Tasks : task'[s].pc = "send" => task'[s] = task[s]
      BY <1>0 DEF TypeOK
  <2> QED BY <1>0, <2>1, AccountKept
<1>1. ASSUME UNCHANGED <<task, mails, attempts>> PROVE MailsAccounted'
    BY <1>1, AccountKept
<1>2. Idle.pc = "idle"
    BY DEF Idle
<1>3. ASSUME NEW c \in Callbacks, NEW w \in Welcomes, NEW f \in FollowUps, SignUp(c, w, f)
      PROVE  MailsAccounted'
  <2> DEFINE r == [pc |-> "claim", job |-> w]
  <2>1. r.pc # "send" /\ c \in Tasks
      BY DEF Tasks
  <2>2. task' = [task EXCEPT ![c] = r] /\ UNCHANGED <<mails, attempts>>
      BY <1>3 DEF SignUp
  <2> HIDE DEF r
  <2> QED BY <1>0, <2>1, <2>2
<1>4. ASSUME NEW d, Activity(d) \/ Reach(d) \/ Lapse(d) PROVE MailsAccounted'
    BY <1>1, <1>4 DEF Activity, Reach, Lapse
<1>5. ASSUME NEW t \in Tasks, ClaimNothing(t) PROVE MailsAccounted'
    BY <1>0, <1>2, <1>5 DEF ClaimNothing
<1>6. ASSUME NEW t \in Tasks, RecordSent(t) \/ RecordFailed(t) PROVE MailsAccounted'
    BY <1>0, <1>2, <1>6 DEF RecordSent, RecordFailed, Finish
<1>7. ASSUME NEW t \in Tasks, Claim(t) \/ Send(t) PROVE MailsAccounted'
    BY <1>7, ClaimAccounted, SendAccounted
<1>8. ASSUME NEW c \in Callbacks, Abandon(c) PROVE MailsAccounted'
    BY <1>0, <1>2, <1>8 DEF Abandon, Tasks
<1>9. CASE Crash
  <2>1. \A s \in Tasks : task'[s].pc # "send"
      BY <1>2, <1>9 DEF Crash
  <2> QED BY <1>9, <2>1, AccountKept DEF Crash
<1>10. CASE TakeNext
  <2>1. PICK d \in batch : task' = [task EXCEPT ![Worker] = [pc |-> "claim", job |-> d]]
      BY <1>10 DEF TakeNext
  <2> DEFINE r == [pc |-> "claim", job |-> d]
  <2>2. r.pc # "send" /\ Worker \in Tasks
      BY DEF Tasks
  <2>3. task' = [task EXCEPT ![Worker] = r] /\ UNCHANGED <<mails, attempts>>
      BY <1>10, <2>1 DEF TakeNext
  <2> HIDE DEF r
  <2> QED BY <1>0, <2>2, <2>3
<1>11. CASE SkipActive \/ ListWelcomes \/ ListFollowUps \/ Wake \/ Settle \/ UNCHANGED vars
    BY <1>1, <1>11 DEF SkipActive, ListWelcomes, ListFollowUps, List, Wake, Settle, vars
<1> QED BY <1>3, <1>4, <1>5, <1>6, <1>7, <1>8, <1>9, <1>10, <1>11 DEF Next, Deliver, Loop

\* Each e-mail the provider accepted is covered by a counted attempt, although
\* tasks are killed, writes fail and claims are outlived, for any number of
\* accounts and finitely many sign-in requests.
THEOREM MailsBacked ==
    ASSUME IsFiniteSet(Callbacks)
    PROVE  Spec => []MailsAccounted
<1>1. Init => MailsAccounted
  <2> SUFFICES ASSUME Init, NEW d \in Deliveries
               PROVE  mails[d] + Cardinality(Sending(d)) <= attempts[d]
      BY DEF MailsAccounted, Sending
  <2>1. Sending(d) = {}
      BY DEF Init, Sending, Senders, Idle
  <2> QED BY <2>1, FS_EmptySet DEF Init
<1>2. TypeOK /\ MailsAccounted /\ [Next]_vars => MailsAccounted'
    BY AccountedStep
<1> QED BY <1>1, <1>2, EmailTypes, PTL DEF Spec
=============================================================================
