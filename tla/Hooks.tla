-------------------------------- MODULE Hooks --------------------------------
(***************************************************************************)
(* forward_to_rules: a worker that has delivered or failed an event tells the *)
(* hooks of the providers of its source, one after the other, each up to      *)
(* three times, and writes what came of it into hook_notification_deliveries. *)
(* A run of it has the frame of a request: it keeps the rows it read while    *)
(* the rules and the destination change.                                    *)
(***************************************************************************)
EXTENDS Routing

MaxPosts == 3

VARIABLES
    hookLog,  \* hook_notification_deliveries
    posted    \* history: what each run sent to each hook, and the 2xx it got

hookVars == <<hookLog, posted>>

LogRow == [hook : Ids, by : Requests, status : {"skipped", "delivered", "failed"},
           attempts : 0..MaxPosts]

HooksInit ==
    /\ hookLog = {}
    /\ posted = [r \in Requests |-> [k \in Ids |-> [sent |-> 0, ok |-> 0]]]

Notify(r, source, trigger) ==
    /\ Enter(r, "select", "notify", None, source, trigger)
    /\ UNCHANGED <<routingVars, overtaken, hookVars>>

\* Mutant: the hooks of a provider that is switched off.
WantsSwitchedOff(k, source, trigger) ==
    /\ rule[k] # None /\ rule[k].kind = "hook" /\ rule[k].on /\ rule[k].when = trigger
    /\ IsProvider(rule[k].of) /\ rule[rule[k].of].from = source

\* The pattern that counts is that of the provider, not the copy in the hook.
Wants(k, source, trigger) ==
    /\ rule[k] # None /\ rule[k].kind = "hook" /\ rule[k].on /\ rule[k].when = trigger
    /\ Serves(rule[k].of, source)

\* An error is no hooks: that is Abandon.
SelectHooks(r) ==
    /\ req[r].pc = "select"
    /\ LET found == {k \in Ids : Wants(k, req[r].on, req[r].as)}
       IN  Keep(r, [via |-> [k \in found |-> rule[k].via], at |-> None, status |-> None, attempts |-> 0],
                "next")
    /\ UNCHANGED <<routingVars, overtaken, hookVars>>

\* A native hook needs the destination now; every URL is looked up again.
NextHook(r) ==
    /\ req[r].pc = "next"
    /\ IF DOMAIN req[r].saw.via = {} THEN Finish(r)
       ELSE \E k \in DOMAIN req[r].saw.via :
            LET job == [req[r].saw EXCEPT !.at = k, !.attempts = 0]
            IN  \/ Keep(r, [job EXCEPT !.status = "skipped"], "log")
                \/ /\ job.via[k] = "webhook" \/ destination
                   /\ Keep(r, [job EXCEPT !.status = "failed"], "post")
    /\ UNCHANGED <<routingVars, overtaken, hookVars>>

\* Mutant: the loop goes on after an answer of 2xx.
PostOn(r) ==
    LET job == [req[r].saw EXCEPT !.attempts = @ + 1]
    IN  /\ req[r].pc = "post"
        /\ \E ok \in BOOLEAN :
              /\ posted' = [posted EXCEPT ![r][job.at] = [sent |-> @.sent + 1, ok |-> @.ok + (IF ok THEN 1 ELSE 0)]]
              /\ Keep(r, IF ok THEN [job EXCEPT !.status = "delivered"] ELSE job,
                      IF job.attempts = MaxPosts THEN "log" ELSE "post")
        /\ UNCHANGED <<routingVars, overtaken, hookLog>>

\* No answer is no 2xx, whether or not the POST arrived.
PostHook(r) ==
    LET job == [req[r].saw EXCEPT !.attempts = @ + 1]
    IN  /\ req[r].pc = "post"
        /\ \E ok \in BOOLEAN :
              /\ posted' = [posted EXCEPT ![r][job.at] = [sent |-> @.sent + 1, ok |-> @.ok + (IF ok THEN 1 ELSE 0)]]
              /\ Keep(r, IF ok THEN [job EXCEPT !.status = "delivered"] ELSE job,
                      IF ok \/ job.attempts = MaxPosts THEN "log" ELSE "post")
        /\ UNCHANGED <<routingVars, overtaken, hookLog>>

\* hook_id is a foreign key; an error is ignored.
LogHook(r) ==
    LET job == req[r].saw
    IN  /\ req[r].pc = "log"
        /\ \/ /\ rule[job.at] # None
              /\ hookLog' = hookLog \cup {[hook |-> job.at, by |-> r, status |-> job.status,
                                           attempts |-> job.attempts]}
           \/ UNCHANGED hookLog
        /\ Keep(r, [via |-> [k \in DOMAIN job.via \ {job.at} |-> job.via[k]], at |-> None,
                    status |-> None, attempts |-> 0], "next")
        /\ UNCHANGED <<routingVars, overtaken, posted>>

\* ON DELETE CASCADE, whoever deletes the hook.
Cascade == hookLog' = {row \in hookLog : rule'[row.hook] # None}

HooksStep(r) ==
    \/ \E source \in Sources, trigger \in Triggers : Notify(r, source, trigger)
    \/ SelectHooks(r) \/ NextHook(r) \/ PostHook(r) \/ LogHook(r)
=============================================================================
