------------------------------ MODULE Resources ------------------------------
(***************************************************************************)
(* Everything an admin edits while webhooks come in and workers run: Routing *)
(* with its Hooks and, on the same requests, Passkeys.                      *)
(***************************************************************************)
EXTENDS Hooks, Passkeys

CONSTANTS
    OldRules,  \* the rules a workspace may have from the start
    OldKeys    \* the passkeys registered from the start

ASSUME ResourcesAssumption ==
    /\ OldRules \subseteq [Olds -> Rule \cup {None}]
    /\ OldKeys \subseteq Keys

vars == <<req, overtaken, routingVars, hookVars, passkeyVars>>

\* With an API key and a domain that has been verified, or not.  A workspace on
\* the free plan has used up its month.
Init ==
    /\ HandlerInit /\ HooksInit /\ PasskeysInit(OldKeys)
    /\ paid \in BOOLEAN
    /\ \E old \in OldRules : rule = [k \in Ids |-> IF k \in Olds THEN old[k] ELSE None]
    /\ \E i \in Olds, h \in Hosts, status \in {"active", "failed"} :
          /\ \A j \in Olds : i <= j
          /\ domain = [j \in Ids |-> IF j = i THEN [host |-> h, status |-> status] ELSE None]
          /\ key = [j \in Ids |-> IF j = i THEN "valid" ELSE None]
    /\ destination = TRUE
    /\ used = IF paid THEN 0 ELSE EventLimit
    /\ event = [r \in Requests |-> None]

\* A bound: nothing happens while no request is under way.  No request looks at
\* the plan or the counter in its first step, so it might as well happen during one.
Environment ==
    /\ \E r \in Requests : Busy(r)
    /\ PlanEnds \/ NewPeriod

Next ==
    \/ /\ Environment \/ \E r \in Requests : RoutingArrive(r) \/ RoutingProceed(r)
       /\ Cascade
       /\ UNCHANGED <<posted, passkeyVars>>
    \/ \E r \in Requests : HooksStep(r) /\ UNCHANGED passkeyVars
    \/ \E r \in Requests : PasskeysStep(r) /\ UNCHANGED <<routingVars, hookVars>>

Spec == Init /\ [][Next]_vars

-----------------------------------------------------------------------------
\* Every table keeps its type, the counter of events within FREE_EVENT_LIMIT.
TypeOK ==
    /\ paid \in BOOLEAN
    /\ rule \in [Ids -> Rule \cup {None}]
    /\ domain \in [Ids -> Domain \cup {None}]
    /\ key \in [Ids -> {"valid", "revoked", None}]
    /\ destination \in BOOLEAN
    /\ used \in 0..EventLimit
    /\ event \in [Requests -> Event \cup {None}]
    /\ hookLog \subseteq LogRow
    /\ passkey \in [Keys -> KeyRow \cup {None}]
    /\ uses \in [Keys -> Nat]
    /\ DOMAIN req = Requests
    /\ overtaken \in [Requests -> BOOLEAN]

\* A workspace on the free plan grows past a quota only by a request that was
\* overtaken after its check, by a hook (which is counted as a provider but not
\* checked), or by verifying a domain that had failed (and was not counted).
QuotaKept ==
    [][\A resource \in Resources :
          ~paid /\ Count(resource)' > Count(resource) /\ Count(resource)' > Limit[resource] =>
              \E r \in Requests : Acts(r) /\ (overtaken[r] \/ req[r].op \in {"hook", "verify"})]_vars

\* A field of a rule changes only by an edit that names it (the pattern of a
\* hook by its move, its target by a change of its way), or by one that was overtaken by another change of the row.
EditsStick ==
    [][\A k \in Ids : rule[k] # None /\ rule'[k] # None =>
          \A f \in DOMAIN rule[k] : rule'[k][f] # rule[k][f] =>
              \E r \in Requests :
                  /\ Acts(r) /\ req[r].op = "edit" /\ req[r].on = k
                  /\ \/ req[r].as.field = f
                     \/ <<req[r].as.field, f>> \in {<<"of", "from">>, <<"via", "to">>}
                     \/ overtaken[r]]_vars

\* What an event is stored with is what the rules say: the target of an active
\* provider of its source; the default one only if no such provider has a target,
\* or the query for it failed; an empty one only if the query for the default
\* failed as well.  Nobody is told of either failure.  A manual send has the
\* target of the rule it names.  The exception is a request that was overtaken.
Routed(r, e, failed) ==
    LET row    == rule[req[r].on]
        meant  == {k \in Ids : Serves(k, e.source)}
        noRule == meant = {} \/ \E k \in meant : rule[k].to = None
    IN  IF req[r].op = "send"
        THEN row # None /\ row.on /\ e = [source |-> SourceOf(req[r].on), target |-> row.to]
        ELSE /\ req[r].as = None \/ Active(req[r].as)
             /\ IF e.target \in {Fallback, None}
                THEN /\ noRule \/ "rule" \in failed
                     /\ e.target = None => "default" \in failed
                ELSE \E k \in meant : rule[k].to = e.target
RoutedByRule ==
    [][\A r \in Requests : event'[r] # event[r] =>
          Routed(r, event'[r], req[r].saw.failed) \/ overtaken[r]]_vars

\* The pattern `*` matches every source, as PRD F3.3 has it: a webhook goes to the
\* default target only if no active provider for its source or for `*` has one.
WildcardRoutes ==
    [][\A r \in Requests :
          /\ event'[r] # event[r] /\ req[r].op = "ingest" /\ event'[r].target = Fallback
          /\ req[r].saw.failed = {} /\ ~overtaken[r]
          => \A k \in Ids :
                Serves(k, req[r].on) \/ Serves(k, Star) => rule[k].to = None]_vars

\* Only a hook that is on, of a provider that is on and has the source of the
\* event, is notified, and a native one only while its destination is enabled;
\* unless a rule or the destination changed under the run.
Meant(k, source, trigger) ==
    /\ rule[k] # None /\ rule[k].kind = "hook" /\ rule[k].on /\ rule[k].when = trigger
    /\ Serves(rule[k].of, source)
    /\ rule[k].via = "webhook" \/ destination
HooksMeant ==
    [][\A r \in Requests, k \in Ids : posted'[r][k] # posted[r][k] =>
          Meant(k, req[r].on, req[r].as) \/ overtaken[r]]_vars

\* The log is true: one row per hook and run, as many attempts as were sent, a
\* hook called delivered if and only if it answered 2xx, and never after that
\* sent anything again.
LogTrue ==
    /\ \A row, other \in hookLog : row.hook = other.hook /\ row.by = other.by => row = other
    /\ \A row \in hookLog :
          /\ row.attempts = posted[row.by][row.hook].sent
          /\ row.status = "skipped" <=> posted[row.by][row.hook].sent = 0
          /\ row.status = "delivered" <=> posted[row.by][row.hook].ok = 1
    /\ \A r \in Requests, k \in Ids : posted[r][k].ok <= 1

\* The stored counter of a passkey, by which a copied authenticator would be
\* noticed, falls only when another sign-in changed it meanwhile.
CounterRises ==
    [][\A k \in Keys :
          passkey[k] # None /\ passkey'[k] # None /\ passkey'[k].count < passkey[k].count =>
              \E r \in Requests : Acts(r) /\ overtaken[r]]_vars
=============================================================================
