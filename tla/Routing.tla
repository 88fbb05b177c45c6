------------------------------- MODULE Routing -------------------------------
(***************************************************************************)
(* What a workspace owns and where its events go: forward_rules, custom       *)
(* domains, API keys, the Slack destination, the quotas of the free plan,     *)
(* and the two ways an event gets in.  Every handler is a request of Handler, *)
(* and a row it inserts bears its number, as a new UUID would.               *)
(*                                                                         *)
(* A pattern is compared for equality, `*` like any other: PRD F3.3 promises  *)
(* a wildcard, and rules.rs makes `*` the default pattern, but the query of   *)
(* handle_webhook_inner knows none.                                        *)
(*                                                                         *)
(* Left out: a rule named Default, headers, methods and secrets of rules,     *)
(* the ingest_hostname of a rule (nothing reads it back), the provider_id a   *)
(* client may send along with a new provider, Telegram, the X-Target-Url      *)
(* header, which is refused unless switched on, and the branch of             *)
(* send_webhook in which the client names source and target itself.          *)
(***************************************************************************)
EXTENDS Handler

CONSTANTS
    Olds,        \* ids of the rows there are from the start
    Sources,     \* sources of webhooks, and patterns of rules
    Star,        \* the pattern `*`
    Targets,     \* target URLs; None is the empty one
    Fallback,    \* the default target of the workspace, whatever it is
    Hosts,       \* hostnames
    Limit,       \* of each resource on the free plan
    EventLimit   \* FREE_EVENT_LIMIT

Resources == {"providers", "domains", "api_keys"}

ASSUME RoutingAssumption ==
    /\ Olds \subseteq Nat /\ Olds \cap Requests = {}
    /\ Star \in Sources
    /\ Fallback \notin Targets \cup {None}
    /\ Limit \in [Resources -> Nat]
    /\ EventLimit \in Nat

Ids      == Olds \cup Requests
Triggers == {"success", "failure"}
Ways     == {"webhook", "slack"}
Rule     == [kind : {"provider", "hook"}, of : Ids \cup {None}, from : Sources,
             to : Targets \cup {None}, on : BOOLEAN, when : Triggers, via : Ways]
Domain   == [host : Hosts, status : {"pending", "active", "failed"}]
Event    == [source : Sources \cup Ids, target : Targets \cup {Fallback, None}]

VARIABLES
    paid,         \* organization_has_paid_entitlements
    rule,         \* forward_rules
    domain,       \* organization_domains
    key,          \* api_tokens: None, valid or revoked
    destination,  \* whether organization_destinations has Slack, enabled
    used,         \* organization_usage of this period
    event         \* webhook_events: the one each request stored

owned       == <<rule, domain, key, destination>>
routingVars == <<owned, paid, used, event>>

Provider(from, to, on) == [kind |-> "provider", of |-> None, from |-> from, to |-> to,
                           on |-> on, when |-> "success", via |-> "webhook"]
Hook(k, from, to, when, via) == [kind |-> "hook", of |-> k, from |-> from, to |-> to,
                                 on |-> TRUE, when |-> when, via |-> via]

-----------------------------------------------------------------------------
(***************************************************************************)
(* What the queries ask.                                                   *)
(***************************************************************************)
IsProvider(k) == rule[k] # None /\ rule[k].kind = "provider"
Serves(k, source) == IsProvider(k) /\ rule[k].on /\ rule[k].from = source
Active(h) == \E i \in Ids : domain[i] = [host |-> h, status |-> "active"]

\* resource_count: hooks are counted with the providers, failed domains are not.
Count(resource) == Cardinality(
    CASE resource = "providers" -> {k \in Ids : rule[k] # None}
      [] resource = "domains"   -> {i \in Ids : domain[i] # None /\ domain[i].status # "failed"}
      [] resource = "api_keys"  -> {i \in Ids : key[i] = "valid"})

\* What a request reads first and relies on later.
Reads(op) ==
    CASE op \in Resources -> {op, "plan"}
      [] op \in {"hook", "edit", "send", "notify"} -> {"rules"}
      [] op = "ingest" -> {"rules", "domains"}
      [] op = "login"  -> {"passkeys"}
      [] OTHER         -> {}

Note(r, what) == Overtake(r, {s \in Requests : what \in Reads(req[s].op)})

Reread(s) == {req[s].on} \cup (IF req[s].as.field = "of" THEN {req[s].as.value} ELSE {})

\* A change of rule k: an edit relies on its own row and on its new parent.
NoteRule(r, k, counted) ==
    Overtake(r, {s \in Requests :
        \/ counted /\ req[s].op = "providers"
        \/ "rules" \in Reads(req[s].op) /\ (req[s].op = "edit" => k \in Reread(s))})

-----------------------------------------------------------------------------
(***************************************************************************)
(* create_rule of a provider, create_domain and create_token, which begin    *)
(* with ensure_resource_quota, and create_rule of a hook, which does not.    *)
(***************************************************************************)
Create(r, resource, new) ==
    /\ Enter(r, "quota", resource, None, None, new)
    /\ UNCHANGED <<routingVars, overtaken>>

\* A native hook has a name in place of a target URL.
CreateHook(r, k, to, when, via) ==
    /\ via = "slack" => to = None
    /\ Enter(r, "parent", "hook", None, k, [to |-> to, when |-> when, via |-> via])
    /\ UNCHANGED <<routingVars, overtaken>>

\* Mutant: an off-by-one.
RoomForOneMore(resource) == Count(resource) <= Limit[resource]

Room(resource) == Count(resource) < Limit[resource]

EnsureQuota(r) ==
    /\ req[r].pc = "quota"
    /\ IF paid \/ Room(req[r].op) THEN Goto(r, "insert") ELSE Finish(r)
    /\ UNCHANGED <<routingVars, overtaken>>

\* Of a new hook, or of one that is moved: its pattern is copied from there.
ReadParent(r) ==
    LET parent == IF req[r].op = "edit" THEN req[r].as.value ELSE req[r].on
    IN  /\ req[r].pc = "parent"
        /\ IF ~IsProvider(parent) THEN Finish(r)
           ELSE Keep(r, IF req[r].op = "edit"
                        THEN [req[r].saw EXCEPT !.of = parent, !.from = rule[parent].from]
                        ELSE Hook(parent, rule[parent].from, req[r].as.to, req[r].as.when, req[r].as.via),
                     "native")
        /\ UNCHANGED <<routingVars, overtaken>>

\* ensure_native_destination_available, for hooks.
NativeAvailable(r) ==
    /\ req[r].pc = "native"
    /\ IF req[r].saw.via = "webhook" \/ destination
       THEN Goto(r, IF req[r].op = "edit" THEN "write" ELSE "insert")
       ELSE Finish(r)
    /\ UNCHANGED <<routingVars, overtaken>>

\* provider_id is a foreign key.
Refers(row) == row.of = None \/ rule[row.of] # None

InsertRule(r) ==
    LET row == IF req[r].op = "hook" THEN req[r].saw ELSE req[r].as
    IN  /\ req[r].pc = "insert" /\ req[r].op \in {"providers", "hook"}
        /\ IF Refers(row)
           THEN rule' = [rule EXCEPT ![r] = row] /\ NoteRule(r, r, TRUE)
           ELSE UNCHANGED <<rule, overtaken>>
        /\ Finish(r)
        /\ UNCHANGED <<paid, domain, key, destination, used, event>>

\* hostname is UNIQUE.
InsertDomain(r) ==
    /\ req[r].pc = "insert" /\ req[r].op = "domains"
    /\ IF \A i \in Ids : domain[i] # None => domain[i].host # req[r].as
       THEN /\ domain' = [domain EXCEPT ![r] = [host |-> req[r].as, status |-> "pending"]]
            /\ Note(r, "domains")
       ELSE UNCHANGED <<domain, overtaken>>
    /\ Finish(r)
    /\ UNCHANGED <<paid, rule, key, destination, used, event>>

InsertKey(r) ==
    /\ req[r].pc = "insert" /\ req[r].op = "api_keys"
    /\ key' = [key EXCEPT ![r] = "valid"]
    /\ Note(r, "api_keys")
    /\ Finish(r)
    /\ UNCHANGED <<paid, rule, domain, destination, used, event>>

-----------------------------------------------------------------------------
(***************************************************************************)
(* update_rule, an edit of one field: the row is read, completed and written *)
(* back whole.  The input of each check in between is the row read.          *)
(***************************************************************************)
Edits == [field : {"from"}, value : Sources] \cup [field : {"to"}, value : Targets]
         \cup [field : {"on"}, value : BOOLEAN] \cup [field : {"of"}, value : Ids]
         \cup [field : {"when"}, value : Triggers] \cup [field : {"via"}, value : Ways]

UpdateRule(r, k, edit) ==
    /\ Enter(r, "read", "edit", None, k, edit)
    /\ UNCHANGED <<routingVars, overtaken>>

\* A hook takes no pattern, a provider no parent; a native hook keeps its name
\* in place of a URL.  Moving a hook is the business of ReadParent.
Ignored(row, edit) ==
    \/ edit.field = "of"
    \/ edit.field = "from" /\ row.kind = "hook"
    \/ edit.field = "to" /\ row.via = "slack"

\* Mutant: a field the request leaves out gets its default.
CompletedDefault(row, edit) ==
    IF Ignored(row, edit) THEN row
    ELSE [[row EXCEPT !.on = TRUE] EXCEPT ![edit.field] = edit.value]

Completed(row, edit) ==
    IF Ignored(row, edit) THEN row
    ELSE IF edit.field = "via" /\ edit.value = "slack" THEN [row EXCEPT !.via = "slack", !.to = None]
    ELSE [row EXCEPT ![edit.field] = edit.value]

\* A provider takes webhooks only, and the name of a native hook is no URL.
Refused(row, edit) ==
    /\ edit.field = "via"
    /\ IF row.kind = "provider" THEN edit.value # "webhook"
       ELSE row.via = "slack" /\ edit.value = "webhook"

ReadRule(r) ==
    LET row == rule[req[r].on]  edit == req[r].as
    IN  /\ req[r].pc = "read"
        /\ IF row = None \/ (row # None /\ Refused(row, edit)) THEN Finish(r)
           ELSE Keep(r, Completed(row, edit),
                     IF row.kind = "provider" THEN "write"
                     ELSE IF edit.field = "of" THEN "parent" ELSE "native")
        /\ UNCHANGED <<routingVars, overtaken>>

WriteRule(r) ==
    LET k == req[r].on
    IN  /\ req[r].pc = "write"
        /\ IF rule[k] # None /\ Refers(req[r].saw)
           THEN rule' = [rule EXCEPT ![k] = req[r].saw] /\ NoteRule(r, k, FALSE)
           ELSE UNCHANGED <<rule, overtaken>>
        /\ Finish(r)
        /\ UNCHANGED <<paid, domain, key, destination, used, event>>

\* ON DELETE CASCADE takes the hooks along.
DeleteRule(r, k) ==
    /\ Once(r)
    /\ rule' = [i \in Ids |-> IF i = k \/ (rule[i] # None /\ rule[i].of = k) THEN None ELSE rule[i]]
    /\ Overtake(r, {s \in Requests : "rules" \in Reads(req[s].op)})
    /\ UNCHANGED <<paid, domain, key, destination, used, event>>

-----------------------------------------------------------------------------
(***************************************************************************)
(* save_destination, verify_domain, delete_domain, revoke_token.            *)
(***************************************************************************)
SaveDestination(r, enabled) ==
    /\ Once(r)
    /\ destination' = enabled
    /\ Note(r, "rules")
    /\ UNCHANGED <<paid, rule, domain, key, used, event>>

VerifyDomain(r, i) ==
    /\ domain[i] # None
    /\ Enter(r, "dns", "verify", None, i, None)
    /\ UNCHANGED <<routingVars, overtaken>>

\* A lookup that fails is a lookup that finds nothing.
WriteStatus(r) ==
    /\ req[r].pc = "dns"
    /\ \E status \in {"active", "failed"} :
          domain' = IF domain[req[r].on] # None
                    THEN [domain EXCEPT ![req[r].on].status = status] ELSE domain
    /\ Finish(r)
    /\ Note(r, "domains")
    /\ UNCHANGED <<paid, rule, key, destination, used, event>>

DeleteDomain(r, i) ==
    /\ domain[i] # None
    /\ Once(r)
    /\ domain' = [domain EXCEPT ![i] = None]
    /\ Note(r, "domains")
    /\ UNCHANGED <<paid, rule, key, destination, used, event>>

RevokeToken(r, i) ==
    /\ key[i] = "valid"
    /\ Once(r)
    /\ key' = [key EXCEPT ![i] = "revoked"]
    /\ UNCHANGED <<paid, rule, domain, destination, used, event, overtaken>>

-----------------------------------------------------------------------------
(***************************************************************************)
(* handle_webhook at a custom domain, or (h = None) at the canonical host     *)
(* with the key of the workspace; send_webhook by an id; enqueue_event.      *)
(***************************************************************************)
Ingest(r, source, h) ==
    /\ Enter(r, "host", "ingest", None, source, h)
    /\ UNCHANGED <<routingVars, overtaken>>

ResolveHost(r) ==
    /\ req[r].pc = "host"
    /\ IF req[r].as = None \/ Active(req[r].as) THEN Goto(r, "lookup") ELSE Finish(r)
    /\ UNCHANGED <<routingVars, overtaken>>

\* What is stored, and which of the two queries behind it failed.
Route(source, target, failed) == [source |-> source, target |-> target, failed |-> failed]

\* An error of default_target_for ends in the empty target.
Default(r, source, failed) ==
    \/ Keep(r, Route(source, Fallback, failed), "store")
    \/ Keep(r, Route(source, None, failed \cup {"default"}), "store")

\* Mutant: a rule that is switched off still counts.
LookupAny(r) ==
    LET source == req[r].on
        found  == {k \in Ids : IsProvider(k) /\ rule[k].from = source}
    IN  /\ req[r].pc = "lookup"
        /\ \/ found = {} /\ Default(r, source, {})
           \/ \E k \in found :
                 IF rule[k].to = None THEN Default(r, source, {})
                 ELSE Keep(r, Route(source, rule[k].to, {}), "store")
        /\ UNCHANGED <<routingVars, overtaken>>

\* LIMIT 1 without an order.  An error is no rule.
Lookup(r) ==
    LET source == req[r].on
        found  == {k \in Ids : Serves(k, source)}
    IN  /\ req[r].pc = "lookup"
        /\ \/ found = {} /\ Default(r, source, {})
           \/ Default(r, source, {"rule"})
           \/ \E k \in found :
                 IF rule[k].to = None THEN Default(r, source, {})
                 ELSE Keep(r, Route(source, rule[k].to, {}), "store")
        /\ UNCHANGED <<routingVars, overtaken>>

\* provider_id may also name a hook; the target of a native one is no URL.
Send(r, k) ==
    /\ Enter(r, "pick", "send", None, k, None)
    /\ UNCHANGED <<routingVars, overtaken>>

\* The source of an event sent by a rule for `*` is the name of the rule, for
\* which its id stands here.
SourceOf(k) == IF rule[k].from = Star THEN k ELSE rule[k].from

Pick(r) ==
    LET row == rule[req[r].on]
    IN  /\ req[r].pc = "pick"
        /\ IF row # None /\ row.on /\ row.via = "webhook" /\ row.to # None
           THEN Keep(r, Route(SourceOf(req[r].on), row.to, {}), "store")
           ELSE Finish(r)
        /\ UNCHANGED <<routingVars, overtaken>>

\* Mutant: the counter has no limit.
QuotaNever == TRUE

\* consume_event_quota: a conditional upsert, with the workspace locked.
QuotaLeft == paid \/ used < EventLimit

\* One transaction: the event is stored and counted, or neither.
Store(r) ==
    /\ req[r].pc = "store"
    /\ IF QuotaLeft
       THEN /\ event' = [event EXCEPT ![r] = [source |-> req[r].saw.source, target |-> req[r].saw.target]]
            /\ used' = IF paid THEN used ELSE used + 1
       ELSE UNCHANGED <<event, used>>
    /\ Finish(r)
    /\ UNCHANGED <<owned, paid, overtaken>>

-----------------------------------------------------------------------------
\* The client goes away, a statement fails, or the input or its URL is refused.
Abandon(r) ==
    /\ Busy(r)
    /\ Finish(r)
    /\ UNCHANGED <<routingVars, overtaken>>

\* The subscription ends: an operator, the trial.  A bound: it does so once.
PlanEnds ==
    /\ paid
    /\ paid' = FALSE
    /\ Note(None, "plan")
    /\ UNCHANGED <<owned, used, event, req>>

\* Another month.
NewPeriod ==
    /\ used > 0
    /\ used' = 0
    /\ UNCHANGED <<owned, paid, event, req, overtaken>>

\* A bound: requests name rows that are there when they come, any other being a
\* 404, and ask for a change.
Stored == {k \in Ids : rule[k] # None}

RoutingArrive(r) ==
    \/ \E from \in Sources, to \in Targets \cup {None} : Create(r, "providers", Provider(from, to, TRUE))
    \/ \E h \in Hosts : Create(r, "domains", h)
    \/ Create(r, "api_keys", None)
    \/ \E k \in Stored, to \in Targets \cup {None}, when \in Triggers, via \in Ways : CreateHook(r, k, to, when, via)
    \/ \E k \in Stored, edit \in Edits :
          /\ rule[k][edit.field] # edit.value
          /\ edit.field = "of" => edit.value \in Stored
          /\ UpdateRule(r, k, edit)
    \/ \E k \in Stored : DeleteRule(r, k) \/ Send(r, k)
    \/ SaveDestination(r, ~destination)
    \/ \E i \in Ids : VerifyDomain(r, i) \/ DeleteDomain(r, i) \/ RevokeToken(r, i)
    \/ \E source \in Sources, h \in Hosts \cup {None} : Ingest(r, source, h)

RoutingProceed(r) ==
    \/ EnsureQuota(r) \/ ReadParent(r) \/ NativeAvailable(r)
    \/ InsertRule(r) \/ InsertDomain(r) \/ InsertKey(r)
    \/ ReadRule(r) \/ WriteRule(r)
    \/ WriteStatus(r)
    \/ ResolveHost(r) \/ Lookup(r) \/ Pick(r) \/ Store(r)
    \/ Abandon(r)
=============================================================================
