---------------------------- MODULE ResourcesProofs ----------------------------
(***************************************************************************)
(* Proofs about Resources: what a request has read still holds when it uses  *)
(* it, unless it was overtaken; so events are routed by the rules, hooks are  *)
(* the ones that are meant, and edits stick.  Then the passkeys, the quotas,  *)
(* the log of the hooks and the types of the tables.                       *)
(***************************************************************************)
EXTENDS Resources, HandlerProofs, FiniteSetTheorems

\* A target URL is never the default one.
Apart == \A k \in Ids : rule[k] # None => rule[k].to # Fallback

Domains ==
    /\ DOMAIN req = Requests /\ overtaken \in [Requests -> BOOLEAN]
    /\ DOMAIN rule = Ids /\ DOMAIN event = Requests /\ DOMAIN posted = Requests
    /\ \A r \in Requests : DOMAIN posted[r] = Ids

Job(via, at, status, attempts) == [via |-> via, at |-> at, status |-> status, attempts |-> attempts]

\* Where a request is tells what it is, and what it brings along.
Tied(r) ==
    /\ Shaped(req[r])
    /\ rule[r] # None => req[r].pc = "over"
    /\ req[r].pc \in {"host", "lookup"} => req[r].op = "ingest"
    /\ req[r].pc = "pick" => req[r].op = "send"
    /\ req[r].pc = "store" => req[r].op \in {"ingest", "send"}
    /\ req[r].pc \in {"select", "next", "post", "log"} => req[r].op = "notify"
    /\ req[r].pc \in {"next", "post", "log"} =>
          req[r].saw = Job(req[r].saw.via, req[r].saw.at, req[r].saw.status, req[r].saw.attempts)
    /\ req[r].pc \in {"read", "write"} => req[r].op = "edit"
    /\ req[r].pc = "sign" => req[r].op = "login"
    /\ req[r].pc = "quota" => req[r].op \in Resources
    /\ req[r].pc = "insert" => req[r].op \in Resources \cup {"hook"}
    /\ req[r].pc \in {"parent", "native"} => req[r].op \in {"hook", "edit"}
    /\ Busy(r) /\ req[r].op = "edit" => req[r].on \in Ids /\ req[r].as \in Edits
    /\ Busy(r) /\ req[r].op \in {"providers", "hook"} => req[r].as.to # Fallback
    /\ req[r].op = "edit" /\ req[r].pc \in {"parent", "native", "write"} => req[r].saw.to # Fallback
    /\ req[r].op = "edit" /\ req[r].pc = "parent" => req[r].as.field = "of"
    /\ req[r].op = "hook" /\ req[r].pc \in {"native", "insert"} => req[r].saw.to # Fallback

\* The row to be written differs from the stored one by the edit alone.
Edited(r) ==
    LET row == rule[req[r].on]  new == req[r].saw
    IN  /\ row # None
        /\ DOMAIN new = DOMAIN row
        /\ \A f \in DOMAIN row : new[f] # row[f] =>
              f = req[r].as.field \/ <<req[r].as.field, f>> \in {<<"of", "from">>, <<"via", "to">>}

Chosen(r) ==
    LET row == rule[req[r].on]  route == req[r].saw
    IN  IF req[r].op = "send"
        THEN row # None /\ row.on /\ route.source = SourceOf(req[r].on) /\ route.target = row.to
        ELSE /\ req[r].as = None \/ Active(req[r].as)
             /\ Routed(r, [source |-> route.source, target |-> route.target], route.failed)

\* What a request has read and not lost.
Sees(r) ==
    /\ req[r].pc = "lookup" => req[r].as = None \/ Active(req[r].as)
    /\ req[r].pc = "store" => Chosen(r)
    /\ req[r].pc \in {"next", "post", "log"} =>
          \A k \in DOMAIN req[r].saw.via :
              k \in Ids /\ Wants(k, req[r].on, req[r].as) /\ req[r].saw.via[k] = rule[k].via
    /\ req[r].pc = "post" =>
          /\ req[r].saw.at \in DOMAIN req[r].saw.via
          /\ req[r].saw.via[req[r].saw.at] = "webhook" \/ destination
    /\ req[r].op = "edit" /\ req[r].pc \in {"parent", "native", "write"} => Edited(r)

Inv ==
    /\ Domains /\ Apart
    /\ \A r \in Requests : Tied(r) /\ (~overtaken[r] => Sees(r))

-----------------------------------------------------------------------------
\* What a step must leave alone for a request s that it does not overtake.
Spares(s) ==
    /\ req[s].op \in {"ingest", "send", "notify"} => rule' = rule
    /\ req[s].op = "edit" => rule'[req[s].on] = rule[req[s].on]
    /\ req[s].op = "ingest" => domain' = domain
    /\ req[s].op = "notify" => destination' = destination

Around(r) ==
    \A s \in Requests \ {r} :
        /\ req'[s] = req[s]
        /\ rule'[s] # None => rule[s] # None
        /\ Busy(s) /\ ~overtaken'[s] => Spares(s)

LEMMA OtherStays ==
    ASSUME NEW s \in Requests, Tied(s), Sees(s), req'[s] = req[s], Busy(s) => Spares(s)
    PROVE  Sees(s)'
<1>1. CASE ~Busy(s)
  BY <1>1 DEF Busy, Sees
<1>2. CASE req[s].pc \in {"lookup", "store"}
  <2>1. rule' = rule
    BY <1>2 DEF Tied, Spares, Busy
  <2>2. req[s].op = "ingest" => domain' = domain
    BY <1>2 DEF Spares, Busy
  <2>3. CASE req[s].pc = "lookup"
    BY <2>2, <2>3 DEF Sees, Tied, Active
  <2>4. CASE req[s].pc = "store" /\ req[s].op = "send"
    BY <2>1, <2>4 DEF Sees, Chosen, SourceOf
  <2>5. CASE req[s].pc = "store" /\ req[s].op = "ingest"
    BY <2>1, <2>2, <2>5 DEF Sees, Chosen, Routed, Active, Serves, IsProvider
  <2> QED BY <1>2, <2>3, <2>4, <2>5 DEF Tied
<1>3. CASE req[s].pc \in {"next", "post", "log"}
  <2>1. rule' = rule /\ destination' = destination
    BY <1>3 DEF Tied, Spares, Busy
  <2> QED BY <1>3, <2>1 DEF Sees, Tied, Wants, Serves, IsProvider
<1>4. CASE req[s].op = "edit" /\ req[s].pc \in {"parent", "native", "write"}
  <2>1. rule'[req[s].on] = rule[req[s].on]
    BY <1>4 DEF Spares, Busy
  <2> QED BY <1>4, <2>1 DEF Sees, Edited
<1> QED BY <1>1, <1>2, <1>3, <1>4 DEF Sees

LEMMA RequestStep ==
    ASSUME Inv, NEW r, Domains', Apart', Remembered, Around(r),
           r \in Requests => Tied(r)' /\ (~overtaken'[r] => Sees(r)')
    PROVE  Inv'
<1>1. ASSUME NEW s \in Requests, s # r
      PROVE  Tied(s)' /\ (~overtaken'[s] => Sees(s)')
  <2>1. Tied(s)'
    BY <1>1 DEF Inv, Around, Tied, Busy
  <2>2. ASSUME ~overtaken'[s]
        PROVE  Sees(s)'
    <3>1. Tied(s) /\ Sees(s)
      BY <1>1, <2>2 DEF Inv, Remembered
    <3>2. req'[s] = req[s] /\ (Busy(s) => Spares(s))
      BY <1>1, <2>2 DEF Around
    <3> QED BY <3>1, <3>2, OtherStays
  <2> QED BY <2>1, <2>2
<1> QED BY <1>1 DEF Inv

\* A step that changes nothing anybody has read.
Quiet ==
    /\ UNCHANGED <<rule, domain, destination>>
    /\ Remembered
    /\ DOMAIN event' = DOMAIN event /\ DOMAIN posted' = DOMAIN posted
    /\ \A s \in Requests : DOMAIN posted'[s] = DOMAIN posted[s]

LEMMA QuietStep ==
    ASSUME Inv, NEW r \in Requests, Quiet, NEW q, Moved(r, q),
           Tied(r)', ~overtaken'[r] => Sees(r)'
    PROVE  Inv'
<1>1. Domains' /\ Apart' /\ Remembered
  BY DEF Inv, Domains, Apart, Quiet, Moved, Remembered
<1>2. Around(r)
  BY DEF Around, Quiet, Moved, Spares
<1> QED BY <1>1, <1>2, RequestStep

LEMMA Ends ==
    ASSUME Inv, NEW r \in Requests, Finish(r)
    PROVE  Moved(r, At("over", None, None, None, None, None)) /\ Tied(r)' /\ Sees(r)'
<1>1. Moved(r, At("over", None, None, None, None, None))
  BY FinishMoves DEF Inv, Domains
<1>2. Tied(r)'
  BY <1>1 DEF Moved, At, Tied, Shaped, Busy
<1>3. Sees(r)'
  BY <1>1 DEF Moved, At, Sees
<1> QED BY <1>1, <1>2, <1>3

LEMMA Goes ==
    ASSUME Inv, NEW r \in Requests, NEW pc, Goto(r, pc)
    PROVE  Moved(r, At(pc, req[r].op, req[r].who, req[r].on, req[r].as, req[r].saw))
BY GotoMoves DEF Inv, Domains, Tied

LEMMA Keeps ==
    ASSUME Inv, NEW r \in Requests, NEW x, NEW pc, Keep(r, x, pc)
    PROVE  Moved(r, At(pc, req[r].op, req[r].who, req[r].on, req[r].as, x))
BY KeepMoves DEF Inv, Domains, Tied

LEMMA Enters ==
    ASSUME Inv, NEW r \in Requests, NEW pc, NEW op, NEW who, NEW on, NEW as,
           Enter(r, pc, op, who, on, as)
    PROVE  Moved(r, At(pc, op, who, on, as, None)) /\ rule[r] = None
<1>1. rule[r] = None
  BY DEF Inv, Tied, Enter, Idle
<1> QED BY <1>1, EnterMoves DEF Inv, Domains

LEMMA NobodyOvertaken ==
    ASSUME Inv, UNCHANGED overtaken
    PROVE  Remembered
BY DEF Inv, Domains, Remembered

-----------------------------------------------------------------------------
\* The steps of Routing that only read, or write what nobody relies on.
LEMMA CreateStep ==
    ASSUME Inv, NEW r \in Requests, NEW resource \in Resources, NEW new,
           resource = "providers" => new.to # Fallback, Create(r, resource, new), UNCHANGED posted
    PROVE  Inv'
<1>1. Quiet
  BY NobodyOvertaken DEF Create, routingVars, hookVars, owned, Quiet
<1>2. Moved(r, At("quota", resource, None, None, new, None)) /\ rule[r] = None
  BY Enters DEF Create
<1>3. Tied(r)' /\ Sees(r)'
  BY <1>1, <1>2 DEF Moved, At, Tied, Sees, Shaped, Busy, Quiet, Resources
<1> QED BY <1>1, <1>2, <1>3, QuietStep

LEMMA CreateHookStep ==
    ASSUME Inv, NEW r \in Requests, NEW k, NEW to, to # Fallback, NEW when, NEW via, CreateHook(r, k, to, when, via), UNCHANGED posted
    PROVE  Inv'
<1>1. Quiet
  BY NobodyOvertaken DEF CreateHook, routingVars, hookVars, owned, Quiet
<1>2. Moved(r, At("parent", "hook", None, k, [to |-> to, when |-> when, via |-> via], None)) /\ rule[r] = None
  BY Enters DEF CreateHook
<1>3. Tied(r)' /\ Sees(r)'
  BY <1>1, <1>2 DEF Moved, At, Tied, Sees, Shaped, Busy, Quiet
<1> QED BY <1>1, <1>2, <1>3, QuietStep

LEMMA UpdateRuleStep ==
    ASSUME Inv, NEW r \in Requests, NEW k \in Ids, NEW edit \in Edits, UpdateRule(r, k, edit), UNCHANGED posted
    PROVE  Inv'
<1>1. Quiet
  BY NobodyOvertaken DEF UpdateRule, routingVars, hookVars, owned, Quiet
<1>2. Moved(r, At("read", "edit", None, k, edit, None)) /\ rule[r] = None
  BY Enters DEF UpdateRule
<1>3. Tied(r)' /\ Sees(r)'
  BY <1>1, <1>2 DEF Moved, At, Tied, Sees, Shaped, Busy, Quiet
<1> QED BY <1>1, <1>2, <1>3, QuietStep

LEMMA VerifyDomainStep ==
    ASSUME Inv, NEW r \in Requests, NEW i, VerifyDomain(r, i), UNCHANGED posted
    PROVE  Inv'
<1>1. Quiet
  BY NobodyOvertaken DEF VerifyDomain, routingVars, hookVars, owned, Quiet
<1>2. Moved(r, At("dns", "verify", None, i, None, None)) /\ rule[r] = None
  BY Enters DEF VerifyDomain
<1>3. Tied(r)' /\ Sees(r)'
  BY <1>1, <1>2 DEF Moved, At, Tied, Sees, Shaped, Busy, Quiet
<1> QED BY <1>1, <1>2, <1>3, QuietStep

LEMMA IngestStep ==
    ASSUME Inv, NEW r \in Requests, NEW source, NEW h, Ingest(r, source, h), UNCHANGED posted
    PROVE  Inv'
<1>1. Quiet
  BY NobodyOvertaken DEF Ingest, routingVars, hookVars, owned, Quiet
<1>2. Moved(r, At("host", "ingest", None, source, h, None)) /\ rule[r] = None
  BY Enters DEF Ingest
<1>3. Tied(r)' /\ Sees(r)'
  BY <1>1, <1>2 DEF Moved, At, Tied, Sees, Shaped, Busy, Quiet
<1> QED BY <1>1, <1>2, <1>3, QuietStep

LEMMA SendStep ==
    ASSUME Inv, NEW r \in Requests, NEW k, Send(r, k), UNCHANGED posted
    PROVE  Inv'
<1>1. Quiet
  BY NobodyOvertaken DEF Send, routingVars, hookVars, owned, Quiet
<1>2. Moved(r, At("pick", "send", None, k, None, None)) /\ rule[r] = None
  BY Enters DEF Send
<1>3. Tied(r)' /\ Sees(r)'
  BY <1>1, <1>2 DEF Moved, At, Tied, Sees, Shaped, Busy, Quiet
<1> QED BY <1>1, <1>2, <1>3, QuietStep

LEMMA RevokeTokenStep ==
    ASSUME Inv, NEW r \in Requests, NEW i, RevokeToken(r, i), UNCHANGED posted
    PROVE  Inv'
<1>1. Quiet
  BY NobodyOvertaken DEF RevokeToken, routingVars, hookVars, owned, Quiet
<1>2. Moved(r, At("over", None, None, None, None, None)) /\ rule[r] = None
  BY Enters DEF RevokeToken, Once
<1>3. Tied(r)' /\ Sees(r)'
  BY <1>1, <1>2 DEF Moved, At, Tied, Sees, Shaped, Busy, Quiet
<1> QED BY <1>1, <1>2, <1>3, QuietStep

LEMMA EnsureQuotaStep ==
    ASSUME Inv, NEW r \in Requests, EnsureQuota(r), UNCHANGED posted
    PROVE  Inv'
<1>1. Quiet
  BY NobodyOvertaken DEF EnsureQuota, routingVars, hookVars, owned, Quiet
<1>2. Tied(r) /\ (~overtaken[r] => Sees(r)) /\ (overtaken[r] => overtaken'[r]) /\ Apart
  BY <1>1 DEF Inv, Quiet, Remembered
<1>3. \/ Goto(r, "insert") /\ req[r].pc = "quota"
      \/ Finish(r)
  BY <1>2 DEF EnsureQuota, Tied
<1>4. CASE Goto(r, "insert") /\ req[r].pc = "quota"
  <2>1. Moved(r, At("insert", req[r].op, req[r].who, req[r].on, req[r].as, req[r].saw))
    BY <1>4, Goes
  <2>2. Tied(r)' /\ (~overtaken'[r] => Sees(r)')
    BY <1>1, <1>2, <1>4, <2>1 DEF Moved, At, Tied, Sees, Shaped, Busy, Quiet, Resources
  <2> QED BY <1>1, <2>1, <2>2, QuietStep
<1>5. CASE Finish(r)
  BY <1>1, <1>5, Ends, QuietStep
<1> QED BY <1>3, <1>4, <1>5

LEMMA ResolveHostStep ==
    ASSUME Inv, NEW r \in Requests, ResolveHost(r), UNCHANGED posted
    PROVE  Inv'
<1>1. Quiet
  BY NobodyOvertaken DEF ResolveHost, routingVars, hookVars, owned, Quiet
<1>2. Tied(r) /\ (~overtaken[r] => Sees(r)) /\ (overtaken[r] => overtaken'[r]) /\ Apart
  BY <1>1 DEF Inv, Quiet, Remembered
<1>3. \/ Goto(r, "lookup") /\ req[r].pc = "host" /\ (req[r].as = None \/ Active(req[r].as))
      \/ Finish(r)
  BY <1>2 DEF ResolveHost, Tied
<1>4. CASE Goto(r, "lookup") /\ req[r].pc = "host" /\ (req[r].as = None \/ Active(req[r].as))
  <2>1. Moved(r, At("lookup", req[r].op, req[r].who, req[r].on, req[r].as, req[r].saw))
    BY <1>4, Goes
  <2>2. Tied(r)' /\ (~overtaken'[r] => Sees(r)')
    BY <1>1, <1>2, <1>4, <2>1 DEF Moved, At, Tied, Sees, Shaped, Busy, Quiet, Active
  <2> QED BY <1>1, <2>1, <2>2, QuietStep
<1>5. CASE Finish(r)
  BY <1>1, <1>5, Ends, QuietStep
<1> QED BY <1>3, <1>4, <1>5

LEMMA InsertKeyStep ==
    ASSUME Inv, NEW r \in Requests, InsertKey(r), UNCHANGED posted
    PROVE  Inv'
<1>1. Quiet
  BY Overtakes DEF InsertKey, routingVars, hookVars, owned, Quiet, Inv, Domains, Note
<1>2. Finish(r)
  BY DEF InsertKey
<1> QED BY <1>1, <1>2, Ends, QuietStep

LEMMA AbandonStep ==
    ASSUME Inv, NEW r \in Requests, Abandon(r), UNCHANGED posted
    PROVE  Inv'
<1>1. Quiet
  BY NobodyOvertaken DEF Abandon, routingVars, hookVars, owned, Quiet
<1>2. Finish(r)
  BY DEF Abandon
<1> QED BY <1>1, <1>2, Ends, QuietStep

LEMMA StoreStep ==
    ASSUME Inv, NEW r \in Requests, Store(r), UNCHANGED posted
    PROVE  Inv'
<1>1. Quiet
  BY NobodyOvertaken DEF Store, routingVars, hookVars, owned, Quiet
<1>2. Finish(r)
  BY DEF Store
<1> QED BY <1>1, <1>2, Ends, QuietStep

LEMMA PickStep ==
    ASSUME Inv, NEW r \in Requests, Pick(r), UNCHANGED posted
    PROVE  Inv'
<1>1. Quiet
  BY NobodyOvertaken DEF Pick, routingVars, hookVars, owned, Quiet
<1>2. Tied(r) /\ (~overtaken[r] => Sees(r)) /\ (overtaken[r] => overtaken'[r]) /\ Apart
  BY <1>1 DEF Inv, Quiet, Remembered
<1>3. \/ Keep(r, Route(SourceOf(req[r].on), rule[req[r].on].to, {}), "store")
         /\ req[r].pc = "pick" /\ rule[req[r].on] # None /\ rule[req[r].on].on
      \/ Finish(r)
  BY <1>2 DEF Pick, Tied
<1>4. CASE /\ Keep(r, Route(SourceOf(req[r].on), rule[req[r].on].to, {}), "store")
           /\ req[r].pc = "pick" /\ rule[req[r].on] # None /\ rule[req[r].on].on
  <2>1. Moved(r, At("store", req[r].op, req[r].who, req[r].on, req[r].as, Route(SourceOf(req[r].on), rule[req[r].on].to, {})))
    BY <1>4, Keeps
  <2>2. Tied(r)' /\ (~overtaken'[r] => Sees(r)')
    BY <1>1, <1>2, <1>4, <2>1 DEF Moved, At, Tied, Sees, Shaped, Busy, Quiet, Chosen, Route, SourceOf
  <2> QED BY <1>1, <2>1, <2>2, QuietStep
<1>5. CASE Finish(r)
  BY <1>1, <1>5, Ends, QuietStep
<1> QED BY <1>3, <1>4, <1>5

\* The steps of Passkeys.
LEMMA RegisterStep ==
    ASSUME Inv, NEW r \in Requests, NEW e, NEW k, Register(r, e, k), UNCHANGED <<routingVars, hookVars>>
    PROVE  Inv'
<1>1. Quiet
  BY NobodyOvertaken DEF Register, routingVars, hookVars, owned, Quiet
<1>2. Moved(r, At("save", "register", e, k, None, None)) /\ rule[r] = None
  BY Enters DEF Register
<1>3. Tied(r)' /\ Sees(r)'
  BY <1>1, <1>2 DEF Moved, At, Tied, Sees, Shaped, Busy, Quiet
<1> QED BY <1>1, <1>2, <1>3, QuietStep

LEMMA DeletePasskeyStep ==
    ASSUME Inv, NEW r \in Requests, NEW k, DeletePasskey(r, k), UNCHANGED <<routingVars, hookVars>>
    PROVE  Inv'
<1>1. Quiet
  BY Overtakes DEF DeletePasskey, routingVars, hookVars, owned, Quiet, Inv, Domains, NoteKeys
<1>2. Moved(r, At("over", None, None, None, None, None)) /\ rule[r] = None
  BY Enters DEF DeletePasskey, Once
<1>3. Tied(r)' /\ Sees(r)'
  BY <1>1, <1>2 DEF Moved, At, Tied, Sees, Shaped, Busy, Quiet
<1> QED BY <1>1, <1>2, <1>3, QuietStep

LEMMA LoginStep ==
    ASSUME Inv, NEW r \in Requests, NEW k, Login(r, k), UNCHANGED <<routingVars, hookVars>>
    PROVE  Inv'
<1>1. Quiet
  BY NobodyOvertaken DEF Login, routingVars, hookVars, owned, Quiet
<1>2. Moved(r, At("sign", "login", passkey[k].owner, k, passkey[k].count, None)) /\ rule[r] = None
  BY Enters DEF Login
<1>3. Tied(r)' /\ Sees(r)'
  BY <1>1, <1>2 DEF Moved, At, Tied, Sees, Shaped, Busy, Quiet
<1> QED BY <1>1, <1>2, <1>3, QuietStep

LEMMA SaveKeyStep ==
    ASSUME Inv, NEW r \in Requests, SaveKey(r), UNCHANGED <<routingVars, hookVars>>
    PROVE  Inv'
<1>1. Quiet
  BY NobodyOvertaken DEF SaveKey, routingVars, hookVars, owned, Quiet
<1>2. Finish(r)
  BY DEF SaveKey
<1> QED BY <1>1, <1>2, Ends, QuietStep

LEMMA WriteCountStep ==
    ASSUME Inv, NEW r \in Requests, WriteCount(r), UNCHANGED <<routingVars, hookVars>>
    PROVE  Inv'
<1>1. Quiet
  <2>1. Remembered
    BY Overtakes, NobodyOvertaken DEF WriteCount, NoteKeys, Inv, Domains, Remembered
  <2> QED BY <2>1 DEF WriteCount, routingVars, hookVars, owned, Quiet
<1>2. Finish(r)
  BY DEF WriteCount
<1> QED BY <1>1, <1>2, Ends, QuietStep

LEMMA ReadKeysStep ==
    ASSUME Inv, NEW r \in Requests, ReadKeys(r), UNCHANGED <<routingVars, hookVars>>
    PROVE  Inv'
<1>1. Quiet
  BY NobodyOvertaken DEF ReadKeys, routingVars, hookVars, owned, Quiet
<1>2. Tied(r) /\ (~overtaken[r] => Sees(r)) /\ (overtaken[r] => overtaken'[r]) /\ Apart
  BY <1>1 DEF Inv, Quiet, Remembered
<1>3. \/ Keep(r, Newer(req[r].as, passkey[req[r].on].count), "count") /\ req[r].pc = "rows"
      \/ Finish(r)
  BY <1>2 DEF ReadKeys, Tied
<1>4. CASE Keep(r, Newer(req[r].as, passkey[req[r].on].count), "count") /\ req[r].pc = "rows"
  <2>1. Moved(r, At("count", req[r].op, req[r].who, req[r].on, req[r].as, Newer(req[r].as, passkey[req[r].on].count)))
    BY <1>4, Keeps
  <2>2. Tied(r)' /\ (~overtaken'[r] => Sees(r)')
    BY <1>1, <1>2, <1>4, <2>1 DEF Moved, At, Tied, Sees, Shaped, Busy, Quiet
  <2> QED BY <1>1, <2>1, <2>2, QuietStep
<1>5. CASE Finish(r)
  BY <1>1, <1>5, Ends, QuietStep
<1> QED BY <1>3, <1>4, <1>5

\* The steps of Hooks.
LEMMA NotifyStep ==
    ASSUME Inv, NEW r \in Requests, NEW source, NEW trigger, Notify(r, source, trigger)
    PROVE  Inv'
<1>1. Quiet
  BY NobodyOvertaken DEF Notify, routingVars, hookVars, owned, Quiet
<1>2. Moved(r, At("select", "notify", None, source, trigger, None)) /\ rule[r] = None
  BY Enters DEF Notify
<1>3. Tied(r)' /\ Sees(r)'
  BY <1>1, <1>2 DEF Moved, At, Tied, Sees, Shaped, Busy, Quiet
<1> QED BY <1>1, <1>2, <1>3, QuietStep

\* The signed counter comes into the ceremony.
LEMMA SignMoves ==
    ASSUME Inv, NEW r \in Requests, Sign(r)
    PROVE  Moved(r, At("rows", req[r].op, req[r].who, req[r].on, uses[req[r].on] + 1, req[r].saw))
<1> DEFINE n == uses[req[r].on] + 1
<1>1. Tied(r) /\ DOMAIN req = Requests
  BY DEF Inv, Domains
<1>2. req'[r] = [req[r] EXCEPT !.as = n, !.pc = "rows"]
  BY <1>1 DEF Sign
<1>3. req'[r] = At("rows", req[r].op, req[r].who, req[r].on, n, req[r].saw)
  BY <1>1, <1>2 DEF Tied, Shaped, At
<1> QED BY <1>1, <1>3 DEF Sign, Moved

LEMMA SignStep ==
    ASSUME Inv, NEW r \in Requests, Sign(r), UNCHANGED <<routingVars, hookVars>>
    PROVE  Inv'
<1>1. Quiet
  BY NobodyOvertaken DEF Sign, routingVars, hookVars, owned, Quiet
<1>2. Tied(r) /\ DOMAIN req = Requests
  BY DEF Inv, Domains
<1> DEFINE n == uses[req[r].on] + 1
<1>3. Moved(r, At("rows", req[r].op, req[r].who, req[r].on, n, req[r].saw))
  BY SignMoves
<1>4. req[r].op = "login"
  BY <1>2 DEF Tied, Sign
<1>5. Tied(r)' /\ Sees(r)'
  BY <1>1, <1>2, <1>3, <1>4 DEF Moved, At, Tied, Sees, Shaped, Busy, Quiet, Sign
<1> QED BY <1>1, <1>3, <1>5, QuietStep

LEMMA NativeAvailableStep ==
    ASSUME Inv, NEW r \in Requests, NativeAvailable(r), UNCHANGED posted
    PROVE  Inv'
<1>1. Quiet
  BY NobodyOvertaken DEF NativeAvailable, routingVars, hookVars, owned, Quiet
<1>2. Tied(r) /\ (~overtaken[r] => Sees(r)) /\ (overtaken[r] => overtaken'[r]) /\ Apart
  BY <1>1 DEF Inv, Quiet, Remembered
<1>3. \/ Goto(r, "write") /\ req[r].pc = "native" /\ req[r].op = "edit"
      \/ Goto(r, "insert") /\ req[r].pc = "native" /\ req[r].op = "hook"
      \/ Finish(r)
  BY <1>2 DEF NativeAvailable, Tied
<1>4. CASE Goto(r, "write") /\ req[r].pc = "native" /\ req[r].op = "edit"
  <2>1. Moved(r, At("write", req[r].op, req[r].who, req[r].on, req[r].as, req[r].saw))
    BY <1>4, Goes
  <2>2. Tied(r)' /\ (~overtaken'[r] => Sees(r)')
    BY <1>1, <1>2, <1>4, <2>1 DEF Moved, At, Tied, Sees, Shaped, Busy, Quiet, Edited
  <2> QED BY <1>1, <2>1, <2>2, QuietStep
<1>5. CASE Goto(r, "insert") /\ req[r].pc = "native" /\ req[r].op = "hook"
  <2>1. Moved(r, At("insert", req[r].op, req[r].who, req[r].on, req[r].as, req[r].saw))
    BY <1>5, Goes
  <2>2. Tied(r)' /\ (~overtaken'[r] => Sees(r)')
    BY <1>1, <1>2, <1>5, <2>1 DEF Moved, At, Tied, Sees, Shaped, Busy, Quiet
  <2> QED BY <1>1, <2>1, <2>2, QuietStep
<1>6. CASE Finish(r)
  BY <1>1, <1>6, Ends, QuietStep
<1> QED BY <1>3, <1>4, <1>5, <1>6

LEMMA LookupStep ==
    ASSUME Inv, NEW r \in Requests, Lookup(r), UNCHANGED posted
    PROVE  Inv'
<1>1. Quiet
  BY NobodyOvertaken DEF Lookup, routingVars, hookVars, owned, Quiet
<1>2. Tied(r) /\ (~overtaken[r] => Sees(r)) /\ (overtaken[r] => overtaken'[r]) /\ Apart
  BY <1>1 DEF Inv, Quiet, Remembered
<1>3. req[r].pc = "lookup" /\ req[r].op = "ingest"
  BY <1>2 DEF Lookup, Tied
<1>4. ~overtaken'[r] => req[r].as = None \/ Active(req[r].as)
  BY <1>2, <1>3 DEF Sees
<1> DEFINE source == req[r].on
           found  == {k \in Ids : Serves(k, source)}
           Known(target, failed) ==
               IF target \in {Fallback, None}
               THEN /\ found = {} \/ (\E k \in found : rule[k].to = None) \/ "rule" \in failed
                    /\ target = None => "default" \in failed
               ELSE \E k \in found : rule[k].to = target
<1>5. ASSUME NEW target, NEW failed, Keep(r, Route(source, target, failed), "store"),
             Known(target, failed)
      PROVE  Inv'
  <2>1. Moved(r, At("store", req[r].op, req[r].who, req[r].on, req[r].as, Route(source, target, failed)))
    BY <1>5, Keeps
  <2>2. Tied(r)'
    BY <1>1, <1>2, <1>3, <2>1 DEF Moved, At, Tied, Shaped, Busy, Quiet
  <2>3. /\ req'[r].pc = "store" /\ req'[r].op = "ingest" /\ req'[r].as = req[r].as
        /\ req'[r].saw = [source |-> source, target |-> target, failed |-> failed]
    BY <1>3, <2>1 DEF Moved, At, Route
  <2>4. rule' = rule /\ domain' = domain
    BY <1>1 DEF Quiet
  <2>5. ASSUME ~overtaken'[r]
        PROVE  Sees(r)'
    BY <1>4, <1>5, <2>3, <2>4, <2>5 DEF Sees, Chosen, Routed, Active, Serves, IsProvider
  <2> QED BY <1>1, <2>1, <2>2, <2>5, QuietStep
<1>6. ASSUME NEW failed, Default(r, source, failed),
             found = {} \/ (\E k \in found : rule[k].to = None) \/ "rule" \in failed
      PROVE  Inv'
  <2>1. CASE Keep(r, Route(source, Fallback, failed), "store")
    <3>1. Known(Fallback, failed)
      BY <1>6, RoutingAssumption
    <3> QED BY <1>5, <2>1, <3>1
  <2>2. CASE Keep(r, Route(source, None, failed \cup {"default"}), "store")
    <3>1. Known(None, failed \cup {"default"})
      BY <1>6
    <3> QED BY <1>5, <2>2, <3>1
  <2> QED BY <1>6, <2>1, <2>2 DEF Default
<1>7. ASSUME NEW k \in found, rule[k].to # None, Keep(r, Route(source, rule[k].to, {}), "store")
      PROVE  Inv'
  <2>1. rule[k].to # Fallback
    BY <1>2 DEF Apart, Serves, IsProvider
  <2>2. Known(rule[k].to, {})
    BY <1>7, <2>1
  <2> QED BY <1>5, <1>7, <2>2
<1>8. \/ found = {} /\ Default(r, source, {})
      \/ Default(r, source, {"rule"})
      \/ \E k \in found : IF rule[k].to = None THEN Default(r, source, {})
                          ELSE Keep(r, Route(source, rule[k].to, {}), "store")
  BY DEF Lookup
<1> QED BY <1>6, <1>7, <1>8

LEMMA ReadParentStep ==
    ASSUME Inv, NEW r \in Requests, ReadParent(r), UNCHANGED posted
    PROVE  Inv'
<1>1. Quiet
  BY NobodyOvertaken DEF ReadParent, routingVars, hookVars, owned, Quiet
<1>2. Tied(r) /\ (~overtaken[r] => Sees(r)) /\ (overtaken[r] => overtaken'[r])
  BY <1>1 DEF Inv, Quiet, Remembered
<1>3. req[r].pc = "parent" /\ req[r].op \in {"hook", "edit"}
  BY <1>2 DEF ReadParent, Tied
<1>4. CASE Finish(r)
  BY <1>1, <1>4, Ends, QuietStep
<1>5. CASE req[r].op = "edit" /\ ~Finish(r)
  <2> DEFINE parent == req[r].as.value
             new    == [req[r].saw EXCEPT !.of = parent, !.from = rule[parent].from]
  <2>1. Keep(r, new, "native")
    BY <1>5 DEF ReadParent
  <2>2. Moved(r, At("native", req[r].op, req[r].who, req[r].on, req[r].as, new))
    BY <2>1, Keeps
  <2>3. req[r].as.field = "of"
    BY <1>2, <1>3, <1>5 DEF Tied
  <2>4. new.to = req[r].saw.to
    OBVIOUS
  <2>5. /\ DOMAIN new = DOMAIN req[r].saw
        /\ \A f \in DOMAIN req[r].saw : f \notin {"of", "from"} => new[f] = req[r].saw[f]
    OBVIOUS
  <2> HIDE DEF new
  <2>6. Tied(r)'
    BY <1>1, <1>2, <1>3, <1>5, <2>2, <2>4 DEF Moved, At, Tied, Shaped, Busy, Quiet
  <2>7. ASSUME ~overtaken'[r]
        PROVE  Sees(r)'
    <3>1. Edited(r)
      BY <1>2, <1>3, <1>5, <2>7 DEF Sees
    <3>2. /\ req'[r].on = req[r].on /\ req'[r].as = req[r].as /\ req'[r].saw = new
          /\ req'[r].op = "edit" /\ req'[r].pc = "native"
      BY <1>5, <2>2 DEF Moved, At
    <3>3. Edited(r)'
      BY <1>1, <2>3, <2>5, <3>1, <3>2 DEF Quiet, Edited
    <3> QED BY <3>2, <3>3 DEF Sees
  <2> QED BY <1>1, <2>2, <2>6, <2>7, QuietStep
<1>6. CASE req[r].op = "hook" /\ ~Finish(r)
  <2> DEFINE new == Hook(req[r].on, rule[req[r].on].from, req[r].as.to, req[r].as.when, req[r].as.via)
  <2>1. Keep(r, new, "native")
    BY <1>6 DEF ReadParent
  <2>2. Moved(r, At("native", req[r].op, req[r].who, req[r].on, req[r].as, new))
    BY <2>1, Keeps
  <2>3. new.to = req[r].as.to
    BY DEF Hook
  <2>4. Tied(r)' /\ Sees(r)'
    BY <1>1, <1>2, <1>3, <1>6, <2>2, <2>3 DEF Moved, At, Tied, Sees, Shaped, Busy, Quiet
  <2> QED BY <1>1, <2>2, <2>4, QuietStep
<1> QED BY <1>3, <1>4, <1>5, <1>6

\* What the edit of one field makes of a row.
LEMMA CompletedOnly ==
    ASSUME NEW row, NEW edit
    PROVE  /\ DOMAIN Completed(row, edit) = DOMAIN row
           /\ \A f \in DOMAIN row : Completed(row, edit)[f] # row[f] =>
                 f = edit.field \/ <<edit.field, f>> = <<"via", "to">>
<1>1. CASE Ignored(row, edit)
  BY <1>1 DEF Completed
<1>2. CASE ~Ignored(row, edit) /\ edit.field = "via" /\ edit.value = "slack"
  <2>1. Completed(row, edit) = [row EXCEPT !.via = "slack", !.to = None]
    BY <1>2 DEF Completed
  <2> QED BY <1>2, <2>1
<1>3. CASE ~Ignored(row, edit) /\ ~(edit.field = "via" /\ edit.value = "slack")
  <2>1. Completed(row, edit) = [row EXCEPT ![edit.field] = edit.value]
    BY <1>3 DEF Completed
  <2> QED BY <2>1
<1> QED BY <1>1, <1>2, <1>3

LEMMA CompletedApart ==
    ASSUME NEW row, row.to # Fallback, NEW edit \in Edits
    PROVE  Completed(row, edit).to # Fallback
<1>1. None # Fallback /\ Fallback \notin Targets
  BY RoutingAssumption
<1>2. CASE Ignored(row, edit)
  BY <1>2 DEF Completed
<1>3. CASE ~Ignored(row, edit) /\ edit.field = "via" /\ edit.value = "slack"
  <2>1. Completed(row, edit) = [row EXCEPT !.via = "slack", !.to = None]
    BY <1>3 DEF Completed
  <2> QED BY <1>1, <2>1
<1>4. CASE ~Ignored(row, edit) /\ ~(edit.field = "via" /\ edit.value = "slack")
  <2>1. Completed(row, edit) = [row EXCEPT ![edit.field] = edit.value]
    BY <1>4 DEF Completed
  <2>2. CASE edit.field = "to"
    <3>1. edit.value \in Targets
      BY <2>2 DEF Edits
    <3> QED BY <1>1, <2>1, <2>2, <3>1
  <2>3. CASE edit.field # "to"
    BY <2>1, <2>3
  <2> QED BY <2>2, <2>3
<1> QED BY <1>2, <1>3, <1>4

LEMMA ReadRuleStep ==
    ASSUME Inv, NEW r \in Requests, ReadRule(r), UNCHANGED posted
    PROVE  Inv'
<1>1. Quiet
  BY NobodyOvertaken DEF ReadRule, routingVars, hookVars, owned, Quiet
<1>2. Tied(r) /\ (~overtaken[r] => Sees(r)) /\ (overtaken[r] => overtaken'[r]) /\ Apart /\ Domains
  BY <1>1 DEF Inv, Quiet, Remembered
<1>3. req[r].pc = "read" /\ req[r].op = "edit" /\ req[r].on \in Ids /\ req[r].as \in Edits
  BY <1>2 DEF ReadRule, Tied, Busy
<1> DEFINE row  == rule[req[r].on]
           edit == req[r].as
           new  == Completed(row, edit)
<1>4. CASE Finish(r)
  BY <1>1, <1>4, Ends, QuietStep
<1>5. CASE ~Finish(r)
  <2>1. row # None
    BY <1>5 DEF ReadRule
  <2>2. PICK pc : /\ Keep(r, new, pc)
                  /\ pc \in {"write", "parent", "native"}
                  /\ pc = "parent" => edit.field = "of"
    <3>1. CASE row.kind = "provider"
      BY <1>5, <2>1, <3>1 DEF ReadRule
    <3>2. CASE row.kind # "provider" /\ edit.field = "of"
      BY <1>5, <2>1, <3>2 DEF ReadRule
    <3>3. CASE row.kind # "provider" /\ edit.field # "of"
      BY <1>5, <2>1, <3>3 DEF ReadRule
    <3> QED BY <3>1, <3>2, <3>3
  <2>3. Moved(r, At(pc, req[r].op, req[r].who, req[r].on, req[r].as, new))
    BY <2>2, Keeps
  <2>4. new.to # Fallback
    BY <1>2, <1>3, <2>1, CompletedApart DEF Apart
  <2>5. /\ DOMAIN new = DOMAIN row
        /\ \A f \in DOMAIN row : new[f] # row[f] => f = edit.field \/ <<edit.field, f>> = <<"via", "to">>
    BY CompletedOnly
  <2> HIDE DEF new
  <2>6. Tied(r)'
    BY <1>1, <1>2, <1>3, <2>2, <2>3, <2>4 DEF Moved, At, Tied, Shaped, Busy, Quiet
  <2>7. /\ req'[r].on = req[r].on /\ req'[r].as = edit /\ req'[r].saw = new
        /\ req'[r].op = "edit" /\ req'[r].pc \in {"write", "parent", "native"}
    BY <1>3, <2>2, <2>3 DEF Moved, At
  <2>8. Edited(r)'
    BY <1>1, <2>1, <2>5, <2>7 DEF Quiet, Edited
  <2>9. Sees(r)'
    BY <2>7, <2>8 DEF Sees
  <2> QED BY <1>1, <2>3, <2>6, <2>9, QuietStep
<1> QED BY <1>4, <1>5

LEMMA SelectHooksStep ==
    ASSUME Inv, NEW r \in Requests, SelectHooks(r)
    PROVE  Inv'
<1>1. Quiet
  BY NobodyOvertaken DEF SelectHooks, hookVars, routingVars, owned, Quiet
<1>2. Tied(r) /\ (~overtaken[r] => Sees(r)) /\ (overtaken[r] => overtaken'[r])
  BY <1>1 DEF Inv, Quiet, Remembered
<1>3. req[r].pc = "select" /\ req[r].op = "notify"
  BY <1>2 DEF SelectHooks, Tied
<1> DEFINE found == {k \in Ids : Wants(k, req[r].on, req[r].as)}
           via   == [k \in found |-> rule[k].via]
<1>4. Moved(r, At("next", req[r].op, req[r].who, req[r].on, req[r].as, Job(via, None, None, 0)))
  BY Keeps DEF SelectHooks, Job
<1>5. DOMAIN via = found /\ \A k \in found : via[k] = rule[k].via
  OBVIOUS
<1>6. found \subseteq Ids /\ \A k \in found : Wants(k, req[r].on, req[r].as)
  OBVIOUS
<1> HIDE DEF found, via
<1>7. /\ req'[r].pc = "next" /\ req'[r].op = "notify" /\ req'[r].on = req[r].on /\ req'[r].as = req[r].as
      /\ req'[r].saw = Job(via, None, None, 0) /\ Shaped(req'[r])
  BY <1>3, <1>4 DEF Moved, At, Shaped
<1>8. Tied(r)'
  BY <1>1, <1>2, <1>3, <1>7 DEF Tied, Quiet, Busy, Job
<1>9. Sees(r)'
  BY <1>1, <1>5, <1>6, <1>7 DEF Sees, Quiet, Wants, Serves, IsProvider, Job
<1> QED BY <1>1, <1>4, <1>8, <1>9, QuietStep

SetAt(job, x)       == [job EXCEPT !.at = x]
SetStatus(job, x)   == [job EXCEPT !.status = x]
SetAttempts(job, x) == [job EXCEPT !.attempts = x]

LEMMA JobWith ==
    ASSUME NEW via, NEW at, NEW status, NEW attempts, NEW x
    PROVE  /\ SetAt(Job(via, at, status, attempts), x) = Job(via, x, status, attempts)
           /\ SetStatus(Job(via, at, status, attempts), x) = Job(via, at, x, attempts)
           /\ SetAttempts(Job(via, at, status, attempts), x) = Job(via, at, status, x)
BY DEF Job, SetAt, SetStatus, SetAttempts

\* The job of the hook k.
LEMMA JobAt ==
    ASSUME NEW old, old = Job(old.via, old.at, old.status, old.attempts), NEW k, NEW status,
           NEW job, job = [old EXCEPT !.at = k, !.attempts = 0]
    PROVE  [job EXCEPT !.status = status] = Job(old.via, k, status, 0) /\ job.via = old.via
<1>1. SetAt(old, k) = Job(old.via, k, old.status, old.attempts)
  BY JobWith
<1>2. job = SetAttempts(SetAt(old, k), 0)
  BY DEF SetAt, SetAttempts
<1>3. job = Job(old.via, k, old.status, 0)
  BY <1>1, <1>2, JobWith
<1>4. SetStatus(job, status) = Job(old.via, k, status, 0)
  BY <1>3, JobWith
<1>5. [job EXCEPT !.status = status] = Job(old.via, k, status, 0)
  BY <1>4 DEF SetStatus
<1> QED BY <1>3, <1>5 DEF Job

\* One more POST to the same hook.
LEMMA JobOnce ==
    ASSUME NEW old, old = Job(old.via, old.at, old.status, old.attempts),
           NEW job, job = [old EXCEPT !.attempts = @ + 1]
    PROVE  /\ job = Job(old.via, old.at, old.status, old.attempts + 1)
           /\ [job EXCEPT !.status = "delivered"] = Job(old.via, old.at, "delivered", old.attempts + 1)
<1>1. SetAttempts(old, old.attempts + 1) = Job(old.via, old.at, old.status, old.attempts + 1)
  BY JobWith
<1>2. job = Job(old.via, old.at, old.status, old.attempts + 1)
  BY <1>1 DEF SetAttempts
<1>3. SetStatus(job, "delivered") = Job(old.via, old.at, "delivered", old.attempts + 1)
  BY <1>2, JobWith
<1> QED BY <1>2, <1>3 DEF SetStatus

\* What a run has selected stays when it goes on.
LEMMA GoesOn ==
    ASSUME Inv, NEW r \in Requests, Quiet, req[r].pc \in {"next", "post", "log"},
           NEW pc \in {"next", "post", "log"}, NEW via, NEW at, NEW status, NEW attempts,
           Keep(r, Job(via, at, status, attempts), pc),
           DOMAIN via \subseteq DOMAIN req[r].saw.via,
           \A k \in DOMAIN via : via[k] = req[r].saw.via[k],
           ~overtaken'[r] /\ pc = "post" => at \in DOMAIN via /\ (via[at] = "webhook" \/ destination)
    PROVE  Inv'
<1>1. Tied(r) /\ (~overtaken[r] => Sees(r)) /\ (overtaken[r] => overtaken'[r])
  BY DEF Inv, Quiet, Remembered
<1>2. req[r].op = "notify"
  BY <1>1 DEF Tied
<1>3. Moved(r, At(pc, req[r].op, req[r].who, req[r].on, req[r].as, Job(via, at, status, attempts)))
  BY Keeps
<1>4. /\ req'[r].pc = pc /\ req'[r].op = "notify" /\ req'[r].on = req[r].on /\ req'[r].as = req[r].as
      /\ req'[r].saw = Job(via, at, status, attempts) /\ Shaped(req'[r])
  BY <1>2, <1>3 DEF Moved, At, Shaped
<1>5. Tied(r)'
  BY <1>1, <1>2, <1>4 DEF Tied, Quiet, Busy, Job
<1>6. ASSUME ~overtaken'[r]
      PROVE  Sees(r)'
  <2>1. Sees(r)
    BY <1>1, <1>6
  <2>2. \A k \in DOMAIN via : k \in Ids /\ Wants(k, req[r].on, req[r].as) /\ via[k] = rule[k].via
    BY <2>1 DEF Sees
  <2>3. req'[r].saw.via = via /\ req'[r].saw.at = at
    BY <1>4 DEF Job
  <2> QED BY <1>2, <1>4, <1>6, <2>2, <2>3 DEF Sees, Quiet, Wants, Serves, IsProvider
<1> QED BY <1>3, <1>5, <1>6, QuietStep

LEMMA NextHookStep ==
    ASSUME Inv, NEW r \in Requests, NextHook(r)
    PROVE  Inv'
<1>1. Quiet
  BY NobodyOvertaken DEF NextHook, hookVars, routingVars, owned, Quiet
<1>2. Tied(r) /\ (~overtaken[r] => Sees(r)) /\ (overtaken[r] => overtaken'[r])
  BY <1>1 DEF Inv, Quiet, Remembered
<1>3. req[r].pc = "next" /\ req[r].saw = Job(req[r].saw.via, req[r].saw.at, req[r].saw.status, req[r].saw.attempts)
  BY <1>2 DEF NextHook, Tied
<1> DEFINE via == req[r].saw.via
<1>4. CASE Finish(r)
  BY <1>1, <1>4, Ends, QuietStep
<1>5. ASSUME NEW k \in DOMAIN via, NEW status,
             NEW job, job = [req[r].saw EXCEPT !.at = k, !.attempts = 0]
      PROVE  [job EXCEPT !.status = status] = Job(via, k, status, 0) /\ job.via = via
  BY <1>3, <1>5, JobAt
<1>6. ASSUME NEW k \in DOMAIN via, Keep(r, Job(via, k, "skipped", 0), "log")
      PROVE  Inv'
  BY <1>1, <1>3, <1>6, GoesOn
<1>7. ASSUME NEW k \in DOMAIN via, via[k] = "webhook" \/ destination, Keep(r, Job(via, k, "failed", 0), "post")
      PROVE  Inv'
  BY <1>1, <1>3, <1>7, GoesOn
<1> QED BY <1>4, <1>5, <1>6, <1>7 DEF NextHook

LEMMA LogHookStep ==
    ASSUME Inv, NEW r \in Requests, LogHook(r), UNCHANGED passkeyVars
    PROVE  Inv'
<1>1. Quiet
  BY NobodyOvertaken DEF LogHook, hookVars, routingVars, owned, Quiet
<1>2. Tied(r) /\ (~overtaken[r] => Sees(r)) /\ (overtaken[r] => overtaken'[r])
  BY <1>1 DEF Inv, Quiet, Remembered
<1>3. req[r].pc = "log"
  BY DEF LogHook
<1> DEFINE old == req[r].saw
           via == [k \in DOMAIN old.via \ {old.at} |-> old.via[k]]
<1>4. Keep(r, Job(via, None, None, 0), "next")
  BY DEF LogHook, Job
<1>5. DOMAIN via \subseteq DOMAIN old.via /\ \A k \in DOMAIN via : via[k] = old.via[k]
  OBVIOUS
<1> HIDE DEF via
<1> QED BY <1>1, <1>3, <1>4, <1>5, GoesOn

LEMMA PostHookStep ==
    ASSUME Inv, NEW r \in Requests, PostHook(r)
    PROVE  Inv'
<1>1. Domains
  BY DEF Inv
<1> DEFINE old == req[r].saw
           job == [old EXCEPT !.attempts = @ + 1]
<1>2. PICK ok \in BOOLEAN :
        /\ posted' = [posted EXCEPT ![r][job.at] = [sent |-> @.sent + 1, ok |-> @.ok + (IF ok THEN 1 ELSE 0)]]
        /\ Keep(r, IF ok THEN [job EXCEPT !.status = "delivered"] ELSE job,
                IF ok \/ job.attempts = MaxPosts THEN "log" ELSE "post")
  BY DEF PostHook
<1>3. DOMAIN posted' = DOMAIN posted /\ \A s \in Requests : DOMAIN posted'[s] = DOMAIN posted[s]
  BY <1>1, <1>2 DEF Domains
<1>4. Quiet
  BY <1>3, NobodyOvertaken DEF PostHook, routingVars, owned, Quiet
<1>5. Tied(r) /\ (~overtaken[r] => Sees(r)) /\ (overtaken[r] => overtaken'[r]) /\ req[r].pc = "post"
  BY <1>4 DEF Inv, Quiet, Remembered, PostHook
<1>6. old = Job(old.via, old.at, old.status, old.attempts)
  BY <1>5 DEF Tied
<1>7. ~overtaken'[r] => old.at \in DOMAIN old.via /\ (old.via[old.at] = "webhook" \/ destination)
  BY <1>5 DEF Sees
<1>8. job = Job(old.via, old.at, old.status, old.attempts + 1)
  BY <1>6, JobOnce
<1>9. [job EXCEPT !.status = "delivered"] = Job(old.via, old.at, "delivered", old.attempts + 1)
  BY <1>6, JobOnce
<1>10. ASSUME NEW status, NEW pc \in {"post", "log"}, Keep(r, Job(old.via, old.at, status, old.attempts + 1), pc)
       PROVE  Inv'
  BY <1>4, <1>5, <1>7, <1>10, GoesOn
<1>11. CASE ok
  BY <1>2, <1>9, <1>10, <1>11
<1>12. CASE ~ok
  BY <1>2, <1>8, <1>10, <1>12
<1> QED BY <1>11, <1>12

-----------------------------------------------------------------------------
\* The steps that change a rule, a domain or the destination overtake all who
\* rely on it.
LEMMA Readers ==
    /\ \A op \in {"ingest", "send", "notify", "edit"} : "rules" \in Reads(op)
    /\ "domains" \in Reads("ingest")
BY DEF Reads, Resources

LEMMA AllNoted ==
    ASSUME Inv, NEW r, Overtake(r, {s \in Requests : "rules" \in Reads(req[s].op)})
    PROVE  /\ Remembered
           /\ \A s \in Requests \ {r} :
                 Busy(s) /\ req[s].op \in {"ingest", "send", "notify", "edit"} => overtaken'[s]
BY Overtakes, Readers DEF Inv, Domains

LEMMA RuleNoted ==
    ASSUME Inv, NEW r, NEW k, NEW counted, NoteRule(r, k, counted)
    PROVE  /\ Remembered
           /\ \A s \in Requests \ {r} :
                 /\ Busy(s) /\ req[s].op \in {"ingest", "send", "notify"} => overtaken'[s]
                 /\ Busy(s) /\ req[s].op = "edit" /\ req[s].on = k => overtaken'[s]
<1> DEFINE relying == {s \in Requests :
                          \/ counted /\ req[s].op = "providers"
                          \/ "rules" \in Reads(req[s].op) /\ (req[s].op = "edit" => k \in Reread(s))}
<1>1. \A s \in Requests : req[s].op \in {"ingest", "send", "notify"} => s \in relying
  BY Readers
<1>2. \A s \in Requests : req[s].op = "edit" /\ req[s].on = k => s \in relying
  BY Readers DEF Reread
<1>3. Overtake(r, relying) /\ overtaken \in [Requests -> BOOLEAN]
  BY DEF NoteRule, Inv, Domains
<1> HIDE DEF relying
<1> QED BY <1>1, <1>2, <1>3, Overtakes

LEMMA DomainsNoted ==
    ASSUME Inv, NEW r, Note(r, "domains")
    PROVE  /\ Remembered
           /\ \A s \in Requests \ {r} : Busy(s) /\ req[s].op = "ingest" => overtaken'[s]
BY Overtakes, Readers DEF Inv, Domains, Note

\* A request that changes one rule, then ends.
LEMMA OneRuleStep ==
    ASSUME Inv, NEW r \in Requests, Finish(r), NEW k \in Ids, NEW row, rule' = [rule EXCEPT ![k] = row],
           k = r \/ rule[k] # None, row # None => row.to # Fallback, NEW counted, NoteRule(r, k, counted),
           UNCHANGED <<domain, destination, event, posted>>
    PROVE  Inv'
<1>1. Remembered
  BY RuleNoted
<1>2. Moved(r, At("over", None, None, None, None, None)) /\ Sees(r)'
  BY Ends
<1>3. /\ DOMAIN rule' = Ids /\ rule'[k] = row
      /\ \A i \in Ids \ {k} : rule'[i] = rule[i]
  BY DEF Inv, Domains
<1>4. Domains'
  BY <1>1, <1>2, <1>3 DEF Inv, Domains, Moved, Remembered
<1>5. Apart'
  BY <1>3 DEF Inv, Apart
<1>6. Tied(r)'
  BY <1>2 DEF Moved, At, Tied, Shaped, Busy
<1>7. Around(r)
  <2> SUFFICES ASSUME NEW s \in Requests \ {r}
               PROVE  /\ req'[s] = req[s]
                      /\ rule'[s] # None => rule[s] # None
                      /\ Busy(s) /\ ~overtaken'[s] => Spares(s)
    BY DEF Around
  <2>1. req'[s] = req[s]
    BY <1>2 DEF Moved
  <2>2. rule'[s] # None => rule[s] # None
    BY <1>3 DEF Ids
  <2>3. ASSUME Busy(s), ~overtaken'[s]
        PROVE  Spares(s)
    <3>1. req[s].op \notin {"ingest", "send", "notify"} /\ (req[s].op = "edit" => req[s].on # k)
      BY <2>3, RuleNoted
    <3>2. req[s].op = "edit" => req[s].on \in Ids
      BY <2>3 DEF Inv, Tied
    <3> QED BY <1>3, <3>1, <3>2 DEF Spares
  <2> QED BY <2>1, <2>2, <2>3
<1> QED BY <1>1, <1>2, <1>4, <1>5, <1>6, <1>7, RequestStep

LEMMA InsertRuleStep ==
    ASSUME Inv, NEW r \in Requests, InsertRule(r), UNCHANGED posted
    PROVE  Inv'
<1> DEFINE row == IF req[r].op = "hook" THEN req[r].saw ELSE req[r].as
<1>1. Tied(r)
  BY DEF Inv
<1>2. CASE UNCHANGED <<rule, overtaken>>
  <2>1. Quiet
    BY <1>2, NobodyOvertaken DEF InsertRule, Quiet
  <2>2. Finish(r)
    BY DEF InsertRule
  <2> QED BY <2>1, <2>2, Ends, QuietStep
<1>3. CASE rule' = [rule EXCEPT ![r] = row] /\ NoteRule(r, r, TRUE)
  <2>1. row.to # Fallback
    BY <1>1 DEF InsertRule, Tied, Busy
  <2>2. Finish(r) /\ UNCHANGED <<domain, destination, event, posted>> /\ r \in Ids
    BY DEF InsertRule, Ids
  <2> HIDE DEF row
  <2> QED BY <1>3, <2>1, <2>2, OneRuleStep
<1> QED BY <1>2, <1>3 DEF InsertRule

LEMMA WriteRuleStep ==
    ASSUME Inv, NEW r \in Requests, WriteRule(r), UNCHANGED posted
    PROVE  Inv'
<1>1. Tied(r)
  BY DEF Inv
<1>2. CASE UNCHANGED <<rule, overtaken>>
  <2>1. Quiet
    BY <1>2, NobodyOvertaken DEF WriteRule, Quiet
  <2>2. Finish(r)
    BY DEF WriteRule
  <2> QED BY <2>1, <2>2, Ends, QuietStep
<1>3. CASE ~UNCHANGED <<rule, overtaken>>
  <2>1. /\ rule' = [rule EXCEPT ![req[r].on] = req[r].saw] /\ NoteRule(r, req[r].on, FALSE)
        /\ rule[req[r].on] # None
    BY <1>3 DEF WriteRule
  <2>2. req[r].saw.to # Fallback /\ req[r].on \in Ids
    BY <1>1 DEF WriteRule, Tied, Busy
  <2>3. Finish(r) /\ UNCHANGED <<domain, destination, event, posted>>
    BY DEF WriteRule
  <2> QED BY <2>1, <2>2, <2>3, OneRuleStep
<1> QED BY <1>2, <1>3

LEMMA DeleteRuleStep ==
    ASSUME Inv, NEW r \in Requests, NEW k, DeleteRule(r, k), UNCHANGED posted
    PROVE  Inv'
<1>1. Remembered
  BY AllNoted DEF DeleteRule
<1>2. Moved(r, At("over", None, None, None, None, None))
  BY Enters DEF DeleteRule, Once
<1>3. DOMAIN rule' = Ids /\ \A i \in Ids : rule'[i] \in {None, rule[i]}
  BY DEF DeleteRule
<1>4. Domains' /\ Apart'
  BY <1>1, <1>2, <1>3 DEF Inv, Domains, Moved, Remembered, Apart, DeleteRule
<1>5. Tied(r)' /\ Sees(r)'
  BY <1>2 DEF Moved, At, Tied, Sees, Shaped, Busy
<1>6. Around(r)
  BY <1>2, <1>3, AllNoted DEF Around, Moved, DeleteRule, Spares, Ids
<1> QED BY <1>1, <1>4, <1>5, <1>6, RequestStep

LEMMA InsertDomainStep ==
    ASSUME Inv, NEW r \in Requests, InsertDomain(r), UNCHANGED posted
    PROVE  Inv'
<1>1. Moved(r, At("over", None, None, None, None, None))
  BY Ends DEF InsertDomain
<1>2. UNCHANGED <<rule, destination, event, posted>>
  BY DEF InsertDomain
<1>3. /\ Remembered
      /\ domain' = domain \/ \A s \in Requests \ {r} : Busy(s) /\ req[s].op = "ingest" => overtaken'[s]
  <2>1. CASE UNCHANGED <<domain, overtaken>>
    BY <2>1, NobodyOvertaken
  <2>2. CASE Note(r, "domains")
    BY <2>2, DomainsNoted
  <2> QED BY <2>1, <2>2 DEF InsertDomain
<1>4. Domains' /\ Apart'
  BY <1>1, <1>2, <1>3 DEF Inv, Domains, Moved, Remembered, Apart
<1>5. Tied(r)' /\ Sees(r)'
  BY <1>1, <1>2 DEF Moved, At, Tied, Sees, Shaped, Busy
<1>6. Around(r)
  BY <1>1, <1>2, <1>3 DEF Around, Moved, Spares
<1> QED BY <1>3, <1>4, <1>5, <1>6, RequestStep

LEMMA WriteStatusStep ==
    ASSUME Inv, NEW r \in Requests, WriteStatus(r), UNCHANGED posted
    PROVE  Inv'
<1>1. Remembered
  BY DomainsNoted DEF WriteStatus
<1>2. Moved(r, At("over", None, None, None, None, None))
  BY Ends DEF WriteStatus
<1>3. UNCHANGED <<rule, destination, event, posted>>
  BY DEF WriteStatus
<1>4. Domains' /\ Apart'
  BY <1>1, <1>2, <1>3 DEF Inv, Domains, Moved, Remembered, Apart
<1>5. Tied(r)' /\ Sees(r)'
  BY <1>2, <1>3 DEF Moved, At, Tied, Sees, Shaped, Busy
<1>6. Around(r)
  BY <1>2, <1>3, DomainsNoted DEF Around, Moved, WriteStatus, Spares
<1> QED BY <1>1, <1>4, <1>5, <1>6, RequestStep

LEMMA DeleteDomainStep ==
    ASSUME Inv, NEW r \in Requests, NEW i, DeleteDomain(r, i), UNCHANGED posted
    PROVE  Inv'
<1>1. Remembered
  BY DomainsNoted DEF DeleteDomain
<1>2. Moved(r, At("over", None, None, None, None, None))
  BY Enters DEF DeleteDomain, Once
<1>3. UNCHANGED <<rule, destination, event, posted>>
  BY DEF DeleteDomain
<1>4. Domains' /\ Apart'
  BY <1>1, <1>2, <1>3 DEF Inv, Domains, Moved, Remembered, Apart
<1>5. Tied(r)' /\ Sees(r)'
  BY <1>2, <1>3 DEF Moved, At, Tied, Sees, Shaped, Busy
<1>6. Around(r)
  BY <1>2, <1>3, DomainsNoted DEF Around, Moved, DeleteDomain, Spares
<1> QED BY <1>1, <1>4, <1>5, <1>6, RequestStep

LEMMA SaveDestinationStep ==
    ASSUME Inv, NEW r \in Requests, NEW enabled, SaveDestination(r, enabled), UNCHANGED posted
    PROVE  Inv'
<1>1. Overtake(r, {s \in Requests : "rules" \in Reads(req[s].op)})
  BY DEF SaveDestination, Note
<1>2. Moved(r, At("over", None, None, None, None, None)) /\ rule[r] = None
  BY Enters DEF SaveDestination, Once
<1>3. UNCHANGED <<rule, domain, event, posted>>
  BY DEF SaveDestination
<1>4. Remembered
  BY <1>1, AllNoted
<1>5. Domains' /\ Apart'
  BY <1>2, <1>3, <1>4 DEF Inv, Domains, Moved, Remembered, Apart
<1>6. Tied(r)' /\ Sees(r)'
  BY <1>2, <1>3 DEF Moved, At, Tied, Sees, Shaped, Busy
<1>7. Around(r)
  BY <1>1, <1>2, <1>3, AllNoted DEF Around, Moved, Spares
<1> QED BY <1>4, <1>5, <1>6, <1>7, RequestStep

\* The plan and the calendar move no request.
LEMMA StillStep ==
    ASSUME Inv, UNCHANGED <<req, rule, domain, destination, event, posted>>, Remembered
    PROVE  Inv'
<1>1. Domains' /\ Apart'
  BY DEF Inv, Domains, Remembered, Apart
<1>2. ASSUME NEW s \in Requests
      PROVE  Tied(s)' /\ (~overtaken'[s] => Sees(s)')
  <2>1. Tied(s)'
    BY DEF Inv, Tied, Busy
  <2>2. Spares(s)
    BY DEF Spares
  <2>3. ~overtaken'[s] => Sees(s)'
    BY <2>2, OtherStays DEF Inv, Remembered
  <2> QED BY <2>1, <2>3
<1> QED BY <1>1, <1>2 DEF Inv

LEMMA EnvironmentStep ==
    ASSUME Inv, Environment, UNCHANGED posted
    PROVE  Inv'
<1>1. CASE PlanEnds
  <2>1. Remembered
    BY <1>1, Overtakes DEF PlanEnds, Note, Inv, Domains
  <2> QED BY <1>1, <2>1, StillStep DEF PlanEnds, owned
<1>2. CASE NewPeriod
  BY <1>2, NobodyOvertaken, StillStep DEF NewPeriod, owned
<1> QED BY <1>1, <1>2 DEF Environment

-----------------------------------------------------------------------------
LEMMA InitInv == Init => Inv
<1> SUFFICES ASSUME Init
             PROVE  Inv
  OBVIOUS
<1>1. PICK old \in OldRules : rule = [k \in Ids |-> IF k \in Olds THEN old[k] ELSE None]
  BY DEF Init
<1>2. old \in [Olds -> Rule \cup {None}]
  BY ResourcesAssumption
<1>3. \A row \in Rule : row.to # Fallback
  BY RoutingAssumption DEF Rule
<1>4. Apart
  BY <1>1, <1>2, <1>3 DEF Apart
<1>5. \A r \in Requests : rule[r] = None
  BY <1>1, RoutingAssumption DEF Ids
<1>6. Domains
  BY <1>1 DEF Init, HandlerInit, HooksInit, Domains
<1>7. \A r \in Requests : Tied(r) /\ Sees(r)
  BY <1>5 DEF Init, HandlerInit, Idle, Tied, Sees, Shaped, At, Busy
<1> QED BY <1>4, <1>6, <1>7 DEF Inv

LEMMA RoutingArriveStep ==
    ASSUME Inv, NEW r \in Requests, RoutingArrive(r), UNCHANGED posted
    PROVE  Inv'
<1>1. \A to \in Targets \cup {None} : to # Fallback
  BY RoutingAssumption
<1>2. ASSUME NEW from \in Sources, NEW to \in Targets \cup {None}, Create(r, "providers", Provider(from, to, TRUE))
      PROVE  Inv'
  <2>1. Provider(from, to, TRUE).to # Fallback
    BY <1>1 DEF Provider
  <2>2. "providers" \in Resources
    BY DEF Resources
  <2> QED BY <1>2, <2>1, <2>2, CreateStep
<1>3. ASSUME NEW new, Create(r, "domains", new) \/ Create(r, "api_keys", new)
      PROVE  Inv'
  BY <1>3, CreateStep DEF Resources
<1>4. ASSUME NEW k \in Stored, NEW to \in Targets \cup {None}, NEW when \in Triggers, NEW via \in Ways,
             CreateHook(r, k, to, when, via)
      PROVE  Inv'
  BY <1>1, <1>4, CreateHookStep
<1>5. ASSUME NEW k \in Stored, NEW edit \in Edits, UpdateRule(r, k, edit)
      PROVE  Inv'
  BY <1>5, UpdateRuleStep DEF Stored
<1>6. ASSUME NEW k, DeleteRule(r, k) \/ Send(r, k)
      PROVE  Inv'
  BY <1>6, DeleteRuleStep, SendStep
<1>7. ASSUME SaveDestination(r, ~destination)
      PROVE  Inv'
  BY <1>7, SaveDestinationStep
<1>8. ASSUME NEW i, VerifyDomain(r, i) \/ DeleteDomain(r, i) \/ RevokeToken(r, i)
      PROVE  Inv'
  BY <1>8, VerifyDomainStep, DeleteDomainStep, RevokeTokenStep
<1>9. ASSUME NEW source, NEW h, Ingest(r, source, h)
      PROVE  Inv'
  BY <1>9, IngestStep
<1> QED BY <1>2, <1>3, <1>4, <1>5, <1>6, <1>7, <1>8, <1>9 DEF RoutingArrive

LEMMA RoutingProceedStep ==
    ASSUME Inv, NEW r \in Requests, RoutingProceed(r), UNCHANGED posted
    PROVE  Inv'
<1>1. CASE EnsureQuota(r) \/ ReadParent(r) \/ NativeAvailable(r)
  BY <1>1, EnsureQuotaStep, ReadParentStep, NativeAvailableStep
<1>2. CASE InsertRule(r) \/ InsertDomain(r) \/ InsertKey(r)
  BY <1>2, InsertRuleStep, InsertDomainStep, InsertKeyStep
<1>3. CASE ReadRule(r) \/ WriteRule(r) \/ WriteStatus(r)
  BY <1>3, ReadRuleStep, WriteRuleStep, WriteStatusStep
<1>4. CASE ResolveHost(r) \/ Lookup(r) \/ Pick(r) \/ Store(r) \/ Abandon(r)
  BY <1>4, ResolveHostStep, LookupStep, PickStep, StoreStep, AbandonStep
<1> QED BY <1>1, <1>2, <1>3, <1>4 DEF RoutingProceed

LEMMA NextInv == Inv /\ [Next]_vars => Inv'
<1> SUFFICES ASSUME Inv, [Next]_vars
             PROVE  Inv'
  OBVIOUS
<1>1. CASE /\ Environment \/ \E r \in Requests : RoutingArrive(r) \/ RoutingProceed(r)
           /\ Cascade /\ UNCHANGED <<posted, passkeyVars>>
  BY <1>1, EnvironmentStep, RoutingArriveStep, RoutingProceedStep
<1>2. ASSUME NEW r \in Requests, HooksStep(r), UNCHANGED passkeyVars
      PROVE  Inv'
  BY <1>2, NotifyStep, SelectHooksStep, NextHookStep, PostHookStep, LogHookStep DEF HooksStep
<1>3. ASSUME NEW r \in Requests, PasskeysStep(r), UNCHANGED <<routingVars, hookVars>>
      PROVE  Inv'
  BY <1>3, RegisterStep, DeletePasskeyStep, LoginStep, SaveKeyStep, SignStep, ReadKeysStep,
     WriteCountStep
     DEF PasskeysStep
<1>4. CASE UNCHANGED vars
  BY <1>4, NobodyOvertaken, StillStep DEF vars, routingVars, owned, hookVars
<1> QED BY <1>1, <1>2, <1>3, <1>4 DEF Next

-----------------------------------------------------------------------------
\* Which steps change a rule, store an event, or tell a hook.
LEMMA Writers ==
    ASSUME [Next]_vars
    PROVE  /\ rule' # rule => \E r \in Requests : InsertRule(r) \/ WriteRule(r) \/ \E k \in Ids : DeleteRule(r, k)
           /\ event' # event => \E r \in Requests : Store(r)
           /\ posted' # posted => \E r \in Requests : PostHook(r)
<1>1. CASE Environment /\ UNCHANGED posted
  BY <1>1 DEF Environment, PlanEnds, NewPeriod, owned
<1>2. ASSUME NEW r \in Requests, RoutingArrive(r), UNCHANGED posted
      PROVE  /\ rule' # rule => \E k \in Ids : DeleteRule(r, k)
             /\ UNCHANGED event
  BY <1>2 DEF RoutingArrive, Stored, Create, CreateHook, UpdateRule, DeleteRule, Send,
     SaveDestination,
     VerifyDomain, DeleteDomain, RevokeToken, Ingest, routingVars, owned
<1>3. ASSUME NEW r \in Requests, RoutingProceed(r), UNCHANGED posted
      PROVE  /\ rule' # rule => InsertRule(r) \/ WriteRule(r)
             /\ event' # event => Store(r)
  <2>1. CASE EnsureQuota(r) \/ ReadParent(r) \/ NativeAvailable(r) \/ ReadRule(r) \/ ResolveHost(r)
    BY <2>1 DEF EnsureQuota, ReadParent, NativeAvailable, ReadRule, ResolveHost, routingVars, owned
  <2>2. CASE Lookup(r) \/ Pick(r) \/ Abandon(r)
    BY <2>2 DEF Lookup, Default, Pick, Abandon, routingVars, owned
  <2>3. CASE InsertDomain(r) \/ InsertKey(r) \/ WriteStatus(r)
    BY <2>3 DEF InsertDomain, InsertKey, WriteStatus
  <2>4. CASE InsertRule(r) \/ WriteRule(r) \/ Store(r)
    BY <2>4 DEF InsertRule, WriteRule, Store, owned
  <2> QED BY <1>3, <2>1, <2>2, <2>3, <2>4 DEF RoutingProceed
<1>4. ASSUME NEW r \in Requests, HooksStep(r)
      PROVE  UNCHANGED <<rule, event>> /\ (posted' # posted => PostHook(r))
  BY <1>4 DEF HooksStep, Notify, SelectHooks, NextHook, PostHook, LogHook, routingVars, owned,
     hookVars
<1>5. CASE UNCHANGED <<routingVars, hookVars>>
  BY <1>5 DEF routingVars, owned, hookVars
<1>6. CASE UNCHANGED vars
  BY <1>6 DEF vars, routingVars, owned, hookVars
<1> QED BY <1>1, <1>2, <1>3, <1>4, <1>5, <1>6 DEF Next

LEMMA EditSticks ==
    ASSUME Inv, [Next]_vars, NEW k \in Ids, rule[k] # None, rule'[k] # None,
           NEW f \in DOMAIN rule[k], rule'[k][f] # rule[k][f]
    PROVE  \E r \in Requests :
              /\ Acts(r) /\ req[r].op = "edit" /\ req[r].on = k
              /\ \/ req[r].as.field = f
                 \/ <<req[r].as.field, f>> \in {<<"of", "from">>, <<"via", "to">>}
                 \/ overtaken[r]
<1>1. rule' # rule /\ Domains
  BY DEF Inv
<1>2. ASSUME NEW r \in Requests, InsertRule(r)
      PROVE  FALSE
  <2>1. rule[r] = None
    BY <1>2 DEF InsertRule, Inv, Tied
  <2>2. rule'[k] = rule[k]
    BY <1>1, <1>2, <2>1 DEF InsertRule, Domains
  <2> QED BY <2>2
<1>3. ASSUME NEW r \in Requests, NEW i, DeleteRule(r, i)
      PROVE  FALSE
  <2>1. rule'[k] \in {None, rule[k]}
    BY <1>3 DEF DeleteRule
  <2> QED BY <2>1
<1>4. PICK r \in Requests : WriteRule(r)
  BY <1>1, <1>2, <1>3, Writers
<1>5. Tied(r) /\ (~overtaken[r] => Sees(r))
  BY DEF Inv
<1>6. req[r].op = "edit" /\ req[r].pc = "write"
  BY <1>4, <1>5 DEF WriteRule, Tied
<1>7. k = req[r].on /\ rule'[k] = req[r].saw
  BY <1>1, <1>4 DEF WriteRule, Domains
<1>8. Acts(r)
  BY <1>4, <1>6, Ends DEF WriteRule, Acts, Moved, At
<1>9. ~overtaken[r] => \/ req[r].as.field = f
                       \/ <<req[r].as.field, f>> \in {<<"of", "from">>, <<"via", "to">>}
  BY <1>5, <1>6, <1>7 DEF Sees, Edited
<1> QED BY <1>6, <1>7, <1>8, <1>9

\* For any rules, sources and requests: an edit of one field of a rule leaves
\* the others as they are, unless another request changed the row meanwhile.
THEOREM EditsKeepTheRest == Spec => EditsStick
<1>1. ASSUME Inv, [Next]_vars
      PROVE  \A k \in Ids : rule[k] # None /\ rule'[k] # None =>
                \A f \in DOMAIN rule[k] : rule'[k][f] # rule[k][f] =>
                    \E r \in Requests :
                        /\ Acts(r) /\ req[r].op = "edit" /\ req[r].on = k
                        /\ \/ req[r].as.field = f
                           \/ <<req[r].as.field, f>> \in {<<"of", "from">>, <<"via", "to">>}
                           \/ overtaken[r]
  BY <1>1, EditSticks
<1> QED BY InitInv, NextInv, <1>1, PTL DEF Spec, EditsStick

\* An event goes where the rules say at the moment it is stored, unless the
\* request was overtaken: to the default target only if no rule has one or the
\* query for the rule failed, to no target only if the default was not found.
THEOREM EventsFollowRules == Spec => RoutedByRule
<1>1. ASSUME Inv, [Next]_vars
      PROVE  \A r \in Requests : event'[r] # event[r] =>
                Routed(r, event'[r], req[r].saw.failed) \/ overtaken[r]
  <2> SUFFICES ASSUME NEW r \in Requests, event'[r] # event[r], ~overtaken[r]
               PROVE  Routed(r, event'[r], req[r].saw.failed)
    OBVIOUS
  <2>1. PICK s \in Requests : Store(s)
    BY <1>1, Writers
  <2>2. s = r /\ event'[r] = [source |-> req[r].saw.source, target |-> req[r].saw.target]
    BY <1>1, <2>1 DEF Store, Inv, Domains
  <2>3. Tied(r) /\ Sees(r) /\ req[r].pc = "store"
    BY <1>1, <2>1, <2>2 DEF Inv, Store
  <2>4. Chosen(r)
    BY <2>3 DEF Sees
  <2>5. CASE req[r].op = "send"
    <3> DEFINE row == rule[req[r].on]
    <3>1. row # None /\ row.on /\ req[r].saw.source = SourceOf(req[r].on) /\ req[r].saw.target = row.to
      BY <2>4, <2>5, Zenon DEF Chosen
    <3>2. event'[r] = [source |-> SourceOf(req[r].on), target |-> row.to]
      BY <2>2, <3>1, Zenon
    <3> QED BY <2>5, <3>1, <3>2, Zenon DEF Routed
  <2>6. CASE req[r].op # "send"
    BY <2>2, <2>4, <2>6 DEF Chosen
  <2> QED BY <2>5, <2>6
<1> QED BY InitInv, NextInv, <1>1, PTL DEF Spec, RoutedByRule

\* A hook is told only what it is to be told at that moment, unless rules or
\* the destination changed during the run.
THEOREM HooksToldAreMeant == Spec => HooksMeant
<1>1. ASSUME Inv, [Next]_vars
      PROVE  \A r \in Requests, k \in Ids : posted'[r][k] # posted[r][k] =>
                Meant(k, req[r].on, req[r].as) \/ overtaken[r]
  <2> SUFFICES ASSUME NEW r \in Requests, NEW k \in Ids, posted'[r][k] # posted[r][k], ~overtaken[r]
               PROVE  Meant(k, req[r].on, req[r].as)
    OBVIOUS
  <2>1. PICK s \in Requests : PostHook(s)
    BY <1>1, Writers
  <2>2. Tied(s) /\ req[s].pc = "post"
    BY <1>1, <2>1 DEF Inv, PostHook
  <2> DEFINE job == [req[s].saw EXCEPT !.attempts = @ + 1]
  <2>3. job.at = req[s].saw.at
    <3>1. job = SetAttempts(req[s].saw, req[s].saw.attempts + 1)
      BY DEF SetAttempts
    <3>2. job = Job(req[s].saw.via, req[s].saw.at, req[s].saw.status, req[s].saw.attempts + 1)
      BY <2>2, <3>1, JobWith DEF Tied
    <3> QED BY <3>2 DEF Job
  <2>4. \E x : posted' = [posted EXCEPT ![s][job.at] = x]
    BY <2>1 DEF PostHook
  <2>5. s = r /\ k = req[r].saw.at
    BY <1>1, <2>3, <2>4 DEF Inv, Domains
  <2>6. Sees(r)
    BY <1>1 DEF Inv
  <2>7. /\ Wants(k, req[r].on, req[r].as)
        /\ rule[k].via = "webhook" \/ destination
    BY <2>2, <2>5, <2>6 DEF Sees
  <2> QED BY <2>7 DEF Wants, Meant
<1> QED BY InitInv, NextInv, <1>1, PTL DEF Spec, HooksMeant

-----------------------------------------------------------------------------
(***************************************************************************)
(* Passkeys.  A key is saved once and before any sign-in with it, and what a  *)
(* sign-in is about to write is not less than what is stored, unless another  *)
(* one wrote meanwhile.                                                    *)
(***************************************************************************)
KeyPcs == {"save", "sign", "rows", "count"}

\* What a ceremony knows of its key.
InCeremony(r) ==
    LET q == req[r]
    IN  /\ q.pc \in KeyPcs => q.on \in Keys /\ uses[q.on] > 0
        /\ q.pc = "save" => /\ q.who \in Users /\ passkey[q.on] = None
                            /\ \A s \in Requests \ {r} : req[s].pc \in KeyPcs => req[s].on # q.on
        /\ q.pc \in {"sign", "rows", "count"} => q.op = "login"
        /\ q.pc = "rows" => q.as \in Nat
        /\ q.pc = "count" => q.saw \in Nat
        /\ q.pc = "count" /\ ~overtaken[r] => passkey[q.on] = None \/ passkey[q.on].count <= q.saw

Ceremonies ==
    /\ passkey \in [Keys -> KeyRow \cup {None}]
    /\ uses \in [Keys -> Nat]
    /\ \A k \in Keys : uses[k] = 0 => passkey[k] = None
    /\ \A r \in Requests : InCeremony(r)

\* Where a run of the hooks is, and where it begins.
HookPcs == {"idle", "select", "next", "post", "log"}

\* No request is led to one of these places.
Away(pcs) == \A s \in Requests : req'[s] = req[s] \/ req'[s].pc \notin pcs

LEMMA AwayStep ==
    ASSUME Ceremonies, UNCHANGED passkeyVars, Remembered, Away(KeyPcs)
    PROVE  Ceremonies'
<1>1. UNCHANGED <<passkey, uses>>
  BY DEF passkeyVars
<1>2. ASSUME NEW s \in Requests, req'[s] = req[s]
      PROVE  InCeremony(s)'
  BY <1>1, <1>2 DEF Ceremonies, InCeremony, Remembered, Away
<1>3. ASSUME NEW s \in Requests, req'[s].pc \notin KeyPcs
      PROVE  InCeremony(s)'
  BY <1>3 DEF InCeremony, KeyPcs
<1> QED BY <1>1, <1>2, <1>3 DEF Ceremonies, Away

\* One request moves to a place that is none of these.
LEMMA MovedAway ==
    ASSUME NEW r \in Requests, NEW q, Moved(r, q), NEW pcs, q.pc \notin pcs
    PROVE  Away(pcs)
BY DEF Moved, Away

LEMMA EntersAway ==
    ASSUME Inv, NEW r \in Requests, NEW pcs, NEW pc, pc \notin pcs, NEW op, NEW who, NEW on, NEW as,
           Enter(r, pc, op, who, on, as)
    PROVE  Away(pcs)
<1>1. At(pc, op, who, on, as, None).pc = pc
  BY DEF At
<1> QED BY <1>1, Enters, MovedAway

LEMMA GoesAway ==
    ASSUME Inv, NEW r \in Requests, NEW pcs, "over" \notin pcs, NEW pc, pc \notin pcs,
           Goto(r, pc) \/ Finish(r) \/ \E x : Keep(r, x, pc)
    PROVE  Away(pcs)
<1>0. \A op, who, on, as, saw : At(pc, op, who, on, as, saw).pc = pc
  BY DEF At
<1>1. CASE Goto(r, pc)
  BY <1>0, <1>1, Goes, MovedAway
<1>2. CASE Finish(r)
  <2>1. At("over", None, None, None, None, None).pc \notin pcs
    BY DEF At
  <2> QED BY <1>2, <2>1, Ends, MovedAway
<1>3. ASSUME NEW x, Keep(r, x, pc)
      PROVE  Away(pcs)
  BY <1>0, <1>3, Keeps, MovedAway
<1> QED BY <1>1, <1>2, <1>3

\* None of the steps of Routing leads into a ceremony or a run of the hooks.
LEMMA ArrivesAway ==
    ASSUME Inv, NEW r \in Requests, RoutingArrive(r)
    PROVE  Away(KeyPcs \cup HookPcs) /\ Remembered
<1>1. ASSUME NEW resource, NEW new, Create(r, resource, new)
      PROVE  Away(KeyPcs \cup HookPcs) /\ Remembered
  BY <1>1, EntersAway, NobodyOvertaken DEF Create, KeyPcs, HookPcs
<1>2. ASSUME NEW k, NEW to, NEW when, NEW via, CreateHook(r, k, to, when, via)
      PROVE  Away(KeyPcs \cup HookPcs) /\ Remembered
  BY <1>2, EntersAway, NobodyOvertaken DEF CreateHook, KeyPcs, HookPcs
<1>3. ASSUME NEW k, NEW edit, UpdateRule(r, k, edit)
      PROVE  Away(KeyPcs \cup HookPcs) /\ Remembered
  BY <1>3, EntersAway, NobodyOvertaken DEF UpdateRule, KeyPcs, HookPcs
<1>4. ASSUME NEW k, DeleteRule(r, k)
      PROVE  Away(KeyPcs \cup HookPcs) /\ Remembered
  BY <1>4, EntersAway, AllNoted DEF DeleteRule, Once, KeyPcs, HookPcs
<1>5. ASSUME NEW k, Send(r, k)
      PROVE  Away(KeyPcs \cup HookPcs) /\ Remembered
  BY <1>5, EntersAway, NobodyOvertaken DEF Send, KeyPcs, HookPcs
<1>6. ASSUME SaveDestination(r, ~destination)
      PROVE  Away(KeyPcs \cup HookPcs) /\ Remembered
  BY <1>6, EntersAway, AllNoted DEF SaveDestination, Once, Note, KeyPcs, HookPcs
<1>7. ASSUME NEW i, VerifyDomain(r, i)
      PROVE  Away(KeyPcs \cup HookPcs) /\ Remembered
  BY <1>7, EntersAway, NobodyOvertaken DEF VerifyDomain, KeyPcs, HookPcs
<1>8. ASSUME NEW i, DeleteDomain(r, i)
      PROVE  Away(KeyPcs \cup HookPcs) /\ Remembered
  BY <1>8, EntersAway, DomainsNoted DEF DeleteDomain, Once, KeyPcs, HookPcs
<1>9. ASSUME NEW i, RevokeToken(r, i)
      PROVE  Away(KeyPcs \cup HookPcs) /\ Remembered
  BY <1>9, EntersAway, NobodyOvertaken DEF RevokeToken, Once, KeyPcs, HookPcs
<1>10. ASSUME NEW source, NEW h, Ingest(r, source, h)
       PROVE  Away(KeyPcs \cup HookPcs) /\ Remembered
  BY <1>10, EntersAway, NobodyOvertaken DEF Ingest, KeyPcs, HookPcs
<1> QED BY <1>1, <1>2, <1>3, <1>4, <1>5, <1>6, <1>7, <1>8, <1>9, <1>10 DEF RoutingArrive

LEMMA ProceedsAway ==
    ASSUME Inv, NEW r \in Requests, RoutingProceed(r)
    PROVE  Away(KeyPcs \cup HookPcs) /\ Remembered
<1> DEFINE Elsewhere ==
        {"insert", "native", "write", "parent", "lookup", "store"}
<1>1. ASSUME NEW pc \in Elsewhere, Goto(r, pc) \/ Finish(r) \/ \E x : Keep(r, x, pc)
      PROVE  Away(KeyPcs \cup HookPcs)
  BY <1>1, GoesAway DEF KeyPcs, HookPcs
<1>2. Finish(r) => Away(KeyPcs \cup HookPcs)
  BY <1>1
<1>3. CASE EnsureQuota(r)
  BY <1>1, <1>3, NobodyOvertaken DEF EnsureQuota
<1>4. CASE ReadParent(r)
  BY <1>1, <1>4, NobodyOvertaken DEF ReadParent
<1>5. CASE NativeAvailable(r)
  BY <1>1, <1>5, NobodyOvertaken DEF NativeAvailable
<1>6. CASE InsertRule(r)
  BY <1>2, <1>6, NobodyOvertaken, RuleNoted DEF InsertRule
<1>7. CASE InsertDomain(r)
  BY <1>2, <1>7, NobodyOvertaken, DomainsNoted DEF InsertDomain
<1>8. CASE InsertKey(r)
  BY <1>2, <1>8, Overtakes DEF InsertKey, Note, Inv, Domains
<1>9. CASE ReadRule(r)
  BY <1>1, <1>9, NobodyOvertaken DEF ReadRule
<1>10. CASE WriteRule(r)
  BY <1>2, <1>10, NobodyOvertaken, RuleNoted DEF WriteRule
<1>11. CASE WriteStatus(r)
  BY <1>2, <1>11, DomainsNoted DEF WriteStatus
<1>12. CASE ResolveHost(r)
  BY <1>1, <1>12, NobodyOvertaken DEF ResolveHost
<1>13. CASE Lookup(r) \/ Pick(r)
  BY <1>1, <1>13, NobodyOvertaken DEF Lookup, Default, Pick
<1>14. CASE Store(r) \/ Abandon(r)
  BY <1>2, <1>14, NobodyOvertaken DEF Store, Abandon
<1> QED BY <1>3, <1>4, <1>5, <1>6, <1>7, <1>8, <1>9, <1>10, <1>11, <1>12, <1>13, <1>14
           DEF RoutingProceed

LEMMA BothAway == Away(KeyPcs \cup HookPcs) => Away(KeyPcs) /\ Away(HookPcs)
BY DEF Away

LEMMA NotifiesAway ==
    ASSUME Inv, NEW r \in Requests, HooksStep(r)
    PROVE  Away(KeyPcs) /\ Remembered
<1>1. Remembered
  BY NobodyOvertaken
     DEF HooksStep, Notify, SelectHooks, NextHook, PostHook, LogHook, hookVars
<1>2. ASSUME NEW pc \in {"next", "post", "log"}, Finish(r) \/ \E x : Keep(r, x, pc)
      PROVE  Away(KeyPcs)
  BY <1>2, GoesAway DEF KeyPcs
<1>3. ASSUME NEW source, NEW trigger, Notify(r, source, trigger)
      PROVE  Away(KeyPcs)
  BY <1>3, EntersAway DEF Notify, KeyPcs
<1>4. CASE SelectHooks(r)
  BY <1>1, <1>2, <1>4 DEF SelectHooks
<1>5. CASE NextHook(r)
  BY <1>1, <1>2, <1>5 DEF NextHook
<1>6. CASE PostHook(r)
  <2>1. \E x : Keep(r, x, "post") \/ Keep(r, x, "log")
    BY <1>6 DEF PostHook
  <2> QED BY <1>1, <1>2, <2>1
<1>7. CASE LogHook(r)
  BY <1>1, <1>2, <1>7 DEF LogHook
<1> QED BY <1>1, <1>3, <1>4, <1>5, <1>6, <1>7 DEF HooksStep

\* The steps of a ceremony.
LEMMA RegisterInCeremony ==
    ASSUME Inv, Ceremonies, NEW r \in Requests, NEW e \in Users, NEW k \in Keys, Register(r, e, k)
    PROVE  Ceremonies'
<1>1. Moved(r, At("save", "register", e, k, None, None)) /\ Remembered
  BY Enters, NobodyOvertaken DEF Register
<1>2. uses[k] = 0 /\ passkey[k] = None /\ uses' = [uses EXCEPT ![k] = 1] /\ passkey' = passkey
  BY DEF Register, Ceremonies
<1>3. \A s \in Requests : req[s].pc \in KeyPcs => req[s].on # k
  BY <1>2 DEF Ceremonies, InCeremony
<1>4. uses' \in [Keys -> Nat] /\ \A j \in Keys : uses[j] > 0 => uses'[j] > 0
  BY <1>2 DEF Ceremonies
<1>5. uses'[k] > 0 /\ \A j \in Keys : uses'[j] = 0 => passkey'[j] = None
  BY <1>2 DEF Ceremonies
<1>6. InCeremony(r)'
  BY <1>1, <1>2, <1>3, <1>5 DEF InCeremony, Moved, At
<1>7. ASSUME NEW s \in Requests \ {r}
      PROVE  InCeremony(s)'
  BY <1>1, <1>2, <1>3, <1>4 DEF Ceremonies, InCeremony, Moved, At, Remembered
<1> QED BY <1>2, <1>4, <1>5, <1>6, <1>7 DEF Ceremonies

LEMMA SaveKeyInCeremony ==
    ASSUME Inv, Ceremonies, NEW r \in Requests, SaveKey(r)
    PROVE  Ceremonies'
<1> DEFINE k == req[r].on  row == [owner |-> req[r].who, count |-> 1]
<1>1. Moved(r, At("over", None, None, None, None, None)) /\ Remembered
  BY Ends, NobodyOvertaken DEF SaveKey
<1>2. /\ k \in Keys /\ uses[k] > 0 /\ req[r].who \in Users
      /\ \A s \in Requests \ {r} : req[s].pc \in KeyPcs => req[s].on # k
  BY DEF SaveKey, Ceremonies, InCeremony, KeyPcs
<1>3. passkey' = [passkey EXCEPT ![k] = row] /\ uses' = uses
  BY DEF SaveKey
<1>4. row \in KeyRow
  BY <1>2 DEF KeyRow
<1>5. passkey' \in [Keys -> KeyRow \cup {None}] /\ \A j \in Keys : uses'[j] = 0 => passkey'[j] = None
  BY <1>2, <1>3, <1>4 DEF Ceremonies
<1>6. \A j \in Keys \ {k} : passkey'[j] = passkey[j]
  BY <1>3 DEF Ceremonies
<1>7. InCeremony(r)'
  BY <1>1 DEF InCeremony, Moved, At, KeyPcs
<1>8. ASSUME NEW s \in Requests \ {r}
      PROVE  InCeremony(s)'
  <2>1. req[s].pc \in KeyPcs => req[s].on \in Keys \ {k}
    BY <1>2 DEF Ceremonies, InCeremony
  <2>2. req'[s] = req[s] /\ req'[r].pc \notin KeyPcs /\ (overtaken[s] => overtaken'[s])
    BY <1>1 DEF Moved, At, KeyPcs, Remembered
  <2>3. InCeremony(s)
    BY DEF Ceremonies
  <2> QED BY <1>1, <1>3, <1>6, <2>1, <2>2, <2>3 DEF InCeremony, Moved, KeyPcs
<1> QED BY <1>3, <1>5, <1>7, <1>8 DEF Ceremonies

LEMMA LoginInCeremony ==
    ASSUME Inv, Ceremonies, NEW r \in Requests, NEW k \in Keys, Login(r, k)
    PROVE  Ceremonies'
<1>1. Moved(r, At("sign", "login", passkey[k].owner, k, passkey[k].count, None)) /\ Remembered
  BY Enters, NobodyOvertaken DEF Login
<1>2. passkey[k] # None /\ UNCHANGED <<passkey, uses>>
  BY DEF Login, passkeyVars
<1>3. uses[k] > 0
  BY <1>2 DEF Ceremonies
<1>4. InCeremony(r)'
  BY <1>1, <1>2, <1>3 DEF InCeremony, Moved, At
<1>5. ASSUME NEW s \in Requests \ {r}
      PROVE  InCeremony(s)'
  BY <1>1, <1>2 DEF Ceremonies, InCeremony, Moved, At, Remembered
<1> QED BY <1>2, <1>4, <1>5 DEF Ceremonies

LEMMA DeleteInCeremony ==
    ASSUME Inv, Ceremonies, NEW r \in Requests, NEW k \in Keys, DeletePasskey(r, k)
    PROVE  Ceremonies'
<1>1. Moved(r, At("over", None, None, None, None, None)) /\ Remembered
  BY Enters, Overtakes DEF DeletePasskey, Once, NoteKeys, Inv, Domains
<1>2. passkey' = [passkey EXCEPT ![k] = None] /\ uses' = uses
  BY DEF DeletePasskey
<1>3. \A j \in Keys : passkey'[j] \in {passkey[j], None}
  BY <1>2 DEF Ceremonies
<1>4. InCeremony(r)'
  BY <1>1 DEF InCeremony, Moved, At, KeyPcs
<1>5. ASSUME NEW s \in Requests \ {r}
      PROVE  InCeremony(s)'
  BY <1>1, <1>2, <1>3 DEF Ceremonies, InCeremony, Moved, At, Remembered, KeyPcs
<1> QED BY <1>2, <1>3, <1>4, <1>5 DEF Ceremonies

\* A request goes on in its ceremony, and the rows stay.
LEMMA OnInCeremony ==
    ASSUME Ceremonies, NEW r \in Requests, NEW q, Moved(r, q), Remembered,
           req[r].pc \in KeyPcs \ {"save"}, q.pc # "save", q.op = req[r].op, q.on = req[r].on,
           q.pc = "rows" => q.as \in Nat,
           q.pc = "count" => q.saw \in Nat /\ (passkey[q.on] = None \/ passkey[q.on].count <= q.saw),
           UNCHANGED passkey, uses' \in [Keys -> Nat], \A k \in Keys : uses'[k] >= uses[k]
    PROVE  Ceremonies'
<1>1. \A k \in Keys : uses[k] > 0 => uses'[k] > 0
  BY DEF Ceremonies
<1>2. \A k \in Keys : uses'[k] = 0 => passkey'[k] = None
  BY DEF Ceremonies
<1>3. req[r].on \in Keys /\ uses[req[r].on] > 0 /\ req[r].op = "login"
  BY DEF Ceremonies, InCeremony, KeyPcs
<1>4. InCeremony(r)'
  BY <1>1, <1>3 DEF InCeremony, Moved
<1>5. ASSUME NEW s \in Requests \ {r}
      PROVE  InCeremony(s)'
  BY <1>1 DEF Ceremonies, InCeremony, Moved, Remembered
<1> QED BY <1>2, <1>4, <1>5 DEF Ceremonies

LEMMA SignInCeremony ==
    ASSUME Inv, Ceremonies, NEW r \in Requests, Sign(r)
    PROVE  Ceremonies'
<1> DEFINE k == req[r].on  n == uses[k] + 1
<1>1. k \in Keys /\ uses[k] \in Nat
  BY DEF Sign, Ceremonies, InCeremony, KeyPcs
<1>3. Moved(r, At("rows", req[r].op, req[r].who, k, n, req[r].saw))
  BY SignMoves
<1>4. /\ uses' \in [Keys -> Nat] /\ \A j \in Keys : uses'[j] >= uses[j]
      /\ UNCHANGED passkey /\ Remembered
  BY <1>1, NobodyOvertaken DEF Sign, Ceremonies
<1> QED BY <1>1, <1>3, <1>4, OnInCeremony DEF At, Sign, KeyPcs

LEMMA ReadKeysInCeremony ==
    ASSUME Inv, Ceremonies, NEW r \in Requests, ReadKeys(r)
    PROVE  Ceremonies'
<1> DEFINE k == req[r].on  new == Newer(req[r].as, passkey[k].count)
<1>1. /\ UNCHANGED <<passkey, uses>> /\ Remembered
      /\ req[r].pc = "rows" /\ k \in Keys /\ req[r].as \in Nat
  BY NobodyOvertaken DEF ReadKeys, passkeyVars, Ceremonies, InCeremony, KeyPcs
<1>2. CASE passkey[k] # None /\ Keep(r, new, "count")
  <2>1. Moved(r, At("count", req[r].op, req[r].who, k, req[r].as, new))
    BY <1>2, Keeps
  <2>2. passkey[k].count \in Nat
    BY <1>1, <1>2 DEF Ceremonies, KeyRow
  <2>3. new \in Nat /\ passkey[k].count <= new
    BY <1>1, <2>2 DEF Newer
  <2>4. uses' \in [Keys -> Nat] /\ \A j \in Keys : uses'[j] >= uses[j]
    BY <1>1 DEF Ceremonies
  <2> HIDE DEF new
  <2> QED BY <1>1, <2>1, <2>3, <2>4, OnInCeremony DEF At, KeyPcs
<1>3. CASE Finish(r)
  <2>1. "over" \notin KeyPcs
    BY DEF KeyPcs
  <2> QED BY <1>1, <1>3, <2>1, GoesAway, AwayStep DEF passkeyVars
<1> QED BY <1>2, <1>3 DEF ReadKeys

\* The other sign-ins with the key are overtaken by the one that writes.
LEMMA WriteCountInCeremony ==
    ASSUME Inv, Ceremonies, NEW r \in Requests, WriteCount(r)
    PROVE  Ceremonies'
<1> DEFINE k == req[r].on
<1>1. /\ k \in Keys /\ uses[k] > 0 /\ req[r].saw \in Nat /\ uses' = uses
      /\ req[r].pc = "count"
  BY DEF WriteCount, Ceremonies, InCeremony, KeyPcs
<1>2. Moved(r, At("over", None, None, None, None, None))
  BY Ends DEF WriteCount
<1>3. CASE UNCHANGED <<passkey, overtaken>>
  <2>1. "over" \notin KeyPcs /\ Remembered
    BY <1>3, NobodyOvertaken DEF KeyPcs
  <2> QED BY <1>1, <1>2, <1>3, <2>1, MovedAway, AwayStep DEF passkeyVars, At
<1>4. CASE /\ passkey[k] # None
           /\ passkey' = [passkey EXCEPT ![k].count = req[r].saw]
           /\ NoteKeys(r)
  <2>1. /\ Remembered
        /\ \A s \in Requests \ {r} : Busy(s) /\ req[s].op = "login" => overtaken'[s]
    BY <1>4, Overtakes DEF NoteKeys, Inv, Domains
  <2>2. passkey'[k] \in KeyRow /\ \A j \in Keys \ {k} : passkey'[j] = passkey[j]
    BY <1>1, <1>4 DEF Ceremonies, KeyRow
  <2>3. /\ passkey' \in [Keys -> KeyRow \cup {None}]
        /\ \A j \in Keys : uses'[j] = 0 => passkey'[j] = None
    BY <1>1, <1>4, <2>2 DEF Ceremonies
  <2>4. InCeremony(r)'
    BY <1>2 DEF InCeremony, Moved, At, KeyPcs
  <2>5. ASSUME NEW s \in Requests \ {r}
        PROVE  InCeremony(s)'
    <3>1. req'[s] = req[s] /\ req'[r].pc \notin KeyPcs /\ InCeremony(s)
      BY <1>2 DEF Moved, At, KeyPcs, Ceremonies
    <3>2. req[s].pc = "save" => req[s].on # k
      BY <1>1, <3>1 DEF InCeremony, KeyPcs
    <3>3. req[s].pc = "count" => overtaken'[s]
      BY <2>1, <3>1 DEF InCeremony, Busy
    <3>4. req[s].pc = "save" => passkey'[req[s].on] = None
      BY <2>2, <3>1, <3>2 DEF InCeremony, KeyPcs
    <3> QED BY <1>1, <1>2, <3>1, <3>3, <3>4 DEF InCeremony, Moved
  <2> QED BY <1>1, <2>3, <2>4, <2>5 DEF Ceremonies
<1> QED BY <1>3, <1>4 DEF WriteCount

LEMMA InitCeremonies == Init => Ceremonies
<1> SUFFICES ASSUME Init
             PROVE  Ceremonies
  OBVIOUS
<1>1. PICK owner \in [OldKeys -> Users] :
          passkey = [k \in Keys |-> IF k \in OldKeys THEN [owner |-> owner[k], count |-> 1] ELSE None]
  BY DEF Init, PasskeysInit
<1>2. uses = [k \in Keys |-> IF k \in OldKeys THEN 1 ELSE 0]
  BY DEF Init, PasskeysInit
<1>3. \A k \in OldKeys : [owner |-> owner[k], count |-> 1] \in KeyRow
  BY DEF KeyRow
<1>4. \A r \in Requests : req[r].pc \notin KeyPcs
  BY DEF Init, HandlerInit, Idle, KeyPcs
<1>5. \A r \in Requests : InCeremony(r)
  BY <1>4 DEF InCeremony, KeyPcs
<1> QED BY <1>1, <1>2, <1>3, <1>5 DEF Ceremonies

LEMMA NextCeremonies ==
    ASSUME Inv, Ceremonies, [Next]_vars
    PROVE  Ceremonies'
<1>1. CASE Environment /\ UNCHANGED passkeyVars
  <2>1. UNCHANGED req /\ Remembered
    BY <1>1, NobodyOvertaken, Overtakes DEF Environment, PlanEnds, NewPeriod, Note, Inv, Domains
  <2> QED BY <1>1, <2>1, AwayStep DEF Away
<1>2. ASSUME NEW r \in Requests, UNCHANGED passkeyVars,
             RoutingArrive(r) \/ RoutingProceed(r) \/ HooksStep(r)
      PROVE  Ceremonies'
  BY <1>2, ArrivesAway, ProceedsAway, BothAway, NotifiesAway, AwayStep
<1>3. ASSUME NEW r \in Requests, PasskeysStep(r)
      PROVE  Ceremonies'
  BY <1>3, RegisterInCeremony, DeleteInCeremony, LoginInCeremony, SaveKeyInCeremony,
     SignInCeremony, ReadKeysInCeremony, WriteCountInCeremony
     DEF PasskeysStep
<1>4. CASE UNCHANGED vars
  BY <1>4, NobodyOvertaken, AwayStep DEF vars, Away
<1> QED BY <1>1, <1>2, <1>3, <1>4 DEF Next

\* The counter of a passkey falls only by a sign-in that another one overtook.
LEMMA OnlyRises ==
    ASSUME Inv, Ceremonies, [Next]_vars, NEW k \in Keys,
           passkey[k] # None, passkey'[k] # None, passkey'[k].count < passkey[k].count
    PROVE  \E r \in Requests : Acts(r) /\ overtaken[r]
<1>1. passkey[k].count \in Nat /\ passkey'[k] # passkey[k]
  BY DEF Ceremonies, KeyRow
<1>2. PICK r \in Requests : PasskeysStep(r)
  BY <1>1 DEF Next, vars, passkeyVars
<1>3. ~ SaveKey(r)
  <2> SUFFICES ASSUME SaveKey(r)
               PROVE  FALSE
    OBVIOUS
  <2>1. passkey[req[r].on] = None
    BY DEF SaveKey, Ceremonies, InCeremony
  <2>2. passkey'[k] = passkey[k]
    BY <2>1 DEF SaveKey, Ceremonies
  <2> QED BY <1>1, <2>2
<1>4. \A j \in Keys : ~ DeletePasskey(r, j)
  <2> SUFFICES ASSUME NEW j \in Keys, DeletePasskey(r, j)
               PROVE  FALSE
    OBVIOUS
  <2>1. passkey'[k] \in {passkey[k], None}
    BY DEF DeletePasskey, Ceremonies
  <2> QED BY <1>1, <2>1
<1>5. WriteCount(r)
  BY <1>1, <1>2, <1>3, <1>4 DEF PasskeysStep, Register, Login, Sign, ReadKeys, passkeyVars
<1>6. req[r].pc = "count" /\ InCeremony(r)
  BY <1>5 DEF WriteCount, Ceremonies
<1>7. k = req[r].on /\ passkey' = [passkey EXCEPT ![k].count = req[r].saw]
  BY <1>1, <1>5 DEF WriteCount, Ceremonies
<1>8. passkey'[k].count = req[r].saw
  BY <1>7 DEF Ceremonies, KeyRow
<1>9. overtaken[r]
  BY <1>1, <1>6, <1>7, <1>8 DEF InCeremony
<1>10. Acts(r)
  BY <1>5, <1>6, Ends DEF WriteCount, Acts, Moved, At
<1> QED BY <1>9, <1>10

\* The stored counter of a passkey, by which a copy of the authenticator would
\* be noticed, falls only when another sign-in wrote it between the read and
\* the write of one: with any number of keys, people and requests.
THEOREM CountersRise == Spec => CounterRises
<1>1. ASSUME Inv, Ceremonies, [Next]_vars
      PROVE  \A k \in Keys :
                passkey[k] # None /\ passkey'[k] # None /\ passkey'[k].count < passkey[k].count =>
                    \E r \in Requests : Acts(r) /\ overtaken[r]
  BY <1>1, OnlyRises
<1> QED BY InitInv, NextInv, InitCeremonies, NextCeremonies, <1>1, PTL DEF Spec, CounterRises

-----------------------------------------------------------------------------
(***************************************************************************)
(* Quotas.  A request that has passed its check still has room, unless it     *)
(* was overtaken: whatever makes a count grow or the plan end overtakes it.   *)
(***************************************************************************)
Counted(resource) ==
    CASE resource = "providers" -> {k \in Ids : rule[k] # None}
      [] resource = "domains"   -> {i \in Ids : domain[i] # None /\ domain[i].status # "failed"}
      [] resource = "api_keys"  -> {i \in Ids : key[i] = "valid"}

Inserts(q) == q.pc = "insert" /\ q.op \in Resources

HasRoom(s) ==
    /\ req[s].pc = "dns" => req[s].op = "verify"
    /\ Inserts(req[s]) /\ ~overtaken[s] => paid \/ Room(req[s].op)

\* No request is led past its check, or to the status of a domain.
Unchecked ==
    \A s \in Requests : req'[s] = req[s] \/ (~ Inserts(req'[s]) /\ (req'[s].pc = "dns" => req'[s].op = "verify"))

Tables == DOMAIN domain = Ids /\ DOMAIN key = Ids

\* Where a count grows or the plan ends, those who rely on it are overtaken.
Told ==
    /\ Tables'
    /\ paid' = paid \/ \A s \in Requests : Inserts(req'[s]) => overtaken'[s]
    /\ \A resource \in Resources :
          \/ Counted(resource)' \subseteq Counted(resource)
          \/ \A s \in Requests : Inserts(req'[s]) /\ req'[s].op = resource => overtaken'[s]

LEMMA CountOf ==
    ASSUME NEW resource \in Resources
    PROVE  /\ Count(resource) = Cardinality(Counted(resource))
           /\ Count(resource)' = Cardinality(Counted(resource)')
           /\ Counted(resource) \subseteq Ids /\ Counted(resource)' \subseteq Ids
BY DEF Count, Counted, Resources

LEMMA CountFinite ==
    ASSUME IsFiniteSet(Olds), IsFiniteSet(Requests), NEW resource \in Resources
    PROVE  /\ IsFiniteSet(Counted(resource)) /\ IsFiniteSet(Counted(resource)')
           /\ Count(resource) \in Nat /\ Count(resource)' \in Nat /\ Limit[resource] \in Nat
<1>1. IsFiniteSet(Ids)
  BY FS_Union DEF Ids
<1> QED BY <1>1, CountOf, FS_Subset, FS_CardinalityType, RoutingAssumption

LEMMA RoomKept ==
    ASSUME IsFiniteSet(Olds), IsFiniteSet(Requests), NEW s \in Requests, HasRoom(s),
           Remembered, Unchecked, Told
    PROVE  HasRoom(s)'
<1>1. CASE req'[s] # req[s]
  BY <1>1 DEF Unchecked, HasRoom, Inserts
<1>2. CASE req'[s] = req[s]
  <2> SUFFICES ASSUME NEW resource \in Resources, req[s].op = resource, req[s].pc = "insert",
                      ~overtaken'[s]
               PROVE  paid' \/ Count(resource)' < Limit[resource]
    BY <1>2 DEF HasRoom, Inserts, Room
  <2>1. paid' = paid /\ Counted(resource)' \subseteq Counted(resource)
    BY <1>2 DEF Told, Inserts
  <2>2. paid \/ Count(resource) < Limit[resource]
    BY DEF HasRoom, Remembered, Room, Inserts
  <2>3. Cardinality(Counted(resource)') <= Cardinality(Counted(resource))
    BY <2>1, CountFinite, FS_Subset
  <2>4. Count(resource)' <= Count(resource)
    BY <2>3, CountOf
  <2>5. Count(resource) \in Nat /\ Count(resource)' \in Nat /\ Limit[resource] \in Nat
    BY CountFinite
  <2> QED BY <2>1, <2>2, <2>4, <2>5
<1> QED BY <1>1, <1>2

\* Steps that leave what is counted, and the plan, as they are.
LEMMA CountsStay ==
    ASSUME Tables, UNCHANGED <<paid, rule, domain, key>>
    PROVE  Told
BY DEF Told, Counted, Resources, Tables

LEMMA CountsShrink ==
    ASSUME Tables', UNCHANGED paid,
           \A k \in Ids : rule'[k] # None => rule[k] # None,
           \A k \in Ids : domain'[k] \in {domain[k], None},
           \A k \in Ids : key'[k] = "valid" => key[k] = "valid"
    PROVE  Told
BY DEF Told, Counted, Resources

LEMMA MovedUnchecked ==
    ASSUME NEW r \in Requests, NEW q, Moved(r, q), q.pc \notin {"insert", "dns"}
    PROVE  Unchecked
BY DEF Moved, Unchecked, Inserts

LEMMA EntersUnchecked ==
    ASSUME Inv, NEW r \in Requests, NEW pc, pc \notin {"insert", "dns"},
           NEW op, NEW who, NEW on, NEW as, Enter(r, pc, op, who, on, as)
    PROVE  Unchecked
<1>1. Moved(r, At(pc, op, who, on, as, None))
  BY Enters
<1>2. At(pc, op, who, on, as, None).pc = pc
  BY DEF At
<1> QED BY <1>1, <1>2, MovedUnchecked

LEMMA GoesUnchecked ==
    ASSUME Inv, NEW r \in Requests, NEW pc, pc \notin {"insert", "dns"},
           Goto(r, pc) \/ Finish(r) \/ \E x : Keep(r, x, pc)
    PROVE  Unchecked
<1>1. CASE Goto(r, pc)
  BY <1>1, Goes, MovedUnchecked DEF At
<1>2. CASE Finish(r)
  <2>1. At("over", None, None, None, None, None).pc = "over"
    BY DEF At
  <2> QED BY <1>2, <2>1, Ends, MovedUnchecked
<1>3. ASSUME NEW x, Keep(r, x, pc)
      PROVE  Unchecked
  <2>1. Moved(r, At(pc, req[r].op, req[r].who, req[r].on, req[r].as, x))
    BY <1>3, Keeps
  <2>2. At(pc, req[r].op, req[r].who, req[r].on, req[r].as, x).pc = pc
    BY DEF At
  <2> QED BY <2>1, <2>2, MovedUnchecked
<1> QED BY <1>1, <1>2, <1>3

LEMMA ArrivesUnchecked ==
    ASSUME Inv, Tables, NEW r \in Requests, RoutingArrive(r)
    PROVE  Unchecked /\ Told
<1> USE DEF routingVars, owned
<1>1. ASSUME NEW resource, NEW new, Create(r, resource, new)
      PROVE  Unchecked /\ Told
  BY <1>1, EntersUnchecked, CountsStay DEF Create
<1>2. ASSUME NEW k, NEW to, NEW when, NEW via, CreateHook(r, k, to, when, via)
      PROVE  Unchecked /\ Told
  BY <1>2, EntersUnchecked, CountsStay DEF CreateHook
<1>3. ASSUME NEW k, NEW edit, UpdateRule(r, k, edit)
      PROVE  Unchecked /\ Told
  BY <1>3, EntersUnchecked, CountsStay DEF UpdateRule
<1>4. ASSUME NEW k, DeleteRule(r, k)
      PROVE  Unchecked /\ Told
  <2>1. Unchecked
    BY <1>4, EntersUnchecked DEF DeleteRule, Once
  <2>2. \A i \in Ids : rule'[i] \in {None, rule[i]}
    BY <1>4 DEF DeleteRule
  <2> QED BY <1>4, <2>1, <2>2, CountsShrink DEF DeleteRule, Tables
<1>5. ASSUME NEW k, Send(r, k)
      PROVE  Unchecked /\ Told
  BY <1>5, EntersUnchecked, CountsStay DEF Send
<1>6. ASSUME SaveDestination(r, ~destination)
      PROVE  Unchecked /\ Told
  BY <1>6, EntersUnchecked, CountsStay DEF SaveDestination, Once
<1>7. ASSUME NEW i, VerifyDomain(r, i)
      PROVE  Unchecked /\ Told
  <2>1. Moved(r, At("dns", "verify", None, i, None, None))
    BY <1>7, Enters DEF VerifyDomain
  <2>2. Unchecked
    BY <2>1 DEF Moved, At, Unchecked, Inserts
  <2> QED BY <1>7, <2>2, CountsStay DEF VerifyDomain
<1>8. ASSUME NEW i \in Ids, DeleteDomain(r, i)
      PROVE  Unchecked /\ Told
  <2>1. Unchecked
    BY <1>8, EntersUnchecked DEF DeleteDomain, Once
  <2>2. Tables' /\ \A j \in Ids : domain'[j] \in {None, domain[j]}
    BY <1>8 DEF DeleteDomain, Tables
  <2> QED BY <1>8, <2>1, <2>2, CountsShrink DEF DeleteDomain
<1>9. ASSUME NEW i \in Ids, RevokeToken(r, i)
      PROVE  Unchecked /\ Told
  <2>1. Unchecked
    BY <1>9, EntersUnchecked DEF RevokeToken, Once
  <2>2. Tables' /\ \A j \in Ids : key'[j] = "valid" => key[j] = "valid"
    BY <1>9 DEF RevokeToken, Tables
  <2> QED BY <1>9, <2>1, <2>2, CountsShrink DEF RevokeToken
<1>10. ASSUME NEW source, NEW h, Ingest(r, source, h)
       PROVE  Unchecked /\ Told
  BY <1>10, EntersUnchecked, CountsStay DEF Ingest
<1> QED BY <1>1, <1>2, <1>3, <1>4, <1>5, <1>6, <1>7, <1>8, <1>9, <1>10 DEF RoutingArrive

\* A request whose step makes a count grow has just ended, the others that rely
\* on the count are overtaken, and it has inserted one row, unless it verified.
Grown(r, resource) ==
    /\ req[r].pc \in {"insert", "dns"} /\ req'[r].pc = "over"
    /\ req[r].pc = "insert" =>
          /\ req[r].op = resource \/ (req[r].op = "hook" /\ resource = "providers")
          /\ Counted(resource)' \subseteq Counted(resource) \cup {r}

LEMMA InsertRuleGrows ==
    ASSUME Inv, Tables, NEW r \in Requests, InsertRule(r)
    PROVE  Unchecked /\ Told /\ \A resource \in Resources :
              Counted(resource)' \subseteq Counted(resource) \/ Grown(r, resource)
<1>1. Moved(r, At("over", None, None, None, None, None)) /\ Unchecked
  BY Ends, GoesUnchecked DEF InsertRule
<1>2. UNCHANGED <<paid, domain, key>> /\ req[r].pc = "insert" /\ req[r].op \in {"providers", "hook"}
  BY DEF InsertRule
<1>3. CASE UNCHANGED rule
  <2>1. \A resource \in Resources : Counted(resource)' = Counted(resource)
    BY <1>2, <1>3 DEF Counted, Resources
  <2> QED BY <1>1, <1>2, <1>3, <2>1, CountsStay
<1>4. ASSUME NEW row, rule' = [rule EXCEPT ![r] = row], NoteRule(r, r, TRUE)
      PROVE  Told /\ \A resource \in Resources :
                Counted(resource)' \subseteq Counted(resource) \/ Grown(r, resource)
  <2>1. \A s \in Requests \ {r} : Busy(s) /\ req[s].op = "providers" => overtaken'[s]
    BY <1>4, Overtakes DEF NoteRule, Inv, Domains
  <2>2. \A s \in Requests : Inserts(req'[s]) /\ req'[s].op = "providers" => overtaken'[s]
    BY <1>1, <2>1 DEF Moved, At, Inserts, Busy
  <2>3. Counted("providers")' \subseteq Counted("providers") \cup {r}
    BY <1>4 DEF Counted, Inv, Domains
  <2>4. \A resource \in Resources \ {"providers"} : Counted(resource)' = Counted(resource)
    BY <1>2 DEF Counted, Resources
  <2>5. Told
    BY <1>2, <2>2, <2>4 DEF Told, Tables
  <2>6. Grown(r, "providers")
    BY <1>1, <1>2, <2>3 DEF Grown, Moved, At
  <2> QED BY <2>4, <2>5, <2>6
<1> QED BY <1>1, <1>2, <1>3, <1>4 DEF InsertRule

LEMMA InsertDomainGrows ==
    ASSUME Inv, Tables, NEW r \in Requests, InsertDomain(r)
    PROVE  Unchecked /\ Told /\ \A resource \in Resources :
              Counted(resource)' \subseteq Counted(resource) \/ Grown(r, resource)
<1>1. Moved(r, At("over", None, None, None, None, None)) /\ Unchecked
  BY Ends, GoesUnchecked DEF InsertDomain
<1>2. UNCHANGED <<paid, rule, key>> /\ req[r].pc = "insert" /\ req[r].op = "domains"
  BY DEF InsertDomain
<1>3. CASE UNCHANGED domain
  <2>1. \A resource \in Resources : Counted(resource)' = Counted(resource)
    BY <1>2, <1>3 DEF Counted, Resources
  <2> QED BY <1>1, <1>2, <1>3, <2>1, CountsStay
<1>4. ASSUME NEW row, domain' = [domain EXCEPT ![r] = row], Note(r, "domains")
      PROVE  Told /\ \A resource \in Resources :
                Counted(resource)' \subseteq Counted(resource) \/ Grown(r, resource)
  <2>1. \A s \in Requests \ {r} : Busy(s) /\ req[s].op = "domains" => overtaken'[s]
    BY <1>4, Overtakes DEF Note, Reads, Resources, Inv, Domains
  <2>2. \A s \in Requests : Inserts(req'[s]) /\ req'[s].op = "domains" => overtaken'[s]
    BY <1>1, <2>1 DEF Moved, At, Inserts, Busy
  <2>3. Counted("domains")' \subseteq Counted("domains") \cup {r}
    BY <1>4 DEF Counted, Tables
  <2>4. \A resource \in Resources \ {"domains"} : Counted(resource)' = Counted(resource)
    BY <1>2 DEF Counted, Resources
  <2>5. Told
    BY <1>2, <1>4, <2>2, <2>4 DEF Told, Tables
  <2>6. Grown(r, "domains")
    BY <1>1, <1>2, <2>3 DEF Grown, Moved, At
  <2> QED BY <2>4, <2>5, <2>6
<1> QED BY <1>1, <1>2, <1>3, <1>4 DEF InsertDomain

LEMMA InsertKeyGrows ==
    ASSUME Inv, Tables, NEW r \in Requests, InsertKey(r)
    PROVE  Unchecked /\ Told /\ \A resource \in Resources :
              Counted(resource)' \subseteq Counted(resource) \/ Grown(r, resource)
<1>1. Moved(r, At("over", None, None, None, None, None)) /\ Unchecked
  BY Ends, GoesUnchecked DEF InsertKey
<1>2. UNCHANGED <<paid, rule, domain>> /\ req[r].pc = "insert" /\ req[r].op = "api_keys"
  BY DEF InsertKey
<1>3. key' = [key EXCEPT ![r] = "valid"] /\ Note(r, "api_keys")
  BY DEF InsertKey
<1>4. \A s \in Requests \ {r} : Busy(s) /\ req[s].op = "api_keys" => overtaken'[s]
  BY <1>3, Overtakes DEF Note, Reads, Resources, Inv, Domains
<1>5. \A s \in Requests : Inserts(req'[s]) /\ req'[s].op = "api_keys" => overtaken'[s]
  BY <1>1, <1>4 DEF Moved, At, Inserts, Busy
<1>6. Counted("api_keys")' \subseteq Counted("api_keys") \cup {r}
  BY <1>3 DEF Counted, Tables
<1>7. \A resource \in Resources \ {"api_keys"} : Counted(resource)' = Counted(resource)
  BY <1>2 DEF Counted, Resources
<1>8. Told
  BY <1>2, <1>3, <1>5, <1>7 DEF Told, Tables
<1>9. Grown(r, "api_keys")
  BY <1>1, <1>2, <1>6 DEF Grown, Moved, At
<1> QED BY <1>1, <1>7, <1>8, <1>9

LEMMA WriteStatusGrows ==
    ASSUME Inv, Tables, NEW r \in Requests, WriteStatus(r)
    PROVE  Unchecked /\ Told /\ Grown(r, "domains")
           /\ \A resource \in Resources \ {"domains"} : Counted(resource)' = Counted(resource)
<1>1. Moved(r, At("over", None, None, None, None, None)) /\ Unchecked
  BY Ends, GoesUnchecked DEF WriteStatus
<1>2. UNCHANGED <<paid, rule, key>> /\ Tables' /\ Note(r, "domains")
  BY DEF WriteStatus, Tables
<1>3. \A s \in Requests \ {r} : Busy(s) /\ req[s].op = "domains" => overtaken'[s]
  BY <1>2, Overtakes DEF Note, Reads, Resources, Inv, Domains
<1>4. \A s \in Requests : Inserts(req'[s]) /\ req'[s].op = "domains" => overtaken'[s]
  BY <1>1, <1>3 DEF Moved, At, Inserts, Busy
<1>5. \A resource \in Resources \ {"domains"} : Counted(resource)' = Counted(resource)
  BY <1>2 DEF Counted, Resources
<1>6. Told
  BY <1>2, <1>4, <1>5 DEF Told
<1>7. Grown(r, "domains")
  BY <1>1 DEF Grown, Moved, At, WriteStatus
<1> QED BY <1>1, <1>5, <1>6, <1>7

\* The check of the quota.
LEMMA EnsureQuotaChecks ==
    ASSUME Inv, Tables, \A s \in Requests : HasRoom(s), NEW r \in Requests, EnsureQuota(r)
    PROVE  Told /\ \A s \in Requests : HasRoom(s)'
<1>1. UNCHANGED <<paid, rule, domain, key, overtaken>>
  BY DEF EnsureQuota, routingVars, owned
<1>2. Told
  BY <1>1, CountsStay
<1>3. \A resource \in Resources : Count(resource)' = Count(resource)
  BY <1>1 DEF Count, Resources
<1>4. \A s \in Requests : req'[s] = req[s] => HasRoom(s)'
  BY <1>1, <1>3 DEF HasRoom, Room, Inserts
<1>5. CASE Finish(r)
  <2>1. Moved(r, At("over", None, None, None, None, None))
    BY <1>5, Ends
  <2>2. HasRoom(r)'
    BY <2>1 DEF Moved, At, HasRoom, Inserts
  <2> QED BY <1>2, <1>4, <2>1, <2>2 DEF Moved
<1>6. CASE (paid \/ Room(req[r].op)) /\ Goto(r, "insert")
  <2>1. Moved(r, At("insert", req[r].op, req[r].who, req[r].on, req[r].as, req[r].saw))
    BY <1>6, Goes
  <2>2. req'[r].op = req[r].op /\ req'[r].pc = "insert"
    BY <2>1 DEF Moved, At
  <2>3. HasRoom(r)'
    BY <1>1, <1>3, <1>6, <2>2 DEF HasRoom, Room, Inserts
  <2> QED BY <1>2, <1>4, <2>1, <2>3 DEF Moved
<1> QED BY <1>2, <1>5, <1>6 DEF EnsureQuota

LEMMA ProceedsUnchecked ==
    ASSUME Inv, Tables, NEW r \in Requests, RoutingProceed(r), ~ EnsureQuota(r)
    PROVE  Unchecked /\ Told
<1> USE DEF routingVars, owned
<1>1. ASSUME NEW pc \in {"native", "write", "parent", "lookup", "store"},
             Goto(r, pc) \/ Finish(r) \/ \E x : Keep(r, x, pc)
      PROVE  Unchecked
  BY <1>1, GoesUnchecked
<1>2. Finish(r) => Unchecked
  BY <1>1
<1>3. CASE ReadParent(r)
  BY <1>1, <1>3, CountsStay DEF ReadParent
<1>4. CASE NativeAvailable(r)
  <2>1. Told
    BY <1>4, CountsStay DEF NativeAvailable
  <2>2. CASE Goto(r, "write") \/ Finish(r)
    BY <1>1, <2>1, <2>2
  <2>3. CASE Goto(r, "insert") /\ req[r].op = "hook"
    <3>1. Moved(r, At("insert", "hook", req[r].who, req[r].on, req[r].as, req[r].saw))
      BY <2>3, Goes
    <3>2. Unchecked
      BY <3>1 DEF Moved, At, Unchecked, Inserts, Resources
    <3> QED BY <2>1, <3>2
  <2> QED BY <1>4, <2>2, <2>3 DEF NativeAvailable, Inv, Tied
<1>5. CASE InsertRule(r) \/ InsertDomain(r) \/ InsertKey(r) \/ WriteStatus(r)
  BY <1>5, InsertRuleGrows, InsertDomainGrows, InsertKeyGrows, WriteStatusGrows
<1>6. CASE ReadRule(r)
  BY <1>1, <1>6, CountsStay DEF ReadRule
<1>7. CASE WriteRule(r)
  <2>1. Tables' /\ \A k \in Ids : rule'[k] # None => rule[k] # None
    BY <1>7 DEF WriteRule, Inv, Domains, Tables
  <2> QED BY <1>2, <1>7, <2>1, CountsShrink DEF WriteRule
<1>8. CASE ResolveHost(r)
  BY <1>1, <1>8, CountsStay DEF ResolveHost
<1>9. CASE Lookup(r) \/ Pick(r)
  BY <1>1, <1>9, CountsStay DEF Lookup, Default, Pick
<1>10. CASE Store(r) \/ Abandon(r)
  BY <1>2, <1>10, CountsStay DEF Store, Abandon
<1> QED BY <1>3, <1>4, <1>5, <1>6, <1>7, <1>8, <1>9, <1>10 DEF RoutingProceed

\* The steps outside Routing change nothing that is counted.
LEMMA OutsideUnchecked ==
    ASSUME Inv, Tables, NEW r \in Requests, HooksStep(r) \/ (PasskeysStep(r) /\ UNCHANGED routingVars)
    PROVE  Unchecked /\ Told /\ UNCHANGED <<rule, domain, key>>
<1>1. ASSUME NEW pc \in {"next", "post", "log", "rows", "count"},
             Goto(r, pc) \/ Finish(r) \/ \E x : Keep(r, x, pc)
      PROVE  Unchecked
  BY <1>1, GoesUnchecked
<1>2. CASE HooksStep(r)
  <2>1. Told /\ UNCHANGED <<rule, domain, key>>
    BY <1>2, CountsStay DEF HooksStep, Notify, SelectHooks, NextHook, PostHook, LogHook,
       routingVars, owned
  <2>2. ASSUME NEW source, NEW trigger, Notify(r, source, trigger)
        PROVE  Unchecked
    BY <2>2, EntersUnchecked DEF Notify
  <2>3. CASE SelectHooks(r)
    BY <1>1, <2>1, <2>3 DEF SelectHooks
  <2>4. CASE NextHook(r)
    BY <1>1, <2>1, <2>4 DEF NextHook
  <2>5. CASE PostHook(r)
    <3>1. \E x : Keep(r, x, "post") \/ Keep(r, x, "log")
      BY <2>5 DEF PostHook
    <3> QED BY <1>1, <2>1, <3>1
  <2>6. CASE LogHook(r)
    BY <1>1, <2>1, <2>6 DEF LogHook
  <2> QED BY <1>2, <2>1, <2>2, <2>3, <2>4, <2>5, <2>6 DEF HooksStep
<1>3. CASE PasskeysStep(r) /\ UNCHANGED routingVars
  <2>1. Told /\ UNCHANGED <<rule, domain, key>>
    BY <1>3, CountsStay DEF routingVars, owned
  <2>2. ASSUME NEW e, NEW k, Register(r, e, k)
        PROVE  Unchecked
    BY <2>2, EntersUnchecked DEF Register
  <2>3. ASSUME NEW k, DeletePasskey(r, k) \/ Login(r, k)
        PROVE  Unchecked
    BY <2>3, EntersUnchecked DEF DeletePasskey, Login, Once
  <2>4. CASE SaveKey(r) \/ WriteCount(r) \/ ReadKeys(r)
    BY <1>1, <2>1, <2>4 DEF SaveKey, WriteCount, ReadKeys
  <2>5. CASE Sign(r)
    <3>1. DOMAIN req = Requests /\ Shaped(req[r])
      BY DEF Inv, Domains, Tied
    <3> DEFINE n == uses[req[r].on] + 1
    <3>2. req'[r] = [req[r] EXCEPT !.as = n, !.pc = "rows"] /\ \A s \in Requests \ {r} : req'[s] = req[s]
      BY <2>5, <3>1 DEF Sign
    <3>3. req'[r].pc = "rows"
      BY <3>1, <3>2 DEF Shaped, At
    <3> QED BY <2>1, <3>2, <3>3 DEF Unchecked, Inserts
  <2> QED BY <1>3, <2>1, <2>2, <2>3, <2>4, <2>5 DEF PasskeysStep
<1> QED BY <1>2, <1>3

\* The plan ends, or another month begins.
LEMMA EnvironmentTells ==
    ASSUME Inv, Tables, Environment
    PROVE  Unchecked /\ Told /\ Remembered /\ UNCHANGED <<rule, domain, key>>
<1>1. UNCHANGED <<req, rule, domain, key>>
  BY DEF Environment, PlanEnds, NewPeriod, owned
<1>2. Unchecked
  BY <1>1 DEF Unchecked
<1>3. CASE PlanEnds
  <2> DEFINE relying == {s \in Requests : "plan" \in Reads(req[s].op)}
  <2>1. Overtake(None, relying) /\ overtaken \in [Requests -> BOOLEAN]
    BY <1>3 DEF PlanEnds, Note, Inv, Domains
  <2>2. ASSUME NEW s \in Requests, req[s].op \in Resources
        PROVE  s \in relying
    <3>1. Reads(req[s].op) = {req[s].op, "plan"}
      BY <2>2 DEF Reads, Resources
    <3> QED BY <3>1
  <2> HIDE DEF relying
  <2>5. Remembered /\ \A s \in Requests : Busy(s) /\ req[s].op \in Resources => overtaken'[s]
    BY <2>1, <2>2, Overtakes, RequestsAssumption
  <2>3. \A s \in Requests : Inserts(req'[s]) => overtaken'[s]
    BY <1>1, <2>5 DEF Inserts, Busy
  <2>4. \A resource \in Resources : Counted(resource)' = Counted(resource)
    BY <1>1 DEF Counted, Resources
  <2> QED BY <1>1, <1>2, <2>3, <2>4, <2>5 DEF Told, Tables
<1>4. CASE NewPeriod
  <2>1. Told /\ Remembered
    BY <1>1, <1>4, CountsStay, NobodyOvertaken DEF NewPeriod
  <2> QED BY <1>1, <1>2, <2>1
<1> QED BY <1>3, <1>4 DEF Environment

Quotas == Tables /\ \A s \in Requests : HasRoom(s)

LEMMA NextQuotas ==
    ASSUME IsFiniteSet(Olds), IsFiniteSet(Requests), Inv, Quotas, [Next]_vars
    PROVE  Quotas'
<1>1. ASSUME Unchecked, Told, Remembered
      PROVE  Quotas'
  BY <1>1, RoomKept DEF Quotas, Told
<1>2. CASE Environment
  BY <1>1, <1>2, EnvironmentTells DEF Quotas
<1>3. ASSUME NEW r \in Requests, RoutingArrive(r)
      PROVE  Quotas'
  BY <1>1, <1>3, ArrivesAway, ArrivesUnchecked DEF Quotas
<1>4. ASSUME NEW r \in Requests, RoutingProceed(r), ~ EnsureQuota(r)
      PROVE  Quotas'
  BY <1>1, <1>4, ProceedsAway, ProceedsUnchecked DEF Quotas
<1>5. ASSUME NEW r \in Requests, EnsureQuota(r)
      PROVE  Quotas'
  BY <1>5, EnsureQuotaChecks DEF Quotas, Told
<1>6. ASSUME NEW r \in Requests, HooksStep(r)
      PROVE  Quotas'
  BY <1>1, <1>6, NotifiesAway, OutsideUnchecked DEF Quotas
<1>7. ASSUME NEW r \in Requests, PasskeysStep(r), UNCHANGED <<routingVars, hookVars>>
      PROVE  Quotas'
  <2>1. Remembered
    BY <1>7, NobodyOvertaken, Overtakes
       DEF PasskeysStep, Register, SaveKey, DeletePasskey, Login, Sign, ReadKeys, WriteCount,
           NoteKeys, Inv, Domains
  <2> QED BY <1>1, <1>7, <2>1, OutsideUnchecked DEF Quotas
<1>8. CASE UNCHANGED vars
  <2>1. Unchecked /\ Told /\ Remembered
    BY <1>8, CountsStay, NobodyOvertaken DEF vars, routingVars, owned, Unchecked, Quotas
  <2> QED BY <1>1, <2>1
<1> QED BY <1>2, <1>3, <1>4, <1>5, <1>6, <1>7, <1>8 DEF Next

\* What makes a count grow is the insertion of a row, or a verification.
LEMMA Growers ==
    ASSUME Inv, Quotas, [Next]_vars, NEW resource \in Resources,
           ~ (Counted(resource)' \subseteq Counted(resource))
    PROVE  \E r \in Requests : Grown(r, resource)
<1>1. UNCHANGED <<rule, domain, key>> => Counted(resource)' = Counted(resource)
  BY DEF Counted, Resources
<1>2. ~ Environment /\ ~ UNCHANGED vars
  BY <1>1, EnvironmentTells DEF vars, routingVars, owned, Quotas
<1>3. \A r \in Requests : ~ HooksStep(r) /\ ~ (PasskeysStep(r) /\ UNCHANGED routingVars)
  BY <1>1, OutsideUnchecked DEF Quotas
<1>4. PICK r \in Requests : RoutingArrive(r) \/ RoutingProceed(r)
  BY <1>2, <1>3 DEF Next
<1>5. ASSUME RoutingArrive(r)
      PROVE  FALSE
  <2>1. UNCHANGED <<rule, domain, key>>
        \/ \E k : DeleteRule(r, k)
        \/ \E i \in Ids : DeleteDomain(r, i) \/ RevokeToken(r, i)
    BY <1>5 DEF RoutingArrive, Create, CreateHook, UpdateRule, Send, SaveDestination,
       VerifyDomain, Ingest, routingVars, owned
  <2>2. ASSUME NEW k, DeleteRule(r, k)
        PROVE  FALSE
    <3>1. \A i \in Ids : rule'[i] \in {None, rule[i]}
      BY <2>2 DEF DeleteRule
    <3> QED BY <2>2, <3>1 DEF DeleteRule, Counted, Resources
  <2>3. ASSUME NEW i \in Ids, DeleteDomain(r, i)
        PROVE  FALSE
    <3>1. \A j \in Ids : domain'[j] \in {None, domain[j]}
      BY <2>3 DEF DeleteDomain, Quotas, Tables
    <3> QED BY <2>3, <3>1 DEF DeleteDomain, Counted, Resources
  <2>4. ASSUME NEW i \in Ids, RevokeToken(r, i)
        PROVE  FALSE
    <3>1. \A j \in Ids : key'[j] = "valid" => key[j] = "valid"
      BY <2>4 DEF RevokeToken, Quotas, Tables
    <3> QED BY <2>4, <3>1 DEF RevokeToken, Counted, Resources
  <2> QED BY <1>1, <2>1, <2>2, <2>3, <2>4
<1>6. ~ WriteRule(r)
  <2> SUFFICES ASSUME WriteRule(r)
               PROVE  FALSE
    OBVIOUS
  <2>1. \A k \in Ids : rule'[k] # None => rule[k] # None
    BY DEF WriteRule, Inv, Domains
  <2> QED BY <2>1 DEF WriteRule, Counted, Resources
<1>7. InsertRule(r) \/ InsertDomain(r) \/ InsertKey(r) \/ WriteStatus(r)
  BY <1>1, <1>4, <1>5, <1>6 DEF RoutingProceed, EnsureQuota, ReadParent, NativeAvailable, ReadRule,
     ResolveHost, Lookup, Pick, Store, Abandon, routingVars, owned
<1> QED BY <1>7, InsertRuleGrows, InsertDomainGrows, InsertKeyGrows, WriteStatusGrows DEF Quotas

LEMMA QuotaHolds ==
    ASSUME IsFiniteSet(Olds), IsFiniteSet(Requests), Inv, Quotas, [Next]_vars,
           NEW resource \in Resources, ~paid,
           Count(resource)' > Count(resource), Count(resource)' > Limit[resource]
    PROVE  \E r \in Requests : Acts(r) /\ (overtaken[r] \/ req[r].op \in {"hook", "verify"})
<1>1. /\ Count(resource) \in Nat /\ Count(resource)' \in Nat /\ Limit[resource] \in Nat
      /\ IsFiniteSet(Counted(resource))
  BY CountFinite
<1>2. ASSUME NEW S, Counted(resource)' \subseteq S, IsFiniteSet(S)
      PROVE  Count(resource)' <= Cardinality(S)
  <2>1. Cardinality(Counted(resource)') <= Cardinality(S)
    BY <1>2, FS_Subset
  <2> QED BY <2>1, CountOf
<1>3. Count(resource) = Cardinality(Counted(resource))
  BY CountOf
<1>4. ~ (Counted(resource)' \subseteq Counted(resource))
  BY <1>1, <1>2, <1>3
<1>5. PICK r \in Requests : Grown(r, resource)
  BY <1>4, Growers
<1>6. Acts(r)
  BY <1>5 DEF Grown, Acts
<1>7. CASE req[r].pc = "dns"
  BY <1>6, <1>7 DEF Quotas, HasRoom
<1>8. CASE req[r].pc = "insert" /\ req[r].op = resource
  <2> SUFFICES ASSUME ~overtaken[r]
               PROVE  FALSE
    BY <1>6
  <2>1. Count(resource) < Limit[resource]
    BY <1>8 DEF Quotas, HasRoom, Inserts, Room
  <2>2. Counted(resource)' \subseteq Counted(resource) \cup {r}
    BY <1>5, <1>8 DEF Grown
  <2>3. /\ IsFiniteSet(Counted(resource) \cup {r})
        /\ Cardinality(Counted(resource) \cup {r}) <= Cardinality(Counted(resource)) + 1
    <3>1. /\ IsFiniteSet(Counted(resource) \cup {r})
          /\ \/ Cardinality(Counted(resource) \cup {r}) = Cardinality(Counted(resource))
             \/ Cardinality(Counted(resource) \cup {r}) = Cardinality(Counted(resource)) + 1
      BY <1>1, FS_AddElement
    <3> QED BY <1>1, <1>3, <3>1
  <2>4. Count(resource)' <= Cardinality(Counted(resource) \cup {r})
    BY <1>2, <2>2, <2>3
  <2>5. Cardinality(Counted(resource) \cup {r}) \in Nat
    BY <2>3, FS_CardinalityType
  <2> QED BY <1>1, <1>3, <2>1, <2>3, <2>4, <2>5
<1> QED BY <1>5, <1>6, <1>7, <1>8 DEF Grown

\* A quota of the free plan is passed only by a request that was overtaken
\* between its check and its insertion, by a hook or by a verification: for any
\* limits and any number of requests.
THEOREM QuotasKept ==
    ASSUME IsFiniteSet(Olds), IsFiniteSet(Requests)
    PROVE  Spec => QuotaKept
<1>1. Init => Quotas
  BY DEF Init, HandlerInit, Idle, Quotas, Tables, HasRoom, Inserts
<1>2. Inv /\ Quotas /\ [Next]_vars => Quotas'
  BY NextQuotas
<1>3. ASSUME Inv, Quotas, [Next]_vars
      PROVE  \A resource \in Resources :
                ~paid /\ Count(resource)' > Count(resource) /\ Count(resource)' > Limit[resource] =>
                    \E r \in Requests : Acts(r) /\ (overtaken[r] \/ req[r].op \in {"hook", "verify"})
  BY <1>3, QuotaHolds
<1> QED BY InitInv, NextInv, <1>1, <1>2, <1>3, PTL DEF Spec, QuotaKept

-----------------------------------------------------------------------------
(***************************************************************************)
(* The log of the hooks.  What a run has sent to the hook it is at is what  *)
(* it is about to log, and those it has not come to have neither got          *)
(* anything from it nor a row.                                             *)
(***************************************************************************)
Logged(r, k) == \E row \in hookLog : row.by = r /\ row.hook = k
Untold(r, k) == posted[r][k] = [sent |-> 0, ok |-> 0] /\ ~Logged(r, k)

Report(r) ==
    LET q == req[r]  job == q.saw
    IN  /\ q.pc \in {"idle", "select"} => \A k \in Ids : Untold(r, k)
        /\ q.pc = "next" => DOMAIN job.via \subseteq Ids /\ \A k \in DOMAIN job.via : Untold(r, k)
        /\ q.pc \in {"post", "log"} =>
              /\ DOMAIN job.via \subseteq Ids /\ job.at \in DOMAIN job.via
              /\ \A k \in DOMAIN job.via \ {job.at} : Untold(r, k)
              /\ ~Logged(r, job.at)
              /\ posted[r][job.at].sent = job.attempts
        /\ q.pc = "post" =>
              /\ job.status = "failed" /\ job.attempts \in 0..(MaxPosts - 1)
              /\ posted[r][job.at].ok = 0
        /\ q.pc = "log" =>
              /\ job.status \in {"skipped", "delivered", "failed"} /\ job.attempts \in 0..MaxPosts
              /\ job.status = "skipped" <=> job.attempts = 0
              /\ job.status = "delivered" <=> posted[r][job.at].ok = 1

Reports ==
    /\ posted \in [Requests -> [Ids -> [sent : Nat, ok : 0..1]]]
    /\ hookLog \subseteq LogRow
    /\ LogTrue
    /\ \A r \in Requests : Report(r)

LEMMA ReportStays ==
    ASSUME NEW s \in Requests, Report(s), req'[s] = req[s],
           \A k \in Ids : posted'[s][k] = posted[s][k],
           \A row \in hookLog' : row.by = s => row \in hookLog
    PROVE  Report(s)'
<1>1. \A k \in Ids : (Untold(s, k) => Untold(s, k)') /\ (~Logged(s, k) => ~Logged(s, k)')
  BY DEF Untold, Logged
<1> QED BY <1>1 DEF Report

\* Rows may go with their hook, while no run is anywhere else than before.
LEMMA ReportsAway ==
    ASSUME Reports, Away(HookPcs), UNCHANGED posted, hookLog' \subseteq hookLog
    PROVE  Reports'
<1>1. ASSUME NEW s \in Requests, req'[s] = req[s]
      PROVE  Report(s)'
  BY <1>1, ReportStays DEF Reports
<1>2. ASSUME NEW s \in Requests, req'[s].pc \notin HookPcs
      PROVE  Report(s)'
  BY <1>2 DEF Report, HookPcs
<1>3. LogTrue'
  BY DEF Reports, LogTrue
<1> QED BY <1>1, <1>2, <1>3 DEF Reports, Away

\* A run reads or moves on, and neither tells a hook nor logs.
LEMMA ReportsMove ==
    ASSUME Reports, UNCHANGED hookVars, NEW r \in Requests, NEW q, Moved(r, q), Report(r)'
    PROVE  Reports'
<1>1. \A s \in Requests : Report(s)'
  BY ReportStays DEF Reports, Moved, hookVars
<1> QED BY <1>1 DEF Reports, LogTrue, hookVars

LEMMA NotifyReports ==
    ASSUME Inv, Reports, NEW r \in Requests, NEW source, NEW trigger, Notify(r, source, trigger)
    PROVE  Reports'
<1>1. UNCHANGED hookVars /\ req[r].pc = "idle"
  BY DEF Notify, Enter, Idle
<1>2. Moved(r, At("select", "notify", None, source, trigger, None))
  BY Enters DEF Notify
<1>3. \A k \in Ids : Untold(r, k)'
  BY <1>1 DEF Reports, Report, Untold, Logged, hookVars
<1>4. Report(r)'
  BY <1>2, <1>3 DEF Report, Moved, At
<1> QED BY <1>1, <1>2, <1>4, ReportsMove

LEMMA SelectHooksReports ==
    ASSUME Inv, Reports, NEW r \in Requests, SelectHooks(r)
    PROVE  Reports'
<1>1. UNCHANGED hookVars /\ req[r].pc = "select"
  BY DEF SelectHooks
<1> DEFINE found == {k \in Ids : Wants(k, req[r].on, req[r].as)}
           via   == [k \in found |-> rule[k].via]
<1>2. Moved(r, At("next", req[r].op, req[r].who, req[r].on, req[r].as, Job(via, None, None, 0)))
  BY Keeps DEF SelectHooks, Job
<1>3. DOMAIN via \subseteq Ids
  OBVIOUS
<1> HIDE DEF via
<1>4. \A k \in Ids : Untold(r, k)'
  BY <1>1 DEF Reports, Report, Untold, Logged, hookVars
<1>5. req'[r].pc = "next" /\ req'[r].saw.via = via
  BY <1>2 DEF Moved, At, Job
<1>6. Report(r)'
  BY <1>3, <1>4, <1>5 DEF Report
<1> QED BY <1>1, <1>2, <1>6, ReportsMove

LEMMA NextHookReports ==
    ASSUME Inv, Reports, NEW r \in Requests, NextHook(r)
    PROVE  Reports'
<1>1. UNCHANGED hookVars /\ req[r].pc = "next" /\ Report(r)
  BY DEF NextHook, Reports
<1> DEFINE via == req[r].saw.via
<1>2. DOMAIN via \subseteq Ids /\ \A k \in DOMAIN via : Untold(r, k)
  BY <1>1 DEF Report
<1>3. CASE Finish(r)
  <2>1. Moved(r, At("over", None, None, None, None, None))
    BY <1>3, Ends
  <2>2. Report(r)'
    BY <2>1 DEF Moved, At, Report
  <2> QED BY <1>1, <2>1, <2>2, ReportsMove
<1>4. ASSUME NEW k \in DOMAIN via, NEW status, NEW pc,
             <<status, pc>> \in {<<"skipped", "log">>, <<"failed", "post">>},
             Keep(r, Job(via, k, status, 0), pc)
      PROVE  Reports'
  <2>1. Moved(r, At(pc, req[r].op, req[r].who, req[r].on, req[r].as, Job(via, k, status, 0)))
    BY <1>4, Keeps
  <2>2. PICK v : v = via
    OBVIOUS
  <2>3. req'[r].pc = pc /\ req'[r].saw = Job(v, k, status, 0)
    BY <2>1, <2>2 DEF Moved, At
  <2>4. DOMAIN v \subseteq Ids /\ \A i \in DOMAIN v : Untold(r, i)' /\ posted'[r][i] = [sent |-> 0, ok |-> 0]
    BY <1>1, <1>2, <2>2 DEF Untold, Logged, hookVars
  <2>5. Report(r)'
    BY <1>4, <2>2, <2>3, <2>4 DEF Report, Job, MaxPosts, Untold
  <2> QED BY <1>1, <2>1, <2>5, ReportsMove
<1>5. req[r].pc = "next" /\ req[r].saw = Job(req[r].saw.via, req[r].saw.at, req[r].saw.status, req[r].saw.attempts)
  BY <1>1 DEF Inv, Tied
<1>6. ASSUME NEW k \in DOMAIN via, NEW status, NEW job, job = [req[r].saw EXCEPT !.at = k, !.attempts = 0]
      PROVE  [job EXCEPT !.status = status] = Job(via, k, status, 0) /\ job.via = via
  BY <1>5, <1>6, JobAt
<1>7. ASSUME NEW k \in DOMAIN via, Keep(r, Job(via, k, "skipped", 0), "log")
      PROVE  Reports'
  BY <1>4, <1>7
<1>8. ASSUME NEW k \in DOMAIN via, Keep(r, Job(via, k, "failed", 0), "post")
      PROVE  Reports'
  BY <1>4, <1>8
<1> QED BY <1>3, <1>6, <1>7, <1>8 DEF NextHook

LEMMA PostHookReports ==
    ASSUME Inv, Reports, NEW r \in Requests, PostHook(r)
    PROVE  Reports'
<1>1. UNCHANGED hookLog /\ req[r].pc = "post" /\ Report(r)
  BY DEF PostHook, Reports
<1> DEFINE old == req[r].saw
           job == [old EXCEPT !.attempts = @ + 1]
<1>2. PICK ok \in BOOLEAN :
        /\ posted' = [posted EXCEPT ![r][job.at] = [sent |-> @.sent + 1, ok |-> @.ok + (IF ok THEN 1 ELSE 0)]]
        /\ Keep(r, IF ok THEN [job EXCEPT !.status = "delivered"] ELSE job,
                IF ok \/ job.attempts = MaxPosts THEN "log" ELSE "post")
  BY DEF PostHook
<1>3. PICK via, at, n : old = Job(via, at, "failed", n)
  BY <1>1 DEF Inv, Tied, Report
<1>4. old.via = via /\ old.at = at /\ old.status = "failed" /\ old.attempts = n
  BY <1>3 DEF Job
<1>5. /\ DOMAIN via \subseteq Ids /\ at \in DOMAIN via /\ at \in Ids
      /\ \A k \in DOMAIN via \ {at} : Untold(r, k)
      /\ ~Logged(r, at) /\ n \in 0..2
      /\ posted[r][at].sent = n /\ posted[r][at].ok = 0
  BY <1>1, <1>4 DEF Report, MaxPosts
<1>6. /\ job = Job(via, at, "failed", n + 1)
      /\ [job EXCEPT !.status = "delivered"] = Job(via, at, "delivered", n + 1)
  BY <1>3, <1>4, JobOnce
<1>7. job.at = at /\ job.attempts = n + 1
  BY <1>6 DEF Job
<1> DEFINE status == IF ok THEN "delivered" ELSE "failed"
           pc     == IF ok \/ n + 1 = MaxPosts THEN "log" ELSE "post"
           row    == [sent |-> n + 1, ok |-> IF ok THEN 1 ELSE 0]
<1>8. Moved(r, At(pc, req[r].op, req[r].who, req[r].on, req[r].as, Job(via, at, status, n + 1)))
  BY <1>2, <1>6, <1>7, Keeps
<1>9. posted' = [posted EXCEPT ![r][at] = row]
  <2>1. posted' = [posted EXCEPT ![r][at] = [sent |-> posted[r][at].sent + 1,
                                             ok |-> posted[r][at].ok + (IF ok THEN 1 ELSE 0)]]
    BY <1>2, <1>7
  <2>2. [sent |-> posted[r][at].sent + 1, ok |-> posted[r][at].ok + (IF ok THEN 1 ELSE 0)] = row
    BY <1>5
  <2> QED BY <2>1, <2>2
<1>10. row \in [sent : Nat, ok : 0..1]
  BY <1>5
<1>11. posted' \in [Requests -> [Ids -> [sent : Nat, ok : 0..1]]]
  BY <1>5, <1>9, <1>10 DEF Reports
<1>12. /\ posted'[r][at] = row
       /\ \A s \in Requests, k \in Ids : s # r \/ k # at => posted'[s][k] = posted[s][k]
  BY <1>5, <1>9 DEF Reports
<1>13. \A s \in Requests \ {r} : Report(s)'
  BY <1>1, <1>8, <1>12, ReportStays DEF Reports, Moved
<1>14. Report(r)'
  <2>1. req'[r].pc = pc /\ req'[r].saw = Job(via, at, status, n + 1)
    BY <1>8 DEF Moved, At
  <2>2. \A k \in DOMAIN via \ {at} : Untold(r, k)'
    BY <1>1, <1>5, <1>12 DEF Untold, Logged
  <2>3. ~Logged(r, at)'
    BY <1>1, <1>5 DEF Logged
  <2> QED BY <1>5, <1>12, <2>1, <2>2, <2>3 DEF Report, Job, MaxPosts
<1>15. LogTrue'
  <2>1. \A k \in hookLog : k.by # r \/ k.hook # at
    BY <1>5 DEF Logged
  <2>2. \A k \in hookLog : k.by \in Requests /\ k.hook \in Ids
    BY DEF Reports, LogRow
  <2>3. \A k \in hookLog : posted'[k.by][k.hook] = posted[k.by][k.hook]
    BY <1>12, <2>1, <2>2
  <2>4. \A s \in Requests, k \in Ids : posted'[s][k].ok <= 1
    BY <1>11
  <2> QED BY <1>1, <2>3, <2>4 DEF Reports, LogTrue
<1> QED BY <1>1, <1>11, <1>13, <1>14, <1>15 DEF Reports

LEMMA LogHookReports ==
    ASSUME Inv, Reports, NEW r \in Requests, LogHook(r)
    PROVE  Reports'
<1>1. UNCHANGED posted /\ req[r].pc = "log" /\ Report(r)
  BY DEF LogHook, Reports
<1> DEFINE job == req[r].saw
           via == [k \in DOMAIN job.via \ {job.at} |-> job.via[k]]
           row == [hook |-> job.at, by |-> r, status |-> job.status, attempts |-> job.attempts]
<1>2. Moved(r, At("next", req[r].op, req[r].who, req[r].on, req[r].as, Job(via, None, None, 0)))
  BY Keeps DEF LogHook, Job
<1>3. hookLog' = hookLog \cup {row} \/ UNCHANGED hookLog
  BY DEF LogHook
<1>4. /\ row \in LogRow /\ DOMAIN via \subseteq Ids
      /\ \A k \in DOMAIN via : k # job.at /\ Untold(r, k)
      /\ ~Logged(r, job.at)
      /\ posted[r][job.at].sent = row.attempts
      /\ row.status = "skipped" <=> row.attempts = 0
      /\ row.status = "delivered" <=> posted[r][job.at].ok = 1
  BY <1>1 DEF Report, LogRow
<1>5. row.by = r /\ row.hook = job.at
  OBVIOUS
<1>6. PICK at, v, new : at = job.at /\ v = via /\ new = row
  OBVIOUS
<1> HIDE DEF via, row
<1>7. \A s \in Requests \ {r} : Report(s)'
  BY <1>1, <1>2, <1>3, <1>5, ReportStays DEF Reports, Moved
<1>8. Report(r)'
  <2>1. req'[r].pc = "next" /\ req'[r].saw.via = v
    BY <1>2, <1>6 DEF Moved, At, Job
  <2>2. \A k \in DOMAIN v : Untold(r, k)'
    BY <1>1, <1>3, <1>4, <1>5, <1>6 DEF Untold, Logged
  <2> QED BY <1>4, <1>6, <2>1, <2>2 DEF Report
<1>9. LogTrue'
  <2>1. \A other \in hookLog : other.by # new.by \/ other.hook # new.hook
    BY <1>4, <1>5, <1>6 DEF Logged
  <2>2. /\ new.attempts = posted[new.by][new.hook].sent
        /\ new.status = "skipped" <=> posted[new.by][new.hook].sent = 0
        /\ new.status = "delivered" <=> posted[new.by][new.hook].ok = 1
    BY <1>4, <1>5, <1>6
  <2>3. hookLog' \subseteq hookLog \cup {new}
    BY <1>3, <1>6
  <2> QED BY <1>1, <2>1, <2>2, <2>3 DEF Reports, LogTrue
<1>10. hookLog' \subseteq LogRow
  BY <1>3, <1>4 DEF Reports
<1> QED BY <1>1, <1>7, <1>8, <1>9, <1>10 DEF Reports

LEMMA HooksReport ==
    ASSUME Inv, Reports, NEW r \in Requests, HooksStep(r)
    PROVE  Reports'
BY NotifyReports, SelectHooksReports, NextHookReports, PostHookReports, LogHookReports DEF HooksStep

LEMMA CeremoniesAway ==
    ASSUME Inv, NEW r \in Requests, PasskeysStep(r)
    PROVE  Away(HookPcs)
<1>1. ASSUME NEW e, NEW k, Register(r, e, k) \/ DeletePasskey(r, k) \/ Login(r, k)
      PROVE  Away(HookPcs)
  BY <1>1, EntersAway DEF Register, DeletePasskey, Login, Once, HookPcs
<1>2. ASSUME NEW x, Finish(r) \/ Keep(r, x, "count")
      PROVE  Away(HookPcs)
  BY <1>2, GoesAway DEF HookPcs
<1>3. CASE SaveKey(r) \/ ReadKeys(r) \/ WriteCount(r)
  BY <1>2, <1>3 DEF SaveKey, ReadKeys, WriteCount
<1>4. CASE Sign(r)
  <2>1. At("rows", req[r].op, req[r].who, req[r].on, uses[req[r].on] + 1, req[r].saw).pc \notin HookPcs
    BY DEF At, HookPcs
  <2> QED BY <1>4, <2>1, SignMoves, MovedAway
<1> QED BY <1>1, <1>3, <1>4 DEF PasskeysStep

-----------------------------------------------------------------------------
(***************************************************************************)
(* Types.  What a request carries to a table fits that table.              *)
(***************************************************************************)
Input  == [to : Targets \cup {None}, when : Triggers, via : Ways]
Routes == [source : Sources \cup Ids, target : Targets \cup {Fallback, None}, failed : SUBSET {"rule", "default"}]

\* What a request asks for.
Asked(q) ==
    /\ q.op = "providers" => q.as \in Rule
    /\ q.op = "domains" => q.as \in Hosts
    /\ q.op = "hook" => q.on \in Ids /\ q.as \in Input
    /\ q.op = "send" => q.on \in Ids
    /\ q.op = "ingest" => q.on \in Sources

\* What it has made of that.
Carried(pc, op, saw) ==
    /\ op = "hook" /\ pc \in {"native", "insert"} => saw \in Rule
    /\ op = "edit" /\ pc \in {"parent", "native", "write"} => saw \in Rule
    /\ pc = "store" => saw \in Routes

Fits(r) == (Busy(r) => Asked(req[r])) /\ Carried(req[r].pc, req[r].op, req[r].saw)

Rows ==
    /\ rule \in [Ids -> Rule \cup {None}]
    /\ domain \in [Ids -> Domain \cup {None}]
    /\ key \in [Ids -> {"valid", "revoked", None}]
    /\ paid \in BOOLEAN /\ destination \in BOOLEAN
    /\ used \in 0..EventLimit
    /\ event \in [Requests -> Event \cup {None}]

Typed == Rows /\ \A r \in Requests : Fits(r)

LEMMA TypedStep ==
    ASSUME Typed, Rows', NEW r \in Requests, NEW q, Moved(r, q), Fits(r)'
    PROVE  Typed'
<1>1. ASSUME NEW s \in Requests, s # r
      PROVE  Fits(s)'
  BY <1>1 DEF Typed, Moved, Fits, Busy
<1> QED BY <1>1 DEF Typed

LEMMA RowsStay == Rows /\ UNCHANGED routingVars => Rows'
BY DEF Rows, routingVars, owned

LEMMA FitsNew ==
    ASSUME Inv, NEW r \in Requests, NEW pc, NEW op, NEW who, NEW on, NEW as,
           Enter(r, pc, op, who, on, as), pc = "over" \/ Asked(At(pc, op, who, on, as, None)),
           pc \in {"over", "quota", "read", "dns", "pick", "host", "select", "save", "sign"}
           \/ (op = "hook" /\ pc = "parent")
    PROVE  Moved(r, At(pc, op, who, on, as, None)) /\ Fits(r)'
<1>1. Moved(r, At(pc, op, who, on, as, None))
  BY Enters
<1>2. req'[r] = At(pc, op, who, on, as, None) /\ req'[r].pc = pc /\ req'[r].op = op
  BY <1>1 DEF Moved, At
<1> QED BY <1>1, <1>2 DEF Fits, Carried, Busy

\* A request that is over carries nothing.
LEMMA FitsOver ==
    ASSUME Inv, NEW r \in Requests, Finish(r)
    PROVE  Moved(r, At("over", None, None, None, None, None)) /\ Fits(r)'
<1>1. Moved(r, At("over", None, None, None, None, None))
  BY Ends
<1> QED BY <1>1 DEF Moved, At, Fits, Busy, Carried

LEMMA FitsOn ==
    ASSUME NEW r \in Requests, Fits(r), Busy(r), NEW pc, NEW saw, Carried(pc, req[r].op, saw),
           Moved(r, At(pc, req[r].op, req[r].who, req[r].on, req[r].as, saw))
    PROVE  Fits(r)'
<1>1. /\ req'[r].pc = pc /\ req'[r].op = req[r].op /\ req'[r].on = req[r].on
      /\ req'[r].as = req[r].as /\ req'[r].saw = saw
  BY DEF Moved, At
<1>2. Asked(req[r])
  BY DEF Fits
<1> QED BY <1>1, <1>2 DEF Fits, Asked

LEMMA TypedOn ==
    ASSUME Inv, Typed, Rows', NEW r \in Requests, Busy(r), NEW pc, NEW saw,
           Keep(r, saw, pc) \/ (Goto(r, pc) /\ saw = req[r].saw),
           Carried(pc, req[r].op, saw)
    PROVE  Typed'
<1>1. Moved(r, At(pc, req[r].op, req[r].who, req[r].on, req[r].as, saw))
  BY Goes, Keeps
<1>2. Fits(r)
  BY DEF Typed
<1> QED BY <1>1, <1>2, FitsOn, TypedStep

LEMMA TypedOver ==
    ASSUME Inv, Typed, Rows', NEW r \in Requests, Finish(r)
    PROVE  Typed'
BY FitsOver, TypedStep

LEMMA TypedNew ==
    ASSUME Inv, Typed, Rows', NEW r \in Requests, NEW pc, NEW op, NEW who, NEW on, NEW as,
           Enter(r, pc, op, who, on, as), pc = "over" \/ Asked(At(pc, op, who, on, as, None)),
           pc \in {"over", "quota", "read", "dns", "pick", "host", "select", "save", "sign"}
           \/ (op = "hook" /\ pc = "parent")
    PROVE  Typed'
BY FitsNew, TypedStep

-----------------------------------------------------------------------------
\* The rows a request makes or changes.
LEMMA ProviderRule ==
    ASSUME NEW from \in Sources, NEW to \in Targets \cup {None}
    PROVE  Provider(from, to, TRUE) \in Rule
BY DEF Provider, Rule, Triggers, Ways

LEMMA HookRule ==
    ASSUME NEW k \in Ids, NEW from \in Sources, NEW input \in Input
    PROVE  Hook(k, from, input.to, input.when, input.via) \in Rule
BY DEF Hook, Rule, Input

LEMMA CompletedRule ==
    ASSUME NEW row \in Rule, NEW edit \in Edits
    PROVE  Completed(row, edit) \in Rule
<1>1. CASE edit.field = "from"
  <2>1. edit.value \in Sources /\ [row EXCEPT !.from = edit.value] \in Rule
    BY <1>1 DEF Edits, Rule
  <2> QED BY <1>1, <2>1 DEF Completed
<1>2. CASE edit.field = "to"
  <2>1. edit.value \in Targets /\ [row EXCEPT !.to = edit.value] \in Rule
    BY <1>2 DEF Edits, Rule
  <2> QED BY <1>2, <2>1 DEF Completed
<1>3. CASE edit.field = "on"
  <2>1. edit.value \in BOOLEAN /\ [row EXCEPT !.on = edit.value] \in Rule
    BY <1>3 DEF Edits, Rule
  <2> QED BY <1>3, <2>1 DEF Completed
<1>4. CASE edit.field = "of"
  BY <1>4 DEF Completed, Ignored
<1>5. CASE edit.field = "when"
  <2>1. edit.value \in Triggers /\ [row EXCEPT !.when = edit.value] \in Rule
    BY <1>5 DEF Edits, Rule
  <2> QED BY <1>5, <2>1 DEF Completed
<1>6. CASE edit.field = "via"
  <2>1. edit.value \in Ways /\ [row EXCEPT !.via = edit.value] \in Rule
    BY <1>6 DEF Edits, Rule
  <2>2. [row EXCEPT !.via = "slack", !.to = None] \in Rule
    BY DEF Rule, Ways
  <2> QED BY <1>6, <2>1, <2>2 DEF Completed
<1> QED BY <1>1, <1>2, <1>3, <1>4, <1>5, <1>6 DEF Edits

LEMMA MovedRule ==
    ASSUME NEW row \in Rule, NEW k \in Ids, NEW from \in Sources
    PROVE  [row EXCEPT !.of = k, !.from = from] \in Rule
BY DEF Rule

-----------------------------------------------------------------------------
LEMMA ArrivesTyped ==
    ASSUME Inv, Typed, NEW r \in Requests, RoutingArrive(r)
    PROVE  Typed'
<1>1. Rows /\ r \in Ids
  BY DEF Typed, Ids
<1>2. ASSUME NEW from \in Sources, NEW to \in Targets \cup {None}, Create(r, "providers", Provider(from, to, TRUE))
      PROVE  Typed'
  BY <1>1, <1>2, RowsStay, TypedNew, ProviderRule DEF Create, Asked, At
<1>3. ASSUME NEW h \in Hosts, Create(r, "domains", h)
      PROVE  Typed'
  BY <1>1, <1>3, RowsStay, TypedNew DEF Create, Asked, At
<1>4. ASSUME Create(r, "api_keys", None)
      PROVE  Typed'
  BY <1>1, <1>4, RowsStay, TypedNew DEF Create, Asked, At
<1>5. ASSUME NEW k \in Stored, NEW to \in Targets \cup {None}, NEW when \in Triggers, NEW via \in Ways,
             CreateHook(r, k, to, when, via)
      PROVE  Typed'
  BY <1>1, <1>5, RowsStay, TypedNew DEF CreateHook, Asked, At, Stored, Input
<1>6. ASSUME NEW k \in Stored, NEW edit \in Edits, UpdateRule(r, k, edit)
      PROVE  Typed'
  BY <1>1, <1>6, RowsStay, TypedNew DEF UpdateRule, Asked, At
<1>7. ASSUME NEW k \in Stored, DeleteRule(r, k)
      PROVE  Typed'
  <2>1. Rows'
    BY <1>1, <1>7 DEF DeleteRule, Rows
  <2> QED BY <1>7, <2>1, TypedNew DEF DeleteRule, Once, Asked, At
<1>8. ASSUME NEW k \in Stored, Send(r, k)
      PROVE  Typed'
  BY <1>1, <1>8, RowsStay, TypedNew DEF Send, Asked, At, Stored
<1>9. ASSUME SaveDestination(r, ~destination)
      PROVE  Typed'
  <2>1. destination' \in BOOLEAN
    BY <1>1, <1>9 DEF SaveDestination, Rows
  <2>2. Rows'
    BY <1>1, <1>9, <2>1 DEF SaveDestination, Rows
  <2> QED BY <1>9, <2>2, TypedNew DEF SaveDestination, Once, Asked, At
<1>10. ASSUME NEW i \in Ids, VerifyDomain(r, i)
       PROVE  Typed'
  BY <1>1, <1>10, RowsStay, TypedNew DEF VerifyDomain, Asked, At
<1>11. ASSUME NEW i \in Ids, DeleteDomain(r, i)
       PROVE  Typed'
  <2>1. Rows'
    BY <1>1, <1>11 DEF DeleteDomain, Rows
  <2> QED BY <1>11, <2>1, TypedNew DEF DeleteDomain, Once, Asked, At
<1>12. ASSUME NEW i \in Ids, RevokeToken(r, i)
       PROVE  Typed'
  <2>1. Rows'
    BY <1>1, <1>12 DEF RevokeToken, Rows
  <2> QED BY <1>12, <2>1, TypedNew DEF RevokeToken, Once, Asked, At
<1>13. ASSUME NEW source \in Sources, NEW h \in Hosts \cup {None}, Ingest(r, source, h)
       PROVE  Typed'
  BY <1>1, <1>13, RowsStay, TypedNew DEF Ingest, Asked, At
<1> QED BY <1>2, <1>3, <1>4, <1>5, <1>6, <1>7, <1>8, <1>9, <1>10, <1>11, <1>12, <1>13 DEF RoutingArrive

LEMMA ProceedsTyped ==
    ASSUME Inv, Typed, NEW r \in Requests, RoutingProceed(r)
    PROVE  Typed'
<1>1. Rows /\ r \in Ids /\ Fits(r) /\ Tied(r)
  BY DEF Typed, Ids, Inv
<1>2. ASSUME UNCHANGED routingVars, NEW pc, NEW saw, Busy(r), Carried(pc, req[r].op, saw),
             Keep(r, saw, pc) \/ (Goto(r, pc) /\ saw = req[r].saw)
      PROVE  Typed'
  BY <1>1, <1>2, RowsStay, TypedOn
<1>3. ASSUME UNCHANGED routingVars, Finish(r)
      PROVE  Typed'
  BY <1>1, <1>3, RowsStay, TypedOver
<1>4. CASE EnsureQuota(r)
  <2>1. req[r].op # "hook" /\ Busy(r)
    BY <1>1, <1>4 DEF EnsureQuota, Tied, Resources, Busy
  <2>2. Carried("insert", req[r].op, req[r].saw)
    BY <2>1 DEF Carried
  <2> QED BY <1>2, <1>3, <1>4, <2>1, <2>2 DEF EnsureQuota
<1>5. CASE ReadParent(r)
  <2>1. Busy(r) /\ req[r].pc = "parent" /\ req[r].op \in {"hook", "edit"} /\ UNCHANGED routingVars
    BY <1>1, <1>5 DEF ReadParent, Tied, Busy
  <2> DEFINE parent == IF req[r].op = "edit" THEN req[r].as.value ELSE req[r].on
             row    == IF req[r].op = "edit"
                       THEN [req[r].saw EXCEPT !.of = parent, !.from = rule[parent].from]
                       ELSE Hook(parent, rule[parent].from, req[r].as.to, req[r].as.when, req[r].as.via)
  <2>2. CASE Finish(r)
    BY <1>3, <2>1, <2>2
  <2>3. ASSUME IsProvider(parent), Keep(r, row, "native")
        PROVE  Typed'
    <3>1. parent \in Ids
      BY <1>1, <2>1 DEF Fits, Asked, Tied, Edits
    <3>2. rule[parent].from \in Sources
      BY <1>1, <2>3, <3>1 DEF Rows, IsProvider, Rule
    <3>3. req[r].op = "edit" => req[r].saw \in Rule
      BY <1>1, <2>1 DEF Fits, Carried
    <3>4. req[r].op = "hook" => req[r].as \in Input
      BY <1>1, <2>1 DEF Fits, Asked
    <3>5. row \in Rule
      BY <2>1, <3>1, <3>2, <3>3, <3>4, MovedRule, HookRule
    <3>6. Carried("native", req[r].op, row)
      BY <3>5 DEF Carried
    <3> QED BY <1>2, <2>1, <2>3, <3>6
  <2> QED BY <1>5, <2>2, <2>3 DEF ReadParent
<1>6. CASE NativeAvailable(r)
  <2>1. Busy(r) /\ req[r].pc = "native" /\ req[r].op \in {"hook", "edit"} /\ UNCHANGED routingVars
    BY <1>1, <1>6 DEF NativeAvailable, Tied, Busy
  <2>2. req[r].saw \in Rule
    BY <1>1, <2>1 DEF Fits, Carried
  <2>3. \A pc \in {"write", "insert"} : Carried(pc, req[r].op, req[r].saw)
    BY <2>2 DEF Carried
  <2> QED BY <1>2, <1>3, <1>6, <2>1, <2>3 DEF NativeAvailable
<1>7. CASE InsertRule(r)
  <2>1. req[r].pc = "insert" /\ req[r].op \in {"providers", "hook"} /\ Busy(r) /\ Finish(r)
    BY <1>7 DEF InsertRule, Busy
  <2>2. (IF req[r].op = "hook" THEN req[r].saw ELSE req[r].as) \in Rule
    BY <1>1, <2>1 DEF Fits, Asked, Carried
  <2>3. rule' \in [Ids -> Rule \cup {None}]
    BY <1>1, <1>7, <2>2 DEF InsertRule, Rows
  <2>4. Rows'
    BY <1>1, <1>7, <2>3 DEF InsertRule, Rows
  <2> QED BY <2>1, <2>4, TypedOver
<1>8. CASE InsertDomain(r)
  <2>1. req[r].as \in Hosts /\ Finish(r)
    BY <1>1, <1>8 DEF InsertDomain, Fits, Asked, Busy
  <2>2. [host |-> req[r].as, status |-> "pending"] \in Domain
    BY <2>1 DEF Domain
  <2>3. domain' \in [Ids -> Domain \cup {None}]
    BY <1>1, <1>8, <2>2 DEF InsertDomain, Rows
  <2>4. Rows'
    BY <1>1, <1>8, <2>3 DEF InsertDomain, Rows
  <2> QED BY <2>1, <2>4, TypedOver
<1>9. CASE InsertKey(r)
  <2>1. Rows' /\ Finish(r)
    BY <1>1, <1>9 DEF InsertKey, Rows
  <2> QED BY <2>1, TypedOver
<1>10. CASE ReadRule(r)
  <2>1. /\ Busy(r) /\ req[r].op = "edit" /\ req[r].on \in Ids /\ req[r].as \in Edits
        /\ UNCHANGED routingVars
    BY <1>1, <1>10 DEF ReadRule, Tied, Busy
  <2>2. CASE Finish(r)
    BY <1>3, <2>1, <2>2
  <2>3. ASSUME rule[req[r].on] # None,
               NEW pc \in {"write", "parent", "native"}, Keep(r, Completed(rule[req[r].on], req[r].as), pc)
        PROVE  Typed'
    <3>1. rule[req[r].on] \in Rule
      BY <1>1, <2>1, <2>3 DEF Rows
    <3>2. Completed(rule[req[r].on], req[r].as) \in Rule
      BY <2>1, <3>1, CompletedRule
    <3>3. Carried(pc, req[r].op, Completed(rule[req[r].on], req[r].as))
      BY <3>2 DEF Carried
    <3> QED BY <1>2, <2>1, <2>3, <3>3
  <2> QED BY <1>10, <2>2, <2>3 DEF ReadRule
<1>11. CASE WriteRule(r)
  <2>1. req[r].saw \in Rule /\ req[r].on \in Ids /\ Finish(r)
    BY <1>1, <1>11 DEF WriteRule, Fits, Carried, Tied, Busy
  <2>2. rule' \in [Ids -> Rule \cup {None}]
    BY <1>1, <1>11, <2>1 DEF WriteRule, Rows
  <2>3. Rows'
    BY <1>1, <1>11, <2>2 DEF WriteRule, Rows
  <2> QED BY <2>1, <2>3, TypedOver
<1>12. CASE WriteStatus(r)
  <2>1. PICK status \in {"active", "failed"} :
           domain' = IF domain[req[r].on] # None
                     THEN [domain EXCEPT ![req[r].on].status = status] ELSE domain
    BY <1>12 DEF WriteStatus
  <2>2. ASSUME NEW row \in Domain
        PROVE  [row EXCEPT !.status = status] \in Domain
    BY DEF Domain
  <2>3. domain' \in [Ids -> Domain \cup {None}]
    BY <1>1, <2>1, <2>2 DEF Rows
  <2>4. Rows' /\ Finish(r)
    BY <1>1, <1>12, <2>3 DEF WriteStatus, Rows
  <2> QED BY <2>4, TypedOver
<1>13. CASE ResolveHost(r)
  <2>1. Busy(r) /\ Carried("lookup", req[r].op, req[r].saw)
    BY <1>13 DEF ResolveHost, Busy, Carried
  <2> QED BY <1>2, <1>3, <1>13, <2>1 DEF ResolveHost
<1>14. CASE Lookup(r)
  <2>1. Busy(r) /\ req[r].op = "ingest" /\ req[r].on \in Sources /\ UNCHANGED routingVars
    BY <1>1, <1>14 DEF Lookup, Tied, Fits, Asked, Busy
  <2>2. ASSUME NEW target \in Targets \cup {Fallback, None}, NEW failed \in SUBSET {"rule", "default"},
               Keep(r, Route(req[r].on, target, failed), "store")
        PROVE  Typed'
    <3>1. Route(req[r].on, target, failed) \in Routes
      BY <2>1 DEF Route, Routes
    <3>2. Carried("store", req[r].op, Route(req[r].on, target, failed))
      BY <3>1 DEF Carried
    <3> QED BY <1>2, <2>1, <2>2, <3>2
  <2>3. \A k \in Ids : Serves(k, req[r].on) => rule[k].to \in Targets \cup {Fallback, None}
    BY <1>1 DEF Rows, Rule, Serves, IsProvider
  <2>4. ASSUME NEW failed \in SUBSET {"rule"}, Default(r, req[r].on, failed)
        PROVE  Typed'
    BY <2>2, <2>4 DEF Default
  <2>5. ASSUME NEW k \in Ids, Serves(k, req[r].on), Keep(r, Route(req[r].on, rule[k].to, {}), "store")
        PROVE  Typed'
    BY <2>2, <2>3, <2>5
  <2> QED BY <1>14, <2>4, <2>5 DEF Lookup
<1>15. CASE Pick(r)
  <2>1. Busy(r) /\ req[r].op = "send" /\ req[r].on \in Ids /\ UNCHANGED routingVars
    BY <1>1, <1>15 DEF Pick, Tied, Fits, Asked, Busy
  <2> DEFINE row == rule[req[r].on]
  <2>2. ASSUME row # None, row.to # None, Keep(r, Route(SourceOf(req[r].on), row.to, {}), "store")
        PROVE  Typed'
    <3>1. row \in Rule
      BY <1>1, <2>1, <2>2 DEF Rows
    <3>2. Route(SourceOf(req[r].on), row.to, {}) \in Routes
      BY <2>1, <2>2, <3>1 DEF Route, Routes, Rule, SourceOf
    <3>3. Carried("store", req[r].op, Route(SourceOf(req[r].on), row.to, {}))
      BY <3>2 DEF Carried
    <3> QED BY <1>2, <2>1, <2>2, <3>3
  <2> QED BY <1>3, <1>15, <2>1, <2>2 DEF Pick
<1>16. CASE Store(r)
  <2>1. [source |-> req[r].saw.source, target |-> req[r].saw.target] \in Event
    BY <1>1, <1>16 DEF Store, Fits, Carried, Routes, Event
  <2>2. event' \in [Requests -> Event \cup {None}]
    BY <1>1, <1>16, <2>1 DEF Store, Rows
  <2>3. used' \in 0..EventLimit
    BY <1>1, <1>16, RoutingAssumption DEF Store, Rows, QuotaLeft
  <2>4. Rows' /\ Finish(r)
    BY <1>1, <1>16, <2>2, <2>3 DEF Store, Rows, owned
  <2> QED BY <2>4, TypedOver
<1>17. CASE Abandon(r)
  BY <1>3, <1>17 DEF Abandon
<1> QED BY <1>4, <1>5, <1>6, <1>7, <1>8, <1>9, <1>10, <1>11, <1>12, <1>13, <1>14, <1>15, <1>16,
           <1>17 DEF RoutingProceed

LEMMA HooksTyped ==
    ASSUME Inv, Typed, NEW r \in Requests, HooksStep(r)
    PROVE  Typed'
<1>1. Rows'
  BY RowsStay DEF Typed, HooksStep, Notify, SelectHooks, NextHook, PostHook, LogHook
<1>2. ASSUME NEW source, NEW trigger, Notify(r, source, trigger)
      PROVE  Typed'
  BY <1>1, <1>2, TypedNew DEF Notify, Asked, At
<1>3. ASSUME NEW pc \in {"next", "post", "log"}, Busy(r), req[r].op = "notify", NEW saw, Keep(r, saw, pc)
      PROVE  Typed'
  BY <1>1, <1>3, TypedOn DEF Carried
<1>4. req[r].pc \in {"select", "next", "post", "log"} => Busy(r) /\ req[r].op = "notify"
  BY DEF Inv, Tied, Busy
<1>5. CASE SelectHooks(r)
  BY <1>3, <1>4, <1>5 DEF SelectHooks
<1>6. CASE NextHook(r)
  BY <1>1, <1>3, <1>4, <1>6, TypedOver DEF NextHook
<1>7. CASE PostHook(r)
  <2>1. \E saw : Keep(r, saw, "post") \/ Keep(r, saw, "log")
    BY <1>7 DEF PostHook
  <2> QED BY <1>3, <1>4, <1>7, <2>1 DEF PostHook
<1>8. CASE LogHook(r)
  BY <1>3, <1>4, <1>8 DEF LogHook
<1> QED BY <1>2, <1>5, <1>6, <1>7, <1>8 DEF HooksStep

LEMMA PasskeysTyped ==
    ASSUME Inv, Typed, NEW r \in Requests, PasskeysStep(r), UNCHANGED routingVars
    PROVE  Typed'
<1>1. Rows' /\ Fits(r) /\ Tied(r)
  BY RowsStay DEF Typed, Inv
<1>2. ASSUME NEW e, NEW k, Register(r, e, k)
      PROVE  Typed'
  BY <1>1, <1>2, TypedNew DEF Register, Asked, At
<1>3. ASSUME NEW k, DeletePasskey(r, k)
      PROVE  Typed'
  BY <1>1, <1>3, TypedNew DEF DeletePasskey, Once
<1>4. ASSUME NEW k, Login(r, k)
      PROVE  Typed'
  BY <1>1, <1>4, TypedNew DEF Login, Asked, At
<1>5. CASE SaveKey(r) \/ WriteCount(r)
  BY <1>1, <1>5, TypedOver DEF SaveKey, WriteCount
<1>6. CASE ReadKeys(r)
  <2>1. Busy(r) /\ \A saw : Carried("count", req[r].op, saw)
    BY <1>6 DEF ReadKeys, Busy, Carried
  <2> QED BY <1>1, <1>6, <2>1, TypedOn, TypedOver DEF ReadKeys
<1>7. CASE Sign(r)
  <2>1. Moved(r, At("rows", req[r].op, req[r].who, req[r].on, uses[req[r].on] + 1, req[r].saw))
        /\ req[r].op = "login"
    BY <1>1, <1>7, SignMoves DEF Sign, Tied
  <2>2. Fits(r)'
    BY <2>1 DEF Moved, At, Fits, Asked, Carried
  <2> QED BY <1>1, <2>1, <2>2, TypedStep
<1> QED BY <1>2, <1>3, <1>4, <1>5, <1>6, <1>7 DEF PasskeysStep

-----------------------------------------------------------------------------
LEMMA InitTyped == Init => Typed
<1> SUFFICES ASSUME Init
             PROVE  Typed
  OBVIOUS
<1>1. PICK old \in OldRules : rule = [k \in Ids |-> IF k \in Olds THEN old[k] ELSE None]
  BY DEF Init
<1>2. rule \in [Ids -> Rule \cup {None}]
  BY <1>1, ResourcesAssumption
<1>3. PICK i \in Olds, h \in Hosts, status \in {"active", "failed"} :
          /\ domain = [j \in Ids |-> IF j = i THEN [host |-> h, status |-> status] ELSE None]
          /\ key = [j \in Ids |-> IF j = i THEN "valid" ELSE None]
  BY DEF Init
<1>4. [host |-> h, status |-> status] \in Domain
  BY DEF Domain
<1>5. domain \in [Ids -> Domain \cup {None}] /\ key \in [Ids -> {"valid", "revoked", None}]
  BY <1>3, <1>4
<1>6. used \in 0..EventLimit
  BY RoutingAssumption DEF Init
<1>7. event \in [Requests -> Event \cup {None}] /\ paid \in BOOLEAN /\ destination \in BOOLEAN
  BY DEF Init
<1>8. \A r \in Requests : Fits(r)
  BY DEF Init, HandlerInit, Idle, Fits, Busy, Carried
<1> QED BY <1>2, <1>5, <1>6, <1>7, <1>8 DEF Typed, Rows

LEMMA InitReports == Init => Reports
<1> SUFFICES ASSUME Init
             PROVE  Reports
  OBVIOUS
<1>1. hookLog = {} /\ posted = [r \in Requests |-> [k \in Ids |-> [sent |-> 0, ok |-> 0]]]
  BY DEF Init, HooksInit
<1>2. \A r \in Requests : req[r].pc = "idle"
  BY DEF Init, HandlerInit, Idle
<1>3. \A r \in Requests, k \in Ids : Untold(r, k)
  BY <1>1 DEF Untold, Logged
<1>4. \A r \in Requests : Report(r)
  BY <1>2, <1>3 DEF Report
<1>5. LogTrue
  BY <1>1 DEF LogTrue
<1> QED BY <1>1, <1>4, <1>5 DEF Reports

LEMMA NextTyped ==
    ASSUME Inv, Typed, [Next]_vars
    PROVE  Typed'
<1>1. ASSUME UNCHANGED req, Rows'
      PROVE  Typed'
  BY <1>1 DEF Typed, Fits, Busy
<1>2. CASE Environment
  <2>1. UNCHANGED <<owned, event, req>> /\ used' \in {0, used} /\ paid' \in {FALSE, paid}
    BY <1>2 DEF Environment, PlanEnds, NewPeriod
  <2>2. used' \in 0..EventLimit
    BY <2>1, RoutingAssumption DEF Typed, Rows
  <2>3. paid' \in BOOLEAN
    BY <2>1 DEF Typed, Rows
  <2>4. Rows'
    BY <2>1, <2>2, <2>3 DEF Typed, Rows, owned
  <2> QED BY <1>1, <2>1, <2>4
<1>3. CASE UNCHANGED vars
  BY <1>1, <1>3, RowsStay DEF vars, Typed
<1> QED BY <1>2, <1>3, ArrivesTyped, ProceedsTyped, HooksTyped, PasskeysTyped DEF Next

LEMMA NextReports ==
    ASSUME Inv, Ceremonies, Reports, [Next]_vars
    PROVE  Reports'
<1>1. CASE UNCHANGED <<req, posted>> /\ hookLog' \subseteq hookLog
  BY <1>1, ReportsAway DEF Away
<1>2. CASE Cascade /\ UNCHANGED posted /\ Environment
  BY <1>1, <1>2 DEF Cascade, Environment, PlanEnds, NewPeriod
<1>3. ASSUME NEW r \in Requests, RoutingArrive(r) \/ RoutingProceed(r), Cascade, UNCHANGED posted
      PROVE  Reports'
  <2>1. hookLog' \subseteq hookLog
    BY <1>3 DEF Cascade
  <2> QED BY <1>3, <2>1, ArrivesAway, ProceedsAway, BothAway, ReportsAway
<1>4. ASSUME NEW r \in Requests, PasskeysStep(r), UNCHANGED hookVars
      PROVE  Reports'
  BY <1>4, CeremoniesAway, ReportsAway DEF hookVars
<1>5. CASE UNCHANGED vars
  BY <1>1, <1>5 DEF vars, hookVars
<1> QED BY <1>2, <1>3, <1>4, <1>5, HooksReport DEF Next

\* Every table keeps its type, and the counter of events its limit, whatever
\* requests carry over from rows that have changed since.
THEOREM ResourceTypes == Spec => []TypeOK
<1>1. Init => Inv /\ Ceremonies /\ Typed /\ Reports
  BY InitInv, InitCeremonies, InitTyped, InitReports
<1>2. Inv /\ Ceremonies /\ Typed /\ Reports /\ [Next]_vars => (Inv /\ Ceremonies /\ Typed /\ Reports)'
  BY NextInv, NextCeremonies, NextTyped, NextReports
<1>3. Inv /\ Ceremonies /\ Typed /\ Reports => TypeOK
  BY DEF Inv, Domains, Ceremonies, Typed, Rows, Reports, TypeOK
<1> QED BY <1>1, <1>2, <1>3, PTL DEF Spec

\* The log of the hooks tells of each run and hook once, how often it was told
\* and whether it answered, and whoever has answered is not told again.
THEOREM LogTellsTruth == Spec => []LogTrue
<1>1. Init => Inv /\ Ceremonies /\ Reports
  BY InitInv, InitCeremonies, InitReports
<1>2. Inv /\ Ceremonies /\ Reports /\ [Next]_vars => (Inv /\ Ceremonies /\ Reports)'
  BY NextInv, NextCeremonies, NextReports
<1>3. Reports => LogTrue
  BY DEF Reports
<1> QED BY <1>1, <1>2, <1>3, PTL DEF Spec
=============================================================================
