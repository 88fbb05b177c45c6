--------------------------- MODULE WorkspaceProofs ---------------------------
(***************************************************************************)
(* Proofs about Workspace and SignIn: who is a member and why, and what a     *)
(* request may still rely on of what it has read.                          *)
(***************************************************************************)
EXTENDS SignIn, HandlerProofs, FiniteSetTheorems

Members == member \in [Emails -> Seat \cup {None}]
Letters == invite \in [Invites -> Letter \cup {None}]

\* What a request keeps between two steps still refers to the rows it was read from.
Named(r) ==
    /\ Shaped(req[r])
    /\ req[r].pc \in {"get", "del", "redeem"} => req[r].op = "callback"
    /\ req[r].pc \in {"expire", "sweep", "entitled"} => req[r].op \in {"look", "invite", "resend"}
    /\ req[r].pc \in {"member", "replace", "insert"} => req[r].op = "invite"
    /\ req[r].pc = "rekey" => req[r].op = "resend"
    /\ req[r].pc = "revoke" => req[r].op = "revoke"
    /\ Busy(r) /\ req[r].op = "invite" => req[r].on \in Emails /\ req[r].as \in Roles
    /\ Busy(r) /\ req[r].op \in {"resend", "revoke"} => req[r].on \in Invites
    /\ req[r].pc \in {"admins", "set"} => req[r].on \in Emails /\ In(req[r].on) /\ req[r].as \in Roles
    /\ req[r].pc \in {"mail", "undo"} => req[r].saw.inv \in Invites /\ invite[req[r].saw.inv] # None

\* The same of a sign-in: the invitation found is one of that person.
Invited(r) ==
    /\ req[r].pc \in {"find", "identity", "email", "accept", "link", "join", "found"} =>
          req[r].on \in Identities /\ req[r].op = "callback"
    /\ req[r].pc \in {"identity", "email", "accept", "link", "join"} /\ req[r].saw # None =>
          req[r].saw \in Invites /\ invite[req[r].saw] # None /\ invite[req[r].saw].to = Person(r)
    /\ req[r].pc \in {"accept", "link"} /\ req[r].saw # None => In(Person(r))
    /\ req[r].pc = "join" => req[r].saw # None

Local(r) == Named(r) /\ Invited(r)

Inv ==
    /\ Members /\ Letters
    /\ DOMAIN req = Requests
    /\ \A r \in Requests : Local(r)
    /\ SeatsByInvite

\* No step takes a seat away or rewrites an invitation, and a seat is given
\* exactly when an invitation is accepted.
Grow ==
    /\ Members' /\ Letters'
    /\ \A e \in Emails : In(e) => In(e)'
    /\ \A i \in Invites : invite[i] # None =>
          /\ invite'[i] # None
          /\ invite'[i].to = invite[i].to
          /\ invite[i].accepted => invite'[i].accepted
    /\ \A i \in Invites, e \in Emails : invite'[i] # None /\ invite'[i].accepted /\ invite'[i].to = e =>
          (invite[i] # None /\ invite[i].accepted) \/ In(e)'
    /\ \A e \in Emails : In(e)' =>
          In(e) \/ \E i \in Invites : invite'[i] # None /\ invite'[i].to = e /\ invite'[i].accepted

OneRequest(r) ==
    /\ DOMAIN req' = Requests
    /\ \A s \in Requests \ {r} : req'[s] = req[s]
    /\ Local(r)'

-----------------------------------------------------------------------------
LEMMA GrowKeepsSeats ==
    ASSUME Members, Letters, SeatsByInvite, Grow
    PROVE  SeatsByInvite'
<1>1. ASSUME NEW e \in Emails, In(e)'
      PROVE  e \in Founders \/ \E i \in Invites : invite'[i] # None /\ invite'[i].to = e /\ invite'[i].accepted
  BY <1>1 DEF SeatsByInvite, Grow
<1>2. ASSUME NEW e \in Emails, e \in Founders
      PROVE  In(e)'
  BY <1>2 DEF SeatsByInvite, Grow
<1>3. ASSUME NEW e \in Emails, NEW i \in Invites, invite'[i] # None, invite'[i].to = e, invite'[i].accepted
      PROVE  In(e)'
  <2>1. CASE invite[i] # None /\ invite[i].accepted
    <3>1. invite[i].to = e  BY <1>3, <2>1 DEF Grow
    <3>2. In(e)  BY <2>1, <3>1 DEF SeatsByInvite
    <3> QED BY <3>2 DEF Grow
  <2>2. CASE ~(invite[i] # None /\ invite[i].accepted)
    BY <1>3, <2>2 DEF Grow
  <2> QED BY <2>1, <2>2
<1> QED BY <1>1, <1>2, <1>3 DEF SeatsByInvite

\* What another request keeps survives.
LEMMA OthersKept ==
    ASSUME Members, Letters, Grow, NEW s \in Requests, Local(s), req'[s] = req[s]
    PROVE  Local(s)'
<1>1. Named(s)'
  BY DEF Local, Named, Shaped, Grow, Busy
<1>2. Invited(s)'
  <2>1. req[s].pc \in {"accept", "link"} => EmailOf[req[s].on] \in Emails
    BY WorkspaceAssumption DEF Local, Invited
  <2> QED BY <2>1 DEF Local, Invited, Grow, Person
<1> QED BY <1>1, <1>2 DEF Local

LEMMA RequestStep ==
    ASSUME Inv, NEW r \in Requests, OneRequest(r), Grow
    PROVE  Inv'
<1>1. \A s \in Requests : Local(s)'
  BY OthersKept DEF Inv, OneRequest
<1> QED BY <1>1, GrowKeepsSeats DEF Inv, OneRequest, Grow

LEMMA NothingGrows ==
    ASSUME Members, Letters, UNCHANGED <<member, invite>>
    PROVE  Grow
BY DEF Grow, Members, Letters, In

\* How the helpers of Handler move a request.
LEMMA Goes ==
    ASSUME Inv, NEW r \in Requests, NEW pc, Goto(r, pc)
    PROVE  Moved(r, At(pc, req[r].op, req[r].who, req[r].on, req[r].as, req[r].saw))
BY GotoMoves DEF Inv, Local, Named

LEMMA Keeps ==
    ASSUME Inv, NEW r \in Requests, NEW x, NEW pc, Keep(r, x, pc)
    PROVE  Moved(r, At(pc, req[r].op, req[r].who, req[r].on, req[r].as, x))
BY KeepMoves DEF Inv, Local, Named

LEMMA Enters ==
    ASSUME Inv, NEW r \in Requests, NEW pc, NEW op, NEW who, NEW on, NEW as,
           Enter(r, pc, op, who, on, as)
    PROVE  Moved(r, At(pc, op, who, on, as, None))
BY EnterMoves DEF Inv

\* A request that is over keeps nothing.
LEMMA Ends ==
    ASSUME Inv, NEW r \in Requests, Finish(r)
    PROVE  OneRequest(r)
<1>1. Moved(r, At("over", None, None, None, None, None))
  BY FinishMoves DEF Inv
<1>2. Local(r)'
  BY <1>1 DEF Moved, At, Local, Named, Invited, Shaped, Busy
<1> QED BY <1>1, <1>2 DEF Moved, OneRequest

LEMMA EntitledStep ==
    ASSUME Inv, NEW r \in Requests, Entitled(r)
    PROVE  Inv'
<1>0. UNCHANGED <<member, invite>>
  BY DEF Entitled, tables
<1>1. Local(r) /\ Members /\ Letters
  BY DEF Inv
<1>2. Grow
  BY <1>1, <1>0, NothingGrows
<1> SUFFICES OneRequest(r)
  BY <1>2, RequestStep
<1>3. \/ Goto(r, "member") /\ req[r].pc = "entitled" /\ req[r].op = "invite"
      \/ Goto(r, "rekey") /\ req[r].pc = "entitled" /\ req[r].op \notin {"invite", "look"}
      \/ Finish(r)
  BY <1>1 DEF Entitled, Local, Named
<1>4. CASE Goto(r, "member") /\ req[r].pc = "entitled" /\ req[r].op = "invite"
  <2>1. Moved(r, At("member", req[r].op, req[r].who, req[r].on, req[r].as, req[r].saw))
    BY <1>4, Goes
  <2>2. Local(r)'
    BY <1>1, <1>0, <1>4, <2>1, WorkspaceAssumption DEF Moved, At, Local, Named, Invited, Shaped,
       Busy, Members, Letters, In
  <2> QED BY <2>1, <2>2 DEF Moved, OneRequest
<1>5. CASE Goto(r, "rekey") /\ req[r].pc = "entitled" /\ req[r].op \notin {"invite", "look"}
  <2>1. Moved(r, At("rekey", req[r].op, req[r].who, req[r].on, req[r].as, req[r].saw))
    BY <1>5, Goes
  <2>2. Local(r)'
    BY <1>1, <1>0, <1>5, <2>1, WorkspaceAssumption DEF Moved, At, Local, Named, Invited, Shaped,
       Busy, Members, Letters, In
  <2> QED BY <2>1, <2>2 DEF Moved, OneRequest
<1>6. CASE Finish(r)
  BY <1>6, Ends
<1> QED BY <1>3, <1>4, <1>5, <1>6

LEMMA CountAdminsStep ==
    ASSUME Inv, NEW r \in Requests, CountAdmins(r)
    PROVE  Inv'
<1>0. UNCHANGED <<member, invite>>
  BY DEF CountAdmins, tables
<1>1. Local(r) /\ Members /\ Letters
  BY DEF Inv
<1>2. Grow
  BY <1>1, <1>0, NothingGrows
<1> SUFFICES OneRequest(r)
  BY <1>2, RequestStep
<1>3. \/ Finish(r)
      \/ Goto(r, "set") /\ req[r].pc = "admins"
  BY <1>1 DEF CountAdmins, Local, Named
<1>4. CASE Finish(r)
  BY <1>4, Ends
<1>5. CASE Goto(r, "set") /\ req[r].pc = "admins"
  <2>1. Moved(r, At("set", req[r].op, req[r].who, req[r].on, req[r].as, req[r].saw))
    BY <1>5, Goes
  <2>2. Local(r)'
    BY <1>1, <1>0, <1>5, <2>1, WorkspaceAssumption DEF Moved, At, Local, Named, Invited, Shaped,
       Busy, Members, Letters, In
  <2> QED BY <2>1, <2>2 DEF Moved, OneRequest
<1> QED BY <1>3, <1>4, <1>5

LEMMA AlreadyMemberStep ==
    ASSUME Inv, NEW r \in Requests, AlreadyMember(r)
    PROVE  Inv'
<1>0. UNCHANGED <<member, invite>>
  BY DEF AlreadyMember, tables
<1>1. Local(r) /\ Members /\ Letters
  BY DEF Inv
<1>2. Grow
  BY <1>1, <1>0, NothingGrows
<1> SUFFICES OneRequest(r)
  BY <1>2, RequestStep
<1>3. \/ Finish(r)
      \/ Goto(r, "replace") /\ req[r].pc = "member"
  BY <1>1 DEF AlreadyMember, Local, Named
<1>4. CASE Finish(r)
  BY <1>4, Ends
<1>5. CASE Goto(r, "replace") /\ req[r].pc = "member"
  <2>1. Moved(r, At("replace", req[r].op, req[r].who, req[r].on, req[r].as, req[r].saw))
    BY <1>5, Goes
  <2>2. Local(r)'
    BY <1>1, <1>0, <1>5, <2>1, WorkspaceAssumption DEF Moved, At, Local, Named, Invited, Shaped,
       Busy, Members, Letters, In
  <2> QED BY <2>1, <2>2 DEF Moved, OneRequest
<1> QED BY <1>3, <1>4, <1>5

LEMMA OperatorExistsStep ==
    ASSUME Inv, NEW r \in Requests, OperatorExists(r)
    PROVE  Inv'
<1>0. UNCHANGED <<member, invite>>
  BY DEF OperatorExists, tables
<1>1. Local(r) /\ Members /\ Letters
  BY DEF Inv
<1>2. Grow
  BY <1>1, <1>0, NothingGrows
<1> SUFFICES OneRequest(r)
  BY <1>2, RequestStep
<1>3. \/ Finish(r)
      \/ Goto(r, "promote") /\ req[r].pc = "exists"
  BY <1>1 DEF OperatorExists, Local, Named
<1>4. CASE Finish(r)
  BY <1>4, Ends
<1>5. CASE Goto(r, "promote") /\ req[r].pc = "exists"
  <2>1. Moved(r, At("promote", req[r].op, req[r].who, req[r].on, req[r].as, req[r].saw))
    BY <1>5, Goes
  <2>2. Local(r)'
    BY <1>1, <1>0, <1>5, <2>1, WorkspaceAssumption DEF Moved, At, Local, Named, Invited, Shaped,
       Busy, Members, Letters, In
  <2> QED BY <2>1, <2>2 DEF Moved, OneRequest
<1> QED BY <1>3, <1>4, <1>5

LEMMA PromoteStep ==
    ASSUME Inv, NEW r \in Requests, Promote(r)
    PROVE  Inv'
<1>0. UNCHANGED <<member, invite>>
  BY DEF Promote, tables
<1>1. Local(r) /\ Members /\ Letters
  BY DEF Inv
<1>2. Grow
  BY <1>1, <1>0, NothingGrows
<1> SUFFICES OneRequest(r)
  BY <1>2, RequestStep
<1>3. \/ Finish(r)
  BY <1>1 DEF Promote, Local, Named
<1>4. CASE Finish(r)
  BY <1>4, Ends
<1> QED BY <1>3, <1>4

LEMMA ReadPlanStep ==
    ASSUME Inv, NEW r \in Requests, ReadPlan(r)
    PROVE  Inv'
<1>0. UNCHANGED <<member, invite>>
  BY DEF ReadPlan, tables
<1>1. Local(r) /\ Members /\ Letters
  BY DEF Inv
<1>2. Grow
  BY <1>1, <1>0, NothingGrows
<1> SUFFICES OneRequest(r)
  BY <1>2, RequestStep
<1>3. \/ Keep(r, plan, "write") /\ req[r].pc = "row"
  BY <1>1 DEF ReadPlan, Local, Named
<1>4. CASE Keep(r, plan, "write") /\ req[r].pc = "row"
  <2>1. Moved(r, At("write", req[r].op, req[r].who, req[r].on, req[r].as, plan))
    BY <1>4, Keeps
  <2>2. Local(r)'
    BY <1>1, <1>0, <1>4, <2>1, WorkspaceAssumption DEF Moved, At, Local, Named, Invited, Shaped,
       Busy, Members, Letters, In
  <2> QED BY <2>1, <2>2 DEF Moved, OneRequest
<1> QED BY <1>3, <1>4

LEMMA WritePlanStep ==
    ASSUME Inv, NEW r \in Requests, WritePlan(r)
    PROVE  Inv'
<1>0. UNCHANGED <<member, invite>>
  BY DEF WritePlan, tables
<1>1. Local(r) /\ Members /\ Letters
  BY DEF Inv
<1>2. Grow
  BY <1>1, <1>0, NothingGrows
<1> SUFFICES OneRequest(r)
  BY <1>2, RequestStep
<1>3. \/ Finish(r)
      \/ Goto(r, "close") /\ req[r].pc = "write"
  BY <1>1 DEF WritePlan, Local, Named
<1>4. CASE Finish(r)
  BY <1>4, Ends
<1>5. CASE Goto(r, "close") /\ req[r].pc = "write"
  <2>1. Moved(r, At("close", req[r].op, req[r].who, req[r].on, req[r].as, req[r].saw))
    BY <1>5, Goes
  <2>2. Local(r)'
    BY <1>1, <1>0, <1>5, <2>1, WorkspaceAssumption DEF Moved, At, Local, Named, Invited, Shaped,
       Busy, Members, Letters, In
  <2> QED BY <2>1, <2>2 DEF Moved, OneRequest
<1> QED BY <1>3, <1>4, <1>5

LEMMA ExpireStep ==
    ASSUME Inv, NEW r \in Requests, Expire(r)
    PROVE  Inv'
<1>0. UNCHANGED <<member, invite>>
  BY DEF Expire, tables
<1>1. Local(r) /\ Members /\ Letters
  BY DEF Inv
<1>2. Grow
  BY <1>1, <1>0, NothingGrows
<1> SUFFICES OneRequest(r)
  BY <1>2, RequestStep
<1>3. \/ Goto(r, "sweep") /\ req[r].pc = "expire"
      \/ Goto(r, "entitled") /\ req[r].pc = "expire"
  BY <1>1 DEF Expire, Local, Named
<1>4. CASE Goto(r, "sweep") /\ req[r].pc = "expire"
  <2>1. Moved(r, At("sweep", req[r].op, req[r].who, req[r].on, req[r].as, req[r].saw))
    BY <1>4, Goes
  <2>2. Local(r)'
    BY <1>1, <1>0, <1>4, <2>1, WorkspaceAssumption DEF Moved, At, Local, Named, Invited, Shaped,
       Busy, Members, Letters, In
  <2> QED BY <2>1, <2>2 DEF Moved, OneRequest
<1>5. CASE Goto(r, "entitled") /\ req[r].pc = "expire"
  <2>1. Moved(r, At("entitled", req[r].op, req[r].who, req[r].on, req[r].as, req[r].saw))
    BY <1>5, Goes
  <2>2. Local(r)'
    BY <1>1, <1>0, <1>5, <2>1, WorkspaceAssumption DEF Moved, At, Local, Named, Invited, Shaped,
       Busy, Members, Letters, In
  <2> QED BY <2>1, <2>2 DEF Moved, OneRequest
<1> QED BY <1>3, <1>4, <1>5

LEMMA MailStep ==
    ASSUME Inv, NEW r \in Requests, Mail(r)
    PROVE  Inv'
<1>0. UNCHANGED <<member, invite>>
  BY DEF Mail, tables
<1>1. Local(r) /\ Members /\ Letters
  BY DEF Inv
<1>2. Grow
  BY <1>1, <1>0, NothingGrows
<1> SUFFICES OneRequest(r)
  BY <1>2, RequestStep
<1>3. \/ Finish(r)
      \/ Goto(r, "undo") /\ req[r].pc = "mail"
  BY <1>1 DEF Mail, Local, Named
<1>4. CASE Finish(r)
  BY <1>4, Ends
<1>5. CASE Goto(r, "undo") /\ req[r].pc = "mail"
  <2>1. Moved(r, At("undo", req[r].op, req[r].who, req[r].on, req[r].as, req[r].saw))
    BY <1>5, Goes
  <2>2. Local(r)'
    BY <1>1, <1>0, <1>5, <2>1, WorkspaceAssumption DEF Moved, At, Local, Named, Invited, Shaped,
       Busy, Members, Letters, In
  <2> QED BY <2>1, <2>2 DEF Moved, OneRequest
<1> QED BY <1>3, <1>4, <1>5

LEMMA FindInviteStep ==
    ASSUME Inv, NEW r \in Requests, FindInvite(r)
    PROVE  Inv'
<1>0. UNCHANGED <<member, invite>>
  BY DEF FindInvite, tables
<1>1. Local(r) /\ Members /\ Letters
  BY DEF Inv
<1>2. Grow
  BY <1>1, <1>0, NothingGrows
<1> SUFFICES OneRequest(r)
  BY <1>2, RequestStep
<1>3. \/ Keep(r, None, "identity") /\ req[r].pc = "find"
      \/ \E i \in Invites : invite[i] # None /\ invite[i].to = Person(r) /\ Keep(r, i, "identity") /\ req[r].pc = "find"
  BY DEF FindInvite, Names, Live, Pending
<1>4. CASE Keep(r, None, "identity") /\ req[r].pc = "find"
  <2>1. Moved(r, At("identity", req[r].op, req[r].who, req[r].on, req[r].as, None))
    BY <1>4, Keeps
  <2>2. Local(r)'
    BY <1>1, <1>0, <1>4, <2>1, WorkspaceAssumption DEF Moved, At, Local, Named, Invited, Shaped,
       Busy, Members, Letters, In
  <2> QED BY <2>1, <2>2 DEF Moved, OneRequest
<1>5. ASSUME NEW i \in Invites, invite[i] # None, invite[i].to = Person(r), Keep(r, i, "identity"), req[r].pc = "find"
      PROVE  OneRequest(r)
  <2>1. Moved(r, At("identity", req[r].op, req[r].who, req[r].on, req[r].as, i))
    BY <1>5, Keeps
  <2>2. Local(r)'
    BY <1>1, <1>0, <1>5, <2>1, WorkspaceAssumption DEF Moved, At, Local, Named, Invited, Shaped,
       Busy, Members, Letters, Person
  <2> QED BY <2>1, <2>2 DEF Moved, OneRequest
<1> QED BY <1>3, <1>4, <1>5

LEMMA ByIdentityStep ==
    ASSUME Inv, NEW r \in Requests, ByIdentity(r)
    PROVE  Inv'
<1>0. UNCHANGED <<member, invite>>
  BY DEF ByIdentity, tables
<1>1. Local(r) /\ Members /\ Letters
  BY DEF Inv
<1>2. Grow
  BY <1>1, <1>0, NothingGrows
<1> SUFFICES OneRequest(r)
  BY <1>2, RequestStep
<1>3. \/ Finish(r)
      \/ Goto(r, "email") /\ req[r].pc = "identity"
      \/ Goto(r, "accept") /\ req[r].pc = "identity" /\ Validate(r)
  BY <1>1 DEF ByIdentity, Local, Named
<1>4. CASE Finish(r)
  BY <1>4, Ends
<1>5. CASE Goto(r, "email") /\ req[r].pc = "identity"
  <2>1. Moved(r, At("email", req[r].op, req[r].who, req[r].on, req[r].as, req[r].saw))
    BY <1>5, Goes
  <2>2. Local(r)'
    BY <1>1, <1>0, <1>5, <2>1, WorkspaceAssumption DEF Moved, At, Local, Named, Invited, Shaped,
       Busy, Members, Letters, In, Validate, Person
  <2> QED BY <2>1, <2>2 DEF Moved, OneRequest
<1>6. CASE Goto(r, "accept") /\ req[r].pc = "identity" /\ Validate(r)
  <2>1. Moved(r, At("accept", req[r].op, req[r].who, req[r].on, req[r].as, req[r].saw))
    BY <1>6, Goes
  <2>2. Local(r)'
    BY <1>1, <1>0, <1>6, <2>1, WorkspaceAssumption DEF Moved, At, Local, Named, Invited, Shaped,
       Busy, Members, Letters, In, Validate, Person
  <2> QED BY <2>1, <2>2 DEF Moved, OneRequest
<1> QED BY <1>3, <1>4, <1>5, <1>6

LEMMA ByEmailStep ==
    ASSUME Inv, NEW r \in Requests, ByEmail(r)
    PROVE  Inv'
<1>0. UNCHANGED <<member, invite>>
  BY DEF ByEmail, tables
<1>1. Local(r) /\ Members /\ Letters
  BY DEF Inv
<1>2. Grow
  BY <1>1, <1>0, NothingGrows
<1> SUFFICES OneRequest(r)
  BY <1>2, RequestStep
<1>3. \/ Finish(r)
      \/ Goto(r, "link") /\ req[r].pc = "email" /\ Validate(r)
      \/ Goto(r, "join") /\ req[r].pc = "email" /\ req[r].saw # None
      \/ Goto(r, "found") /\ req[r].pc = "email"
  BY <1>1 DEF ByEmail, Local, Named
<1>4. CASE Finish(r)
  BY <1>4, Ends
<1>5. CASE Goto(r, "link") /\ req[r].pc = "email" /\ Validate(r)
  <2>1. Moved(r, At("link", req[r].op, req[r].who, req[r].on, req[r].as, req[r].saw))
    BY <1>5, Goes
  <2>2. Local(r)'
    BY <1>1, <1>0, <1>5, <2>1, WorkspaceAssumption DEF Moved, At, Local, Named, Invited, Shaped,
       Busy, Members, Letters, In, Validate, Person
  <2> QED BY <2>1, <2>2 DEF Moved, OneRequest
<1>6. CASE Goto(r, "join") /\ req[r].pc = "email" /\ req[r].saw # None
  <2>1. Moved(r, At("join", req[r].op, req[r].who, req[r].on, req[r].as, req[r].saw))
    BY <1>6, Goes
  <2>2. Local(r)'
    BY <1>1, <1>0, <1>6, <2>1, WorkspaceAssumption DEF Moved, At, Local, Named, Invited, Shaped,
       Busy, Members, Letters, In, Validate, Person
  <2> QED BY <2>1, <2>2 DEF Moved, OneRequest
<1>7. CASE Goto(r, "found") /\ req[r].pc = "email"
  <2>1. Moved(r, At("found", req[r].op, req[r].who, req[r].on, req[r].as, req[r].saw))
    BY <1>7, Goes
  <2>2. Local(r)'
    BY <1>1, <1>0, <1>7, <2>1, WorkspaceAssumption DEF Moved, At, Local, Named, Invited, Shaped,
       Busy, Members, Letters, In, Validate, Person
  <2> QED BY <2>1, <2>2 DEF Moved, OneRequest
<1> QED BY <1>3, <1>4, <1>5, <1>6, <1>7

LEMMA AbandonStep ==
    ASSUME Inv, NEW r \in Requests, Abandon(r)
    PROVE  Inv'
<1>0. UNCHANGED <<member, invite>>
  BY DEF Abandon, tables
<1>1. Local(r) /\ Members /\ Letters
  BY DEF Inv
<1>2. Grow
  BY <1>1, <1>0, NothingGrows
<1> SUFFICES OneRequest(r)
  BY <1>2, RequestStep
<1>3. \/ Finish(r)
  BY <1>1 DEF Abandon, Local, Named
<1>4. CASE Finish(r)
  BY <1>4, Ends
<1> QED BY <1>3, <1>4

LEMMA GetStateStep ==
    ASSUME Inv, NEW r \in Requests, GetState(r)
    PROVE  Inv'
<1>0. UNCHANGED <<member, invite>>
  BY DEF GetState, tables
<1>1. Local(r) /\ Members /\ Letters
  BY DEF Inv
<1>2. Grow
  BY <1>1, <1>0, NothingGrows
<1> SUFFICES OneRequest(r)
  BY <1>2, RequestStep
<1>3. \/ Keep(r, flow[req[r].on].link, "del") /\ req[r].pc = "get"
      \/ Finish(r)
  BY <1>1 DEF GetState, Local, Named
<1>4. CASE Keep(r, flow[req[r].on].link, "del") /\ req[r].pc = "get"
  <2>1. Moved(r, At("del", req[r].op, req[r].who, req[r].on, req[r].as, flow[req[r].on].link))
    BY <1>4, Keeps
  <2>2. Local(r)'
    BY <1>1, <1>0, <1>4, <2>1, WorkspaceAssumption DEF Moved, At, Local, Named, Invited, Shaped,
       Busy, Members, Letters, In
  <2> QED BY <2>1, <2>2 DEF Moved, OneRequest
<1>5. CASE Finish(r)
  BY <1>5, Ends
<1> QED BY <1>3, <1>4, <1>5

LEMMA DelStateStep ==
    ASSUME Inv, NEW r \in Requests, DelState(r)
    PROVE  Inv'
<1>0. UNCHANGED <<member, invite>>
  BY DEF DelState, tables
<1>1. Local(r) /\ Members /\ Letters
  BY DEF Inv
<1>2. Grow
  BY <1>1, <1>0, NothingGrows
<1> SUFFICES OneRequest(r)
  BY <1>2, RequestStep
<1>3. \/ Goto(r, "redeem") /\ req[r].pc = "del"
  BY <1>1 DEF DelState, Local, Named
<1>4. CASE Goto(r, "redeem") /\ req[r].pc = "del"
  <2>1. Moved(r, At("redeem", req[r].op, req[r].who, req[r].on, req[r].as, req[r].saw))
    BY <1>4, Goes
  <2>2. Local(r)'
    BY <1>1, <1>0, <1>4, <2>1, WorkspaceAssumption DEF Moved, At, Local, Named, Invited, Shaped,
       Busy, Members, Letters, In
  <2> QED BY <2>1, <2>2 DEF Moved, OneRequest
<1> QED BY <1>3, <1>4

-----------------------------------------------------------------------------
\* A step that changes flags of invitations, or adds one, but accepts none.
LEMMA RewritingGrows ==
    ASSUME Members, Letters, UNCHANGED member, Letters',
           \A i \in Invites : invite[i] # None =>
               invite'[i] # None /\ invite'[i].to = invite[i].to /\ invite'[i].accepted = invite[i].accepted,
           \A i \in Invites : invite[i] = None => invite'[i] = None \/ invite'[i].accepted = FALSE
    PROVE  Grow
BY DEF Grow, Members, Letters, In

\* A step that changes roles, or seats somebody elsewhere.
LEMMA ReseatingGrows ==
    ASSUME Members, Letters, UNCHANGED invite, Members', \A e \in Emails : In(e) <=> In(e)'
    PROVE  Grow
BY DEF Grow, Letters

LEMMA Marked ==
    ASSUME NEW l, l \in Letter
    PROVE  /\ [l EXCEPT !.revoked = TRUE] \in Letter
           /\ [l EXCEPT !.revoked = TRUE].to = l.to
           /\ [l EXCEPT !.revoked = TRUE].accepted = l.accepted
           /\ [l EXCEPT !.lapsed = TRUE] \in Letter
           /\ [l EXCEPT !.lapsed = TRUE].to = l.to
           /\ [l EXCEPT !.lapsed = TRUE].accepted = l.accepted
           /\ [l EXCEPT !.key = @ + 1, !.lapsed = FALSE] \in Letter
           /\ [l EXCEPT !.key = @ + 1, !.lapsed = FALSE].to = l.to
           /\ [l EXCEPT !.key = @ + 1, !.lapsed = FALSE].accepted = l.accepted
           /\ [l EXCEPT !.accepted = TRUE] \in Letter
           /\ [l EXCEPT !.accepted = TRUE].to = l.to
           /\ [l EXCEPT !.accepted = TRUE].accepted = TRUE
<1>1. [l EXCEPT !.revoked = TRUE] \in Letter  BY DEF Letter
<1>2. [l EXCEPT !.lapsed = TRUE] \in Letter  BY DEF Letter
<1>3. [l EXCEPT !.key = @ + 1, !.lapsed = FALSE] \in Letter
  <2>1. [l EXCEPT !.key = @ + 1] \in Letter  BY DEF Letter
  <2>2. \A m \in Letter : [m EXCEPT !.lapsed = FALSE] \in Letter  BY DEF Letter
  <2> QED BY <2>1, <2>2
<1>4. [l EXCEPT !.accepted = TRUE] \in Letter  BY DEF Letter
<1>5. [l EXCEPT !.revoked = TRUE].to = l.to  BY DEF Letter
<1>6. [l EXCEPT !.revoked = TRUE].accepted = l.accepted  BY DEF Letter
<1>7. [l EXCEPT !.lapsed = TRUE].to = l.to  BY DEF Letter
<1>8. [l EXCEPT !.lapsed = TRUE].accepted = l.accepted  BY DEF Letter
<1>9. [l EXCEPT !.key = @ + 1, !.lapsed = FALSE].to = l.to  BY DEF Letter
<1>10. [l EXCEPT !.key = @ + 1, !.lapsed = FALSE].accepted = l.accepted  BY DEF Letter
<1>11. [l EXCEPT !.accepted = TRUE].to = l.to  BY DEF Letter
<1>12. [l EXCEPT !.accepted = TRUE].accepted = TRUE  BY DEF Letter
<1> QED BY <1>1, <1>2, <1>3, <1>4, <1>5, <1>6, <1>7, <1>8, <1>9, <1>10, <1>11, <1>12

\* Revoking, in an UPDATE of several rows or of one.
LEMMA RevokingGrows ==
    ASSUME Members, Letters, UNCHANGED member, NEW which \in SUBSET Invites, invite' = Revoked(which)
    PROVE  Grow
<1>1. ASSUME NEW i \in Invites, invite[i] # None
      PROVE  invite'[i] \in Letter /\ invite'[i].to = invite[i].to /\ invite'[i].accepted = invite[i].accepted
  <2>1. invite[i] \in Letter  BY <1>1 DEF Letters
  <2> QED BY <2>1, Marked DEF Revoked
<1>2. ASSUME NEW i \in Invites, invite[i] = None
      PROVE  invite'[i] = None
  BY <1>2 DEF Revoked, Pending
<1>3. None \notin Letter  BY WorkspaceAssumption
<1>4. Letters'
  BY <1>1, <1>2 DEF Letters, Revoked
<1> QED BY <1>1, <1>2, <1>3, <1>4, RewritingGrows

LEMMA RevokingPendingGrows ==
    ASSUME Members, Letters, UNCHANGED member, NEW r, RevokePending(r)
    PROVE  Grow
BY RevokingGrows, NothingGrows DEF RevokePending

\* Changing one row.
LEMMA MarkingGrows ==
    ASSUME Members, Letters, UNCHANGED member, NEW i \in Invites, invite[i] # None, NEW l,
           invite' = [invite EXCEPT ![i] = l], l \in Letter, l.to = invite[i].to, l.accepted = invite[i].accepted
    PROVE  Grow
<1>1. Letters'  BY DEF Letters
<1>2. None \notin Letter  BY WorkspaceAssumption
<1> QED BY <1>1, <1>2, RewritingGrows DEF Letters

\* Accepting the invitation of a member.
LEMMA AcceptingGrows ==
    ASSUME Members, Letters, UNCHANGED member, NEW i \in Invites \cup {None}, invite' = Accepted(i),
           i # None => invite[i] # None /\ invite[i].to \in Emails /\ In(invite[i].to)
    PROVE  Grow
<1>1. CASE i = None
  BY <1>1, NothingGrows DEF Accepted
<1>2. CASE i # None
  <2>1. invite[i] \in Letter  BY <1>2 DEF Letters
  <2>2. invite' = [invite EXCEPT ![i] = [invite[i] EXCEPT !.accepted = TRUE]]
    BY <1>2 DEF Accepted, Letters
  <2>3. \A j \in Invites \ {i} : invite'[j] = invite[j]
    BY <2>2 DEF Letters
  <2>4. invite'[i] \in Letter /\ invite'[i].to = invite[i].to /\ invite'[i].accepted = TRUE
    <3>1. invite'[i] = [invite[i] EXCEPT !.accepted = TRUE]
      BY <1>2, <2>2 DEF Letters
    <3>2. \A l : l \in Letter => /\ [l EXCEPT !.accepted = TRUE] \in Letter
                                 /\ [l EXCEPT !.accepted = TRUE].to = l.to
                                 /\ [l EXCEPT !.accepted = TRUE].accepted = TRUE
      BY Marked
    <3>3. PICK l \in Letter : l = invite[i]  BY <2>1
    <3>4. invite'[i] = [l EXCEPT !.accepted = TRUE]  BY <3>1, <3>3
    <3> QED BY <3>2, <3>3, <3>4
  <2>5. Letters'  BY <2>2, <2>4 DEF Letters
  <2>6. None \notin Letter  BY WorkspaceAssumption
  <2>7. \A e \in Emails : In(e)' <=> In(e)  BY DEF In
  <2>8. Members'  BY DEF Members
  <2>9. \A j \in Invites : invite[j] # None =>
            invite'[j] # None /\ invite'[j].to = invite[j].to /\ (invite[j].accepted => invite'[j].accepted)
    BY <2>3, <2>4, <2>6
  <2>10. \A j \in Invites, e \in Emails : invite'[j] # None /\ invite'[j].accepted /\ invite'[j].to = e =>
            (invite[j] # None /\ invite[j].accepted) \/ In(e)'
    BY <1>2, <2>3, <2>4, <2>7
  <2> QED BY <2>5, <2>7, <2>8, <2>9, <2>10 DEF Grow
<1> QED BY <1>1, <1>2

LEMMA Reroled ==
    ASSUME NEW s, s \in Seat, NEW role \in Roles
    PROVE  /\ [s EXCEPT !.role = role] \in Seat
           /\ [s EXCEPT !.role = role].org = s.org
<1>1. [s EXCEPT !.role = role] \in Seat  BY DEF Seat
<1>2. [s EXCEPT !.role = role].org = s.org  BY DEF Seat
<1> QED BY <1>1, <1>2

LEMMA SetRoleReseats ==
    ASSUME Inv, NEW r \in Requests, SetRole(r)
    PROVE  Members' /\ \A f \in Emails : In(f) <=> In(f)'
<1>1. Local(r) /\ Members
  BY DEF Inv
<1> DEFINE e == req[r].on
           role == req[r].as
<1>2. e \in Emails /\ In(e) /\ role \in Roles
  BY <1>1 DEF SetRole, Local, Named
<1>3. member[e] \in Seat
  BY <1>1, <1>2 DEF Members, In
<1>4. member' = [member EXCEPT ![e] = [member[e] EXCEPT !.role = role]]
  BY <1>1, <1>2 DEF SetRole, Members
<1>5. [member[e] EXCEPT !.role = role] \in Seat /\ [member[e] EXCEPT !.role = role].org = member[e].org
  BY <1>2, <1>3, Reroled
<1>6. Members'
  BY <1>1, <1>4, <1>5 DEF Members
<1>7. None \notin Seat
  BY WorkspaceAssumption
<1>8. \A f \in Emails : In(f) <=> In(f)'
  BY <1>1, <1>2, <1>3, <1>4, <1>5, <1>7 DEF Members, In
<1> QED BY <1>6, <1>8

LEMMA SetRoleStep ==
    ASSUME Inv, NEW r \in Requests, SetRole(r)
    PROVE  Inv'
<1>1. Grow
  BY SetRoleReseats, ReseatingGrows DEF SetRole, Inv
<1>2. OneRequest(r)
  BY Ends DEF SetRole
<1> QED BY <1>1, <1>2, RequestStep

LEMMA DemoteOthersReseats ==
    ASSUME Inv, NEW r \in Requests, DemoteOthers(r)
    PROVE  Members' /\ \A e \in Emails : In(e) <=> In(e)'
<1>1. Members
  BY DEF Inv
<1>2. ASSUME NEW owner \in Emails,
             member' = [e \in Emails |-> IF In(e) /\ e # owner
                                         THEN [member[e] EXCEPT !.role = "viewer"] ELSE member[e]]
      PROVE  Members' /\ \A e \in Emails : In(e) <=> In(e)'
  <2>1. ASSUME NEW e \in Emails, In(e)
        PROVE  /\ [member[e] EXCEPT !.role = "viewer"] \in Seat
               /\ [member[e] EXCEPT !.role = "viewer"].org = member[e].org
    <3>1. member[e] \in Seat  BY <1>1, <2>1 DEF Members, In
    <3> QED BY <3>1, Reroled DEF Roles
  <2>2. Members'
    BY <1>1, <1>2, <2>1 DEF Members
  <2>3. None \notin Seat
    BY WorkspaceAssumption
  <2>4. \A e \in Emails : In(e) <=> In(e)'
    BY <1>1, <1>2, <2>1, <2>3 DEF Members, In
  <2> QED BY <2>2, <2>4
<1>3. CASE UNCHANGED member
  BY <1>1, <1>3 DEF Members, In
<1> QED BY <1>2, <1>3 DEF DemoteOthers, Admins

LEMMA DemoteOthersStep ==
    ASSUME Inv, NEW r \in Requests, DemoteOthers(r)
    PROVE  Inv'
<1>1. Grow
  BY DemoteOthersReseats, ReseatingGrows DEF DemoteOthers, Inv
<1>2. OneRequest(r)
  BY Ends DEF DemoteOthers
<1> QED BY <1>1, <1>2, RequestStep

\* Somebody gets a seat elsewhere.
LEMMA SeatedElsewhere ==
    ASSUME Members, NEW e \in Emails, member[e] = None,
           member' = [member EXCEPT ![e] = [org |-> e, role |-> "admin"]]
    PROVE  Members' /\ \A f \in Emails : In(f) <=> In(f)'
<1>1. [org |-> e, role |-> "admin"] \in Seat
  BY DEF Seat, Roles
<1>2. Members'
  BY <1>1 DEF Members
<1>3. \A f \in Emails : In(f) <=> In(f)'
  BY WorkspaceAssumption DEF Members, In
<1> QED BY <1>2, <1>3

LEMMA ProvisionStep ==
    ASSUME Inv, NEW r \in Requests, NEW e \in Emails, Provision(r, e)
    PROVE  Inv'
<1>1. Grow
  BY SeatedElsewhere, ReseatingGrows DEF Inv, Provision
<1>2. Moved(r, At("over", None, None, None, None, None))
  BY Enters DEF Provision, Once
<1>3. Local(r)'
  BY <1>2 DEF Moved, At, Local, Named, Invited, Shaped, Busy
<1> QED BY <1>1, <1>2, <1>3, RequestStep DEF Moved, OneRequest

LEMMA PersonKnown ==
    ASSUME NEW r \in Requests, Local(r),
           req[r].pc \in {"identity", "email", "accept", "link", "join", "found"}
    PROVE  Person(r) \in Emails
BY WorkspaceAssumption DEF Local, Invited, Person

LEMMA FoundStep ==
    ASSUME Inv, NEW r \in Requests, Found(r)
    PROVE  Inv'
<1>1. Local(r) /\ Members /\ Letters
  BY DEF Inv
<1>2. Person(r) \in Emails
  BY <1>1, PersonKnown DEF Found
<1>3. Grow
  BY <1>1, <1>2, SeatedElsewhere, ReseatingGrows, NothingGrows DEF Found
<1>4. OneRequest(r)
  BY Ends DEF Found
<1> QED BY <1>3, <1>4, RequestStep

LEMMA RefreshAndAcceptStep ==
    ASSUME Inv, NEW r \in Requests, RefreshAndAccept(r)
    PROVE  Inv'
<1>1. Local(r) /\ Members /\ Letters
  BY DEF Inv
<1>2. Person(r) \in Emails
  BY <1>1, PersonKnown DEF RefreshAndAccept
<1>3. req[r].saw # None => /\ req[r].saw \in Invites
                           /\ invite[req[r].saw] # None
                           /\ invite[req[r].saw].to = Person(r)
                           /\ In(Person(r))
  BY <1>1 DEF RefreshAndAccept, Local, Invited
<1>4. Grow
  BY <1>1, <1>2, <1>3, AcceptingGrows DEF RefreshAndAccept
<1>5. OneRequest(r)
  BY Ends DEF RefreshAndAccept
<1> QED BY <1>4, <1>5, RequestStep

LEMMA LinkExistingStep ==
    ASSUME Inv, NEW r \in Requests, LinkExisting(r)
    PROVE  Inv'
<1>1. Local(r) /\ Members /\ Letters
  BY DEF Inv
<1>2. Person(r) \in Emails
  BY <1>1, PersonKnown DEF LinkExisting
<1>3. req[r].saw # None => /\ req[r].saw \in Invites
                           /\ invite[req[r].saw] # None
                           /\ invite[req[r].saw].to = Person(r)
                           /\ In(Person(r))
  BY <1>1 DEF LinkExisting, Local, Invited
<1>4. Grow
  BY <1>1, <1>2, <1>3, AcceptingGrows DEF LinkExisting
<1>5. OneRequest(r)
  BY Ends DEF LinkExisting
<1> QED BY <1>4, <1>5, RequestStep

LEMMA JoinStep ==
    ASSUME Inv, NEW r \in Requests, Join(r)
    PROVE  Inv'
<1>1. Local(r) /\ Members /\ Letters
  BY DEF Inv
<1> DEFINE p == Person(r)
           i == req[r].saw
<1>2. p \in Emails
  BY <1>1, PersonKnown DEF Join
<1>3. i \in Invites /\ i # None /\ invite[i] \in Letter /\ invite[i].to = p
  BY <1>1 DEF Join, Local, Invited, Letters
<1>4. OneRequest(r)
  BY Ends DEF Join
<1>5. CASE member[p] = None /\ Live(i)
  <2>1. member' = [member EXCEPT ![p] = [org |-> Ours, role |-> invite[i].role]]
    BY <1>5 DEF Join
  <2>2. [org |-> Ours, role |-> invite[i].role] \in Seat
    BY <1>3 DEF Seat, Letter
  <2>3. Members'
    BY <1>1, <1>2, <2>1, <2>2 DEF Members
  <2>4. \A e \in Emails : In(e)' <=> In(e) \/ e = p
    <3>1. None \notin Seat  BY WorkspaceAssumption
    <3> QED BY <1>1, <1>2, <2>1, <2>2, <3>1 DEF Members, In
  <2>5. invite' = [invite EXCEPT ![i] = [invite[i] EXCEPT !.accepted = TRUE]]
    BY <1>1, <1>3, <1>5 DEF Join, Accepted, Letters
  <2>6. \A j \in Invites \ {i} : invite'[j] = invite[j]
    BY <1>1, <2>5 DEF Letters
  <2>7. invite'[i] \in Letter /\ invite'[i].to = p /\ invite'[i].accepted = TRUE
    <3>1. \A l : l \in Letter => /\ [l EXCEPT !.accepted = TRUE] \in Letter
                                 /\ [l EXCEPT !.accepted = TRUE].to = l.to
                                 /\ [l EXCEPT !.accepted = TRUE].accepted = TRUE
      BY Marked
    <3>2. PICK l \in Letter : l = invite[i]  BY <1>3
    <3>3. invite'[i] = [l EXCEPT !.accepted = TRUE]  BY <1>1, <1>3, <2>5, <3>2 DEF Letters
    <3> QED BY <1>3, <3>1, <3>2, <3>3
  <2>8. Letters'
    BY <1>1, <2>5, <2>7 DEF Letters
  <2>9. None \notin Letter  BY WorkspaceAssumption
  <2>10. \A j \in Invites : invite[j] # None =>
            invite'[j] # None /\ invite'[j].to = invite[j].to /\ (invite[j].accepted => invite'[j].accepted)
    BY <1>3, <2>6, <2>7, <2>9
  <2>11. \A j \in Invites, e \in Emails : invite'[j] # None /\ invite'[j].accepted /\ invite'[j].to = e =>
            (invite[j] # None /\ invite[j].accepted) \/ In(e)'
    BY <2>4, <2>6, <2>7
  <2>12. \A e \in Emails : In(e)' =>
            In(e) \/ \E j \in Invites : invite'[j] # None /\ invite'[j].to = e /\ invite'[j].accepted
    BY <1>3, <2>4, <2>7, <2>9
  <2>13. Grow
    BY <2>3, <2>4, <2>8, <2>10, <2>11, <2>12 DEF Grow
  <2> QED BY <1>4, <2>13, RequestStep
<1>6. CASE ~(member[p] = None /\ Live(i))
  <2>1. Grow
    BY <1>1, <1>6, NothingGrows DEF Join
  <2> QED BY <1>4, <2>1, RequestStep
<1> QED BY <1>5, <1>6

LEMMA SweepStep ==
    ASSUME Inv, NEW r \in Requests, Sweep(r)
    PROVE  Inv'
<1>1. Local(r) /\ Members /\ Letters
  BY DEF Inv
<1>2. Grow
  BY <1>1, RevokingPendingGrows DEF Sweep
<1>3. Moved(r, At("entitled", req[r].op, req[r].who, req[r].on, req[r].as, req[r].saw))
  BY Goes DEF Sweep
<1>4. Local(r)'
  BY <1>1, <1>3 DEF Moved, At, Local, Named, Invited, Shaped, Busy, Sweep, In
<1> QED BY <1>2, <1>3, <1>4, RequestStep DEF Moved, OneRequest

LEMMA CloseInvitesStep ==
    ASSUME Inv, NEW r \in Requests, CloseInvites(r)
    PROVE  Inv'
<1>1. Local(r) /\ Members /\ Letters
  BY DEF Inv
<1>2. Grow
  BY <1>1, RevokingPendingGrows DEF CloseInvites
<1>3. Moved(r, At("demote", req[r].op, req[r].who, req[r].on, req[r].as, req[r].saw))
  BY Goes DEF CloseInvites
<1>4. Local(r)'
  BY <1>1, <1>3 DEF Moved, At, Local, Named, Invited, Shaped, Busy, CloseInvites, In
<1> QED BY <1>2, <1>3, <1>4, RequestStep DEF Moved, OneRequest

LEMMA ReplaceOlderStep ==
    ASSUME Inv, NEW r \in Requests, ReplaceOlder(r)
    PROVE  Inv'
<1>1. Local(r) /\ Members /\ Letters
  BY DEF Inv
<1>2. Grow
  BY <1>1, RevokingGrows DEF ReplaceOlder
<1>3. Moved(r, At("insert", req[r].op, req[r].who, req[r].on, req[r].as, req[r].saw))
  BY Goes DEF ReplaceOlder
<1>4. Local(r)'
  BY <1>1, <1>3 DEF Moved, At, Local, Named, Invited, Shaped, Busy, ReplaceOlder, In
<1> QED BY <1>2, <1>3, <1>4, RequestStep DEF Moved, OneRequest

LEMMA RevokeStep ==
    ASSUME Inv, NEW r \in Requests, Revoke(r)
    PROVE  Inv'
<1>1. Local(r) /\ Members /\ Letters
  BY DEF Inv
<1>2. req[r].on \in Invites
  BY <1>1 DEF Revoke, Local, Named, Busy
<1>3. Grow
  BY <1>1, <1>2, RevokingGrows DEF Revoke
<1>4. OneRequest(r)
  BY Ends DEF Revoke
<1> QED BY <1>3, <1>4, RequestStep

LEMMA UndoStep ==
    ASSUME Inv, NEW r \in Requests, Undo(r)
    PROVE  Inv'
<1>1. Local(r) /\ Members /\ Letters
  BY DEF Inv
<1>2. req[r].saw.inv \in Invites /\ invite[req[r].saw.inv] \in Letter /\ invite[req[r].saw.inv] # None
  BY <1>1 DEF Undo, Local, Named, Letters
<1>3. \A l : l \in Letter => /\ [l EXCEPT !.revoked = TRUE] \in Letter
                              /\ [l EXCEPT !.revoked = TRUE].to = l.to
                              /\ [l EXCEPT !.revoked = TRUE].accepted = l.accepted
  BY Marked
<1>4. Grow
  <2>1. PICK l \in Letter : l = invite[req[r].saw.inv]
    BY <1>2
  <2>2. \/ invite' = [invite EXCEPT ![req[r].saw.inv] = [l EXCEPT !.revoked = TRUE]]
        \/ UNCHANGED invite
    BY <1>1, <1>2, <2>1 DEF Undo, Letters
  <2>3. UNCHANGED member  BY DEF Undo
  <2> QED BY <1>1, <1>2, <1>3, <2>1, <2>2, <2>3, MarkingGrows, NothingGrows
<1>5. OneRequest(r)
  BY Ends DEF Undo
<1> QED BY <1>4, <1>5, RequestStep

LEMMA RekeyStep ==
    ASSUME Inv, NEW r \in Requests, Rekey(r)
    PROVE  Inv'
<1>1. Local(r) /\ Members /\ Letters /\ UNCHANGED member
  BY DEF Inv, Rekey
<1> DEFINE i == req[r].on
<1>2. CASE Pending(i)
  <2>1. i \in Invites /\ invite[i] \in Letter /\ invite[i] # None
    BY <1>1, <1>2 DEF Rekey, Local, Named, Busy, Letters, Pending
  <2>2. PICK l \in Letter : l = invite[i]
    BY <2>1
  <2>3. invite' = [invite EXCEPT ![i] = [l EXCEPT !.key = @ + 1, !.lapsed = FALSE]]
    BY <1>1, <1>2, <2>1, <2>2 DEF Rekey, Letters
  <2>4. /\ [l EXCEPT !.key = @ + 1, !.lapsed = FALSE] \in Letter
        /\ [l EXCEPT !.key = @ + 1, !.lapsed = FALSE].to = l.to
        /\ [l EXCEPT !.key = @ + 1, !.lapsed = FALSE].accepted = l.accepted
    BY Marked
  <2>5. Grow
    BY <1>1, <2>1, <2>2, <2>3, <2>4, MarkingGrows
  <2>6. Moved(r, At("mail", req[r].op, req[r].who, i, req[r].as, [inv |-> i, key |-> invite[i].key + 1]))
    BY <1>2, Keeps DEF Rekey
  <2>7. Local(r)'
    BY <1>1, <2>1, <2>5, <2>6 DEF Moved, At, Local, Named, Invited, Shaped, Busy, Grow, Rekey
  <2> QED BY <2>5, <2>6, <2>7, RequestStep DEF Moved, OneRequest
<1>3. CASE ~Pending(i)
  <2>1. Grow
    BY <1>1, <1>3, NothingGrows DEF Rekey
  <2>2. OneRequest(r)
    BY <1>3, Ends DEF Rekey
  <2> QED BY <2>1, <2>2, RequestStep
<1> QED BY <1>2, <1>3

LEMMA InsertStep ==
    ASSUME Inv, NEW r \in Requests, Insert(r)
    PROVE  Inv'
<1>1. Local(r) /\ Members /\ Letters /\ UNCHANGED member
  BY DEF Inv, Insert
<1>2. req[r].on \in Emails /\ req[r].as \in Roles
  BY <1>1 DEF Insert, Local, Named, Busy
<1>3. ASSUME NEW i \in Invites, invite[i] = None,
             invite' = [invite EXCEPT ![i] = Fresh(req[r].on, req[r].as)],
             Keep(r, [inv |-> i, key |-> 0], "mail")
      PROVE  Inv'
  <2>1. Fresh(req[r].on, req[r].as) \in Letter /\ Fresh(req[r].on, req[r].as).accepted = FALSE
    BY <1>2 DEF Fresh, Letter
  <2>2. Letters'
    BY <1>1, <1>3, <2>1 DEF Letters
  <2>3. None \notin Letter  BY WorkspaceAssumption
  <2>4. Grow
    BY <1>1, <1>3, <2>1, <2>2, RewritingGrows DEF Letters
  <2>5. Moved(r, At("mail", req[r].op, req[r].who, req[r].on, req[r].as, [inv |-> i, key |-> 0]))
    BY <1>3, Keeps
  <2>6. invite'[i] # None
    BY <1>1, <1>3, <2>1, <2>3 DEF Letters
  <2>7. Local(r)'
    BY <1>1, <2>5, <2>6 DEF Moved, At, Local, Named, Invited, Shaped, Busy, Insert
  <2> QED BY <2>4, <2>5, <2>7, RequestStep DEF Moved, OneRequest
<1>4. CASE Finish(r) /\ UNCHANGED invite
  BY <1>1, <1>4, NothingGrows, Ends, RequestStep
<1> QED BY <1>3, <1>4 DEF Insert

LEMMA RedeemMoves ==
    ASSUME Inv, NEW r \in Requests, Redeem(r)
    PROVE  \E i \in Identities : Moved(r, At("find", req[r].op, req[r].who, i, req[r].saw, None))
<1>1. PICK i \in Identities :
         req' = [req EXCEPT ![r] = [@ EXCEPT !.pc = "find", !.on = i, !.as = req[r].saw, !.saw = None]]
  BY DEF Redeem
<1>2. req[r] = At(req[r].pc, req[r].op, req[r].who, req[r].on, req[r].as, req[r].saw)
  BY DEF Inv, Local, Named, Shaped, At
<1>3. req'[r] = [req[r] EXCEPT !.pc = "find", !.on = i, !.as = req[r].saw, !.saw = None]
  BY <1>1 DEF Inv
<1>4. req'[r] = At("find", req[r].op, req[r].who, i, req[r].saw, None)
  BY <1>2, <1>3 DEF At
<1> QED BY <1>1, <1>4 DEF Inv, Moved

LEMMA RedeemStep ==
    ASSUME Inv, NEW r \in Requests, Redeem(r)
    PROVE  Inv'
<1>1. Local(r) /\ Members /\ Letters
  BY DEF Inv
<1>2. Grow
  BY <1>1, NothingGrows DEF Redeem, tables
<1>3. PICK i \in Identities : Moved(r, At("find", req[r].op, req[r].who, i, req[r].saw, None))
  BY RedeemMoves
<1>4. Local(r)'
  BY <1>1, <1>3 DEF Moved, At, Local, Named, Invited, Shaped, Busy, Redeem
<1> QED BY <1>2, <1>3, <1>4, RequestStep DEF Moved, OneRequest

LEMMA LookStep ==
    ASSUME Inv, NEW r \in Requests, Look(r)
    PROVE  Inv'
<1>1. Members /\ Letters
  BY DEF Inv
<1>2. Grow
  BY <1>1, NothingGrows DEF Look, tables
<1>3. Moved(r, At("expire", "look", None, None, None, None))
  BY Enters DEF Look
<1>4. Local(r)'
  BY <1>1, <1>3 DEF Moved, At, Local, Named, Invited, Shaped, Busy, Look, tables, In
<1> QED BY <1>2, <1>3, <1>4, RequestStep DEF Moved, OneRequest

LEMMA ChangeRoleStep ==
    ASSUME Inv, NEW r \in Requests, NEW who \in Emails, NEW e \in Emails, NEW role \in Roles, ChangeRole(r, who, e, role)
    PROVE  Inv'
<1>1. Members /\ Letters
  BY DEF Inv
<1>2. Grow
  BY <1>1, NothingGrows DEF ChangeRole, tables
<1>3. Moved(r, At("admins", "role", who, e, role, None))
  BY Enters DEF ChangeRole
<1>4. Local(r)'
  BY <1>1, <1>3 DEF Moved, At, Local, Named, Invited, Shaped, Busy, ChangeRole, tables, In
<1> QED BY <1>2, <1>3, <1>4, RequestStep DEF Moved, OneRequest

LEMMA CreateInviteStep ==
    ASSUME Inv, NEW r \in Requests, NEW e \in Emails, NEW role \in Roles, CreateInvite(r, e, role)
    PROVE  Inv'
<1>1. Members /\ Letters
  BY DEF Inv
<1>2. Grow
  BY <1>1, NothingGrows DEF CreateInvite, tables
<1>3. Moved(r, At("expire", "invite", None, e, role, None))
  BY Enters DEF CreateInvite, EnterAdmin
<1>4. Local(r)'
  BY <1>1, <1>3 DEF Moved, At, Local, Named, Invited, Shaped, Busy, CreateInvite, tables, In
<1> QED BY <1>2, <1>3, <1>4, RequestStep DEF Moved, OneRequest

LEMMA ResendInviteStep ==
    ASSUME Inv, NEW r \in Requests, NEW i \in Invites, ResendInvite(r, i)
    PROVE  Inv'
<1>1. Members /\ Letters
  BY DEF Inv
<1>2. Grow
  BY <1>1, NothingGrows DEF ResendInvite, tables
<1>3. Moved(r, At("expire", "resend", None, i, None, None))
  BY Enters DEF ResendInvite, EnterAdmin
<1>4. Local(r)'
  BY <1>1, <1>3 DEF Moved, At, Local, Named, Invited, Shaped, Busy, ResendInvite, tables, In
<1> QED BY <1>2, <1>3, <1>4, RequestStep DEF Moved, OneRequest

LEMMA RevokeInviteStep ==
    ASSUME Inv, NEW r \in Requests, NEW i \in Invites, RevokeInvite(r, i)
    PROVE  Inv'
<1>1. Members /\ Letters
  BY DEF Inv
<1>2. Grow
  BY <1>1, NothingGrows DEF RevokeInvite, tables
<1>3. Moved(r, At("revoke", "revoke", None, i, None, None))
  BY Enters DEF RevokeInvite, EnterAdmin
<1>4. Local(r)'
  BY <1>1, <1>3 DEF Moved, At, Local, Named, Invited, Shaped, Busy, RevokeInvite, tables, In
<1> QED BY <1>2, <1>3, <1>4, RequestStep DEF Moved, OneRequest

LEMMA BootstrapStep ==
    ASSUME Inv, NEW r \in Requests, NEW e \in Emails, Bootstrap(r, e)
    PROVE  Inv'
<1>1. Members /\ Letters
  BY DEF Inv
<1>2. Grow
  BY <1>1, NothingGrows DEF Bootstrap, tables
<1>3. Moved(r, At("exists", "bootstrap", None, e, None, None))
  BY Enters DEF Bootstrap
<1>4. Local(r)'
  BY <1>1, <1>3 DEF Moved, At, Local, Named, Invited, Shaped, Busy, Bootstrap, tables, In
<1> QED BY <1>2, <1>3, <1>4, RequestStep DEF Moved, OneRequest

LEMMA EditPlanStep ==
    ASSUME Inv, NEW r \in Requests, NEW code, NEW status, EditPlan(r, code, status)
    PROVE  Inv'
<1>1. Members /\ Letters
  BY DEF Inv
<1>2. Grow
  BY <1>1, NothingGrows DEF EditPlan, tables
<1>3. Moved(r, At("row", "plan", None, None, [code |-> code, status |-> status], None))
  BY Enters DEF EditPlan
<1>4. Local(r)'
  BY <1>1, <1>3 DEF Moved, At, Local, Named, Invited, Shaped, Busy, EditPlan, tables, In
<1> QED BY <1>2, <1>3, <1>4, RequestStep DEF Moved, OneRequest

LEMMA StartFlowStep ==
    ASSUME Inv, NEW r \in Requests, NEW f, NEW link, StartFlow(r, f, link)
    PROVE  Inv'
<1>1. Members /\ Letters
  BY DEF Inv
<1>2. Grow
  BY <1>1, NothingGrows DEF StartFlow, tables
<1>3. Moved(r, At("get", "callback", None, f, None, None))
  BY Enters DEF StartFlow
<1>4. Local(r)'
  BY <1>1, <1>3 DEF Moved, At, Local, Named, Invited, Shaped, Busy, StartFlow, tables, In
<1> QED BY <1>2, <1>3, <1>4, RequestStep DEF Moved, OneRequest

LEMMA CallbackStep ==
    ASSUME Inv, NEW r \in Requests, NEW f, Callback(r, f)
    PROVE  Inv'
<1>1. Members /\ Letters
  BY DEF Inv
<1>2. Grow
  BY <1>1, NothingGrows DEF Callback, tables
<1>3. Moved(r, At("get", "callback", None, f, None, None))
  BY Enters DEF Callback
<1>4. Local(r)'
  BY <1>1, <1>3 DEF Moved, At, Local, Named, Invited, Shaped, Busy, Callback, tables, In
<1> QED BY <1>2, <1>3, <1>4, RequestStep DEF Moved, OneRequest

-----------------------------------------------------------------------------
\* The clock and the ingest path move no request.
LEMMA OutsideStep ==
    ASSUME Inv, Grow, UNCHANGED req
    PROVE  Inv'
<1>1. \A s \in Requests : Local(s)'
  BY OthersKept DEF Inv
<1> QED BY <1>1, GrowKeepsSeats DEF Inv, Grow

LEMMA EnvironmentStep ==
    ASSUME Inv, Environment
    PROVE  Inv'
<1>1. Members /\ Letters
  BY DEF Inv
<1>2. CASE ExpireOnIngest
  <2>1. Grow  BY <1>1, <1>2, RevokingGrows DEF ExpireOnIngest
  <2> QED BY <1>2, <2>1, OutsideStep DEF ExpireOnIngest
<1>3. CASE TrialEnds
  <2>1. Grow  BY <1>1, <1>3, NothingGrows DEF TrialEnds
  <2> QED BY <1>3, <2>1, OutsideStep DEF TrialEnds
<1>4. ASSUME NEW i \in Invites, Lapse(i)
      PROVE  Inv'
  <2>1. invite[i] \in Letter /\ invite[i] # None
    BY <1>1, <1>4 DEF Lapse, Live, Pending, Letters
  <2>2. PICK l \in Letter : l = invite[i]
    BY <2>1
  <2>3. invite' = [invite EXCEPT ![i] = [l EXCEPT !.lapsed = TRUE]]
    BY <1>1, <1>4, <2>2 DEF Lapse, Letters
  <2>4. /\ [l EXCEPT !.lapsed = TRUE] \in Letter
        /\ [l EXCEPT !.lapsed = TRUE].to = l.to
        /\ [l EXCEPT !.lapsed = TRUE].accepted = l.accepted
    BY Marked
  <2>5. UNCHANGED <<member, req>>  BY <1>4 DEF Lapse
  <2>6. Grow
    BY <1>1, <2>1, <2>2, <2>3, <2>4, <2>5, MarkingGrows
  <2> QED BY <2>5, <2>6, OutsideStep
<1> QED BY <1>2, <1>3, <1>4 DEF Environment

LEMMA InitInv == Init => Inv
<1> SUFFICES ASSUME Init
             PROVE  Inv
  OBVIOUS
<1>1. None \notin Seat \cup Letter /\ Ours \notin Emails /\ Founders \subseteq Emails
  BY WorkspaceAssumption
<1>2. PICK roles \in [Founders -> Roles] :
         member = [e \in Emails |-> IF e \in Founders THEN [org |-> Ours, role |-> roles[e]] ELSE None]
  BY DEF Init, WorkspaceInit
<1>3. \A e \in Founders : [org |-> Ours, role |-> roles[e]] \in Seat
  BY <1>2 DEF Seat
<1>4. Members
  BY <1>2, <1>3 DEF Members
<1>5. \A e \in Emails : In(e) <=> e \in Founders
  BY <1>1, <1>2, <1>3 DEF In
<1>6. \A e \in Emails : Fresh(e, "viewer") \in Letter /\ Fresh(e, "viewer").accepted = FALSE
  BY DEF Fresh, Letter, Roles
<1>7. Letters /\ \A i \in Invites : invite[i] # None => invite[i].accepted = FALSE
  <2>1. CASE invite = [i \in Invites |-> None]
    BY <2>1 DEF Letters
  <2>2. CASE \E i \in Invites, e \in Emails \ Founders :
               invite = [j \in Invites |-> IF j = i THEN Fresh(e, "viewer") ELSE None]
    BY <1>6, <2>2 DEF Letters
  <2> QED BY <2>1, <2>2 DEF Init, WorkspaceInit
<1>8. SeatsByInvite
  BY <1>5, <1>7 DEF SeatsByInvite
<1>9. DOMAIN req = Requests /\ \A r \in Requests : Local(r)
  BY DEF Init, WorkspaceInit, HandlerInit, Idle, Local, Named, Invited, Shaped, At, Busy
<1> QED BY <1>4, <1>7, <1>8, <1>9 DEF Inv

LEMMA ArriveStep ==
    ASSUME Inv, NEW r \in Requests, Arrive(r)
    PROVE  Inv'
BY LookStep, ChangeRoleStep, CreateInviteStep, ResendInviteStep, RevokeInviteStep, BootstrapStep,
   ProvisionStep, EditPlanStep DEF Arrive

LEMMA ProceedStep ==
    ASSUME Inv, NEW r \in Requests, Proceed(r)
    PROVE  Inv'
<1>1. CASE Expire(r) \/ Sweep(r) \/ Entitled(r)
  BY <1>1, ExpireStep, SweepStep, EntitledStep
<1>2. CASE CountAdmins(r) \/ SetRole(r) \/ DemoteOthers(r)
  BY <1>2, CountAdminsStep, SetRoleStep, DemoteOthersStep
<1>3. CASE AlreadyMember(r) \/ ReplaceOlder(r) \/ Insert(r) \/ Rekey(r) \/ Mail(r) \/ Undo(r) \/ Revoke(r)
  BY <1>3, AlreadyMemberStep, ReplaceOlderStep, InsertStep, RekeyStep, MailStep, UndoStep,
     RevokeStep
<1>4. CASE OperatorExists(r) \/ Promote(r) \/ ReadPlan(r) \/ WritePlan(r) \/ CloseInvites(r)
  BY <1>4, OperatorExistsStep, PromoteStep, ReadPlanStep, WritePlanStep, CloseInvitesStep
<1>5. CASE FindInvite(r) \/ ByIdentity(r) \/ RefreshAndAccept(r) \/ ByEmail(r)
  BY <1>5, FindInviteStep, ByIdentityStep, RefreshAndAcceptStep, ByEmailStep
<1>6. CASE LinkExisting(r) \/ Join(r) \/ Found(r) \/ Abandon(r)
  BY <1>6, LinkExistingStep, JoinStep, FoundStep, AbandonStep
<1> QED BY <1>1, <1>2, <1>3, <1>4, <1>5, <1>6 DEF Proceed

LEMMA NextInv == Inv /\ [Next]_vars => Inv'
<1> SUFFICES ASSUME Inv, [Next]_vars
             PROVE  Inv'
  OBVIOUS
<1>1. CASE WorkspaceStep
  BY <1>1, EnvironmentStep, ArriveStep, ProceedStep DEF WorkspaceStep
<1>2. CASE SignInStep
  BY <1>2, CallbackStep, StartFlowStep, GetStateStep, DelStateStep, RedeemStep DEF SignInStep
<1>3. CASE UNCHANGED vars
  <2>1. UNCHANGED <<member, invite, req>>
    BY <1>3 DEF vars, workspaceVars, tables
  <2>2. Grow
    BY <2>1, NothingGrows DEF Inv
  <2> QED BY <2>1, <2>2, OutsideStep
<1> QED BY <1>1, <1>2, <1>3 DEF Next

\* For any people, invitations, identities and requests, and whatever the
\* interleaving, the failures and the abandoned requests: a person is in the
\* workspace exactly if a founder or the addressee of an accepted invitation.
THEOREM SeatsFollowInvites == Spec => []SeatsByInvite
<1>1. Inv => SeatsByInvite  BY DEF Inv
<1> QED BY InitInv, NextInv, <1>1, PTL DEF Spec

-----------------------------------------------------------------------------
(***************************************************************************)
(* Which statements write a table.                                         *)
(***************************************************************************)
Reseating(r) ==
    SetRole(r) \/ DemoteOthers(r) \/ Join(r) \/ Found(r) \/ \E e \in Emails : Provision(r, e)

Written(r) ==
    /\ UNCHANGED member \/ Reseating(r)
    /\ UNCHANGED operators \/ Promote(r)
    /\ UNCHANGED plan \/ WritePlan(r) \/ plan'.code = "free"
    /\ UNCHANGED passed \/ DelState(r)

LEMMA ArriveWrites ==
    ASSUME NEW r \in Requests, Arrive(r), UNCHANGED signInVars
    PROVE  Written(r)
<1>1. CASE \E e \in Emails : Provision(r, e)
  BY <1>1 DEF Provision, Written, Reseating, signInVars
<1>2. CASE ~\E e \in Emails : Provision(r, e)
  BY <1>2 DEF Arrive, Look, ChangeRole, CreateInvite, ResendInvite, RevokeInvite, Bootstrap,
     EditPlan, tables, Written, signInVars
<1> QED BY <1>1, <1>2

LEMMA ProceedWrites ==
    ASSUME NEW r \in Requests, Proceed(r), UNCHANGED signInVars
    PROVE  Written(r)
<1> USE DEF signInVars, Written
<1>1. CASE Expire(r)
  BY <1>1 DEF Expire
<1>2. CASE Sweep(r) \/ Entitled(r) \/ CountAdmins(r) \/ AlreadyMember(r) \/ ReplaceOlder(r)
  BY <1>2 DEF Sweep, Entitled, CountAdmins, AlreadyMember, ReplaceOlder, tables
<1>3. CASE Insert(r) \/ Rekey(r) \/ Mail(r) \/ Undo(r) \/ Revoke(r) \/ OperatorExists(r)
  BY <1>3 DEF Insert, Rekey, Mail, Undo, Revoke, OperatorExists, tables
<1>4. CASE ReadPlan(r) \/ CloseInvites(r) \/ FindInvite(r) \/ ByIdentity(r)
  BY <1>4 DEF ReadPlan, CloseInvites, FindInvite, ByIdentity, tables
<1>5. CASE RefreshAndAccept(r) \/ ByEmail(r) \/ LinkExisting(r) \/ Abandon(r)
  BY <1>5 DEF RefreshAndAccept, ByEmail, LinkExisting, Abandon, tables
<1>6. CASE Promote(r)
  BY <1>6 DEF Promote
<1>7. CASE WritePlan(r)
  BY <1>7 DEF WritePlan
<1>8. CASE SetRole(r) \/ DemoteOthers(r) \/ Join(r) \/ Found(r)
  BY <1>8 DEF SetRole, DemoteOthers, Join, Found, Reseating
<1> QED BY <1>1, <1>2, <1>3, <1>4, <1>5, <1>6, <1>7, <1>8 DEF Proceed

\* Outside a request the plan may end, and nothing else of this happens.
Quiet ==
    /\ UNCHANGED <<member, operators, passed>>
    /\ UNCHANGED plan \/ plan'.code = "free"

LEMMA OthersWrite == (Environment \/ UNCHANGED vars) /\ UNCHANGED signInVars => Quiet
BY DEF Environment, ExpireOnIngest, TrialEnds, Lapse, vars, workspaceVars, tables, Quiet, signInVars

LEMMA SignInWrites ==
    ASSUME NEW r \in Requests, NEW f, NEW link,
           Callback(r, f) \/ StartFlow(r, f, link) \/ GetState(r) \/ DelState(r) \/ Redeem(r)
    PROVE  Written(r)
BY DEF Callback, StartFlow, GetState, DelState, Redeem, tables, signInVars, Written

LEMMA StepWrites == [Next]_vars => Quiet \/ \E r \in Requests : Written(r)
<1>1. CASE WorkspaceStep
  BY <1>1, ArriveWrites, ProceedWrites, OthersWrite DEF WorkspaceStep
<1>2. CASE SignInStep
  BY <1>2, SignInWrites DEF SignInStep
<1>3. CASE UNCHANGED vars
  BY <1>3, OthersWrite DEF vars
<1> QED BY <1>1, <1>2, <1>3 DEF Next
-----------------------------------------------------------------------------
\* Who joins does so in the transaction of Join.
LEMMA JoinsLive ==
    ASSUME Inv, NEW r \in Requests, Join(r), NEW e \in Emails, Joins(e)
    PROVE  \E i \in Invites : Live(i) /\ invite[i].to = e /\ invite[i].role = member'[e].role
<1>1. Local(r) /\ Members /\ Letters
  BY DEF Inv
<1> DEFINE p == Person(r)
           i == req[r].saw
<1>2. p \in Emails
  BY <1>1, PersonKnown DEF Join
<1>3. i \in Invites /\ invite[i].to = p
  BY <1>1 DEF Join, Local, Invited
<1>4. Live(i) /\ member' = [member EXCEPT ![p] = [org |-> Ours, role |-> invite[i].role]]
  BY <1>1 DEF Join, Joins, In
<1>5. e = p
  BY <1>1, <1>2, <1>4 DEF Joins, In, Members
<1>6. member'[p].role = invite[i].role
  BY <1>1, <1>2, <1>4 DEF Members
<1> QED BY <1>3, <1>4, <1>5, <1>6

LEMMA OnlyJoinJoins ==
    ASSUME Inv, [Next]_vars, NEW e \in Emails, Joins(e)
    PROVE  \E r \in Requests : Join(r)
<1>1. ~UNCHANGED member
  BY DEF Joins, In
<1>2. PICK r \in Requests : Reseating(r)
  BY <1>1, StepWrites DEF Quiet, Written
<1>3. ~SetRole(r) /\ ~DemoteOthers(r)
  BY SetRoleReseats, DemoteOthersReseats DEF Joins
<1>4. CASE Found(r)
  <2>1. Local(r) /\ Members
    BY DEF Inv
  <2>2. Person(r) \in Emails
    BY <1>4, <2>1, PersonKnown DEF Found
  <2> QED BY <1>1, <1>4, <2>1, <2>2, SeatedElsewhere DEF Found, Joins
<1>5. ASSUME NEW f \in Emails, Provision(r, f)
      PROVE  FALSE
  BY <1>5, SeatedElsewhere DEF Provision, Joins, Inv
<1> QED BY <1>2, <1>3, <1>4, <1>5 DEF Reseating

\* Whoever becomes a member does so by an invitation that is open at that
\* moment, and in the role it gives, however long ago the sign-in had found it.
THEOREM SeatsByOpenInvites == Spec => JoinsByLiveInvite
<1>1. ASSUME Inv, [Next]_vars
      PROVE  \A e \in Emails : Joins(e) =>
                \E i \in Invites : Live(i) /\ invite[i].to = e /\ invite[i].role = member'[e].role
  BY <1>1, OnlyJoinJoins, JoinsLive
<1> QED BY InitInv, NextInv, <1>1, PTL DEF Spec, JoinsByLiveInvite
-----------------------------------------------------------------------------
(***************************************************************************)
(* What was read earlier still holds, unless the request was overtaken.      *)
(*                                                                         *)
(* Owned says of each request how its place fits its operation, and what it  *)
(* has seen and relies on.  A step keeps that for the others because it      *)
(* overtakes all those who rely on what it changes (Heeded).                *)
(***************************************************************************)
Tables ==
    /\ plan \in Plans
    /\ overdue \in BOOLEAN
    /\ linked \subseteq Identities
    /\ links \subseteq Links
    /\ operators \subseteq Emails
    /\ overtaken \in [Requests -> BOOLEAN]
    /\ stray \subseteq Invites
    /\ passed \in [Flows -> Nat]
    /\ DOMAIN flow = Flows

\* What an operator may ask to change, None standing for what is left out.
Edits == [code : Codes \cup {None}, status : Standing \cup {None}]

Placed(r) ==
    /\ req[r].pc \in {"admins", "set"} => req[r].op = "role"
    /\ req[r].pc \in {"exists", "promote"} => req[r].op = "bootstrap" /\ req[r].on \in Emails
    /\ req[r].pc \in {"row", "write", "close", "demote"} => req[r].op = "plan"
    /\ req[r].pc \in {"row", "write"} => req[r].as \in Edits
    /\ req[r].pc = "write" => req[r].saw \in Plans
    /\ req[r].pc \in {"get", "del"} => req[r].on \in Flows
    /\ req[r].pc = "mail" => req[r].saw \in Links

Sees(r) ==
    /\ req[r].pc \in {"member", "replace", "insert"} => plan.code # "free"
    /\ req[r].pc = "write" => req[r].saw = plan
    /\ req[r].pc = "promote" => operators = {}
    /\ req[r].pc = "del" => State(req[r].on)
    /\ req[r].pc \in {"admins", "set"} => req[r].who \in Admins
    /\ req[r].pc = "set" /\ req[r].as # "admin" => \E e \in Admins : e # req[r].on

Owned(r) == Placed(r) /\ (~overtaken[r] => Sees(r))

\* A state key that let a callback through is gone.
Spent == \A f \in Flows : passed[f] > 0 => flow[f] = Gone

Facts ==
    /\ Inv /\ Tables /\ Spent /\ FreeClosed
    /\ \A r \in Requests : Owned(r)

-----------------------------------------------------------------------------
(***************************************************************************)
(* What a step of one request owes to the others.                           *)
(***************************************************************************)
\* Everybody else who relies on the fact is overtaken.
Told(r, fact) ==
    \A s \in Requests : s # r /\ Busy(s) /\ Concern(req[s].op) = fact => overtaken'[s]

Heeded(r) ==
    /\ Remembered
    /\ UNCHANGED plan \/ Told(r, "plan")
    /\ UNCHANGED operators \/ Told(r, "operators")
    /\ Admins \subseteq Admins' \/ Told(r, "roles")
    /\ (\A f \in Flows : State(f) => State(f)') \/ Told(r, "states")

\* A free workspace gets no open invitation, and one that still has to be
\* closed keeps somebody who will do it.
Closing(s) == req[s].pc \in {"sweep", "close"}
StaysClosed(r) ==
    /\ plan'.code = "free" /\ plan.code # "free" =>
          \/ r \in Requests /\ Closing(r)'
          \/ \A i \in Invites : ~Pending(i)'
    /\ plan.code = "free" => \A i \in Invites : Pending(i)' => Pending(i) \/ i \in stray'
    /\ stray \subseteq stray'
    /\ r \in Requests /\ Closing(r) => Closing(r)' \/ \A i \in Invites : Pending(i)' => i \in stray'

\* A step of r, or of no request.
Kept(r) ==
    /\ \A s \in Requests \ {r} : req'[s] = req[s]
    /\ r \in Requests => Owned(r)'
    /\ Tables' /\ Spent'
    /\ Heeded(r) /\ StaysClosed(r)

LEMMA Notes ==
    ASSUME Tables, NEW r, NEW fact, Note(r, fact)
    PROVE  /\ Remembered /\ Told(r, fact)
           /\ r \in Requests => overtaken'[r] = overtaken[r]
BY Overtakes DEF Tables, Note, Told

\* What an untouched request relies on still holds.
LEMMA OthersOwned ==
    ASSUME Facts, NEW r, Heeded(r), Tables', NEW s \in Requests, s # r, req'[s] = req[s]
    PROVE  Owned(s)'
<1>1. Owned(s) /\ Local(s) /\ overtaken \in [Requests -> BOOLEAN]
  BY DEF Facts, Inv, Tables
<1>2. Placed(s)'
  BY <1>1 DEF Owned, Placed
<1>3. ASSUME ~overtaken'[s]
      PROVE  Sees(s)'
  <2>1. ~overtaken[s] /\ Sees(s)
    BY <1>1, <1>3 DEF Heeded, Remembered, Owned
  <2>2. \A fact : Told(r, fact) /\ Busy(s) => Concern(req[s].op) # fact
    BY <1>3 DEF Told
  <2>3. CASE req[s].pc \in {"member", "replace", "insert"}
    <3>1. Busy(s) /\ Concern(req[s].op) = "plan"
      BY <1>1, <2>3 DEF Local, Named, Busy, Concern
    <3>2. UNCHANGED plan
      BY <2>2, <3>1 DEF Heeded
    <3> QED BY <2>1, <2>3, <3>2 DEF Sees
  <2>4. CASE req[s].pc = "write"
    <3>1. Busy(s) /\ Concern(req[s].op) = "plan"
      BY <1>1, <2>4 DEF Owned, Placed, Busy, Concern
    <3>2. UNCHANGED plan
      BY <2>2, <3>1 DEF Heeded
    <3> QED BY <2>1, <2>4, <3>2 DEF Sees
  <2>5. CASE req[s].pc = "promote"
    <3>1. Busy(s) /\ Concern(req[s].op) = "operators"
      BY <1>1, <2>5 DEF Owned, Placed, Busy, Concern
    <3>2. UNCHANGED operators
      BY <2>2, <3>1 DEF Heeded
    <3> QED BY <2>1, <2>5, <3>2 DEF Sees
  <2>6. CASE req[s].pc = "del"
    <3>1. Busy(s) /\ Concern(req[s].op) = "states" /\ req[s].on \in Flows
      BY <1>1, <2>6 DEF Local, Named, Owned, Placed, Busy, Concern
    <3>2. State(req[s].on)'
      BY <2>1, <2>2, <2>6, <3>1 DEF Heeded, Sees, State
    <3> QED BY <2>6, <3>2 DEF Sees, State
  <2>7. CASE req[s].pc \in {"admins", "set"}
    <3>1. Busy(s) /\ Concern(req[s].op) = "roles"
      BY <1>1, <2>7 DEF Owned, Placed, Busy, Concern
    <3>2. Admins \subseteq Admins'
      BY <2>2, <3>1 DEF Heeded
    <3> QED BY <2>1, <2>7, <3>2 DEF Sees
  <2>8. CASE req[s].pc \notin {"member", "replace", "insert", "write", "promote", "del", "admins", "set"}
    BY <2>8 DEF Sees
  <2> QED BY <2>3, <2>4, <2>5, <2>6, <2>7, <2>8
<1> QED BY <1>2, <1>3 DEF Owned

LEMMA ClosedStep ==
    ASSUME Facts, NEW r, Kept(r)
    PROVE  FreeClosed'
<1> SUFFICES ASSUME plan'.code = "free", NEW i \in Invites, Pending(i)', i \notin stray'
             PROVE  \E s \in Requests : Closing(s)'
  BY DEF FreeClosed, Closing
<1>1. StaysClosed(r) /\ \A s \in Requests \ {r} : req'[s] = req[s]
  BY DEF Kept
<1>2. CASE plan.code # "free"
  BY <1>1, <1>2 DEF StaysClosed
<1>3. CASE plan.code = "free"
  <2>1. Pending(i) /\ i \notin stray
    BY <1>1, <1>3 DEF StaysClosed
  <2>2. PICK s \in Requests : Closing(s)
    BY <1>3, <2>1 DEF Facts, FreeClosed, Closing
  <2>3. CASE s = r
    BY <1>1, <2>2, <2>3 DEF StaysClosed
  <2>4. CASE s # r
    BY <1>1, <2>2, <2>4 DEF Closing
  <2> QED BY <2>3, <2>4
<1> QED BY <1>2, <1>3

LEMMA KeptFacts ==
    ASSUME Facts, Inv', NEW r, Kept(r)
    PROVE  Facts'
<1>1. \A s \in Requests : Owned(s)'
  BY OthersOwned DEF Kept
<1> QED BY <1>1, ClosedStep DEF Facts, Kept

\* A statement that only reads.
LEMMA Reading ==
    ASSUME Facts, NEW r \in Requests, UNCHANGED <<tables, overtaken, stray, signInVars>>,
           NEW q, Moved(r, q), ~Closing(r), Owned(r)'
    PROVE  Kept(r)
<1>1. Tables' /\ Spent'
  BY DEF Facts, Tables, Spent, tables, signInVars
<1>2. Heeded(r)
  <2>1. Remembered /\ UNCHANGED <<plan, operators>>
    BY DEF Remembered, Facts, Tables, tables
  <2>2. Admins \subseteq Admins'
    BY DEF Admins, In, tables
  <2>3. \A f \in Flows : State(f) => State(f)'
    BY DEF State, signInVars
  <2> QED BY <2>1, <2>2, <2>3 DEF Heeded
<1>3. StaysClosed(r)
  BY DEF StaysClosed, tables, Pending
<1> QED BY <1>1, <1>2, <1>3 DEF Kept, Moved

\* A request that is over relies on nothing.
LEMMA OverOwned ==
    ASSUME Inv, NEW r \in Requests, Finish(r)
    PROVE  Moved(r, At("over", None, None, None, None, None)) /\ Owned(r)'
<1>1. Moved(r, At("over", None, None, None, None, None))
  BY FinishMoves DEF Inv
<1> QED BY <1>1 DEF Moved, At, Owned, Placed, Sees
-----------------------------------------------------------------------------
(***************************************************************************)
(* Statements that only read.                                              *)
(***************************************************************************)
LEMMA EntitledKept ==
    ASSUME Facts, NEW r \in Requests, UNCHANGED signInVars, Entitled(r)
    PROVE  Kept(r)
<1>0. UNCHANGED <<tables, overtaken, stray, signInVars>> /\ ~Closing(r)
  BY DEF Entitled, Closing
<1>1. Inv /\ Local(r) /\ Owned(r) /\ Tables
  BY DEF Facts, Inv
<1>2. \/ Goto(r, "member") /\ Paid /\ req[r].op = "invite"
      \/ Goto(r, "rekey")
      \/ Finish(r)
  BY <1>1 DEF Entitled
<1>3. CASE Goto(r, "member") /\ Paid /\ req[r].op = "invite"
  <2>1. Moved(r, At("member", req[r].op, req[r].who, req[r].on, req[r].as, req[r].saw))
    BY <1>1, <1>3, Goes
  <2>2. Owned(r)'
    BY <1>0, <1>1, <1>3, <2>1 DEF Moved, At, Owned, Placed, Sees, tables, signInVars, Paid
  <2> QED BY <1>0, <2>1, <2>2, Reading
<1>4. CASE Goto(r, "rekey")
  <2>1. Moved(r, At("rekey", req[r].op, req[r].who, req[r].on, req[r].as, req[r].saw))
    BY <1>1, <1>4, Goes
  <2>2. Owned(r)'
    BY <1>0, <1>1, <1>4, <2>1 DEF Moved, At, Owned, Placed, Sees, tables, signInVars
  <2> QED BY <1>0, <2>1, <2>2, Reading
<1>5. CASE Finish(r)
  BY <1>0, <1>1, <1>5, OverOwned, Reading
<1> QED BY <1>2, <1>3, <1>4, <1>5

\* Who counts more than one admin, and is one, counts another one.
LEMMA AnotherAdmin ==
    ASSUME NEW e \in Admins, ~(Cardinality(Admins) <= 1)
    PROVE  \E f \in Admins : f # e
<1>1. Cardinality({e}) = 1
  BY FS_Singleton
<1>2. Admins # {e}
  BY <1>1
<1> QED BY <1>2

LEMMA CountAdminsKept ==
    ASSUME Facts, NEW r \in Requests, UNCHANGED signInVars, CountAdmins(r)
    PROVE  Kept(r)
<1>0. UNCHANGED <<tables, overtaken, stray, signInVars>> /\ ~Closing(r)
  BY DEF CountAdmins, Closing
<1>1. Inv /\ Owned(r) /\ req[r].pc = "admins"
  BY DEF Facts, Inv, CountAdmins
<1>2. \/ Finish(r)
      \/ Goto(r, "set") /\ (req[r].who = req[r].on /\ req[r].as # "admin" => ~(Cardinality(Admins) <= 1))
  BY DEF CountAdmins
<1>3. CASE Finish(r)
  BY <1>0, <1>1, <1>3, OverOwned, Reading
<1>4. CASE Goto(r, "set") /\ (req[r].who = req[r].on /\ req[r].as # "admin" => ~(Cardinality(Admins) <= 1))
  <2>1. Moved(r, At("set", req[r].op, req[r].who, req[r].on, req[r].as, req[r].saw))
    BY <1>1, <1>4, Goes
  <2>2. Placed(r)'
    BY <1>1, <2>1 DEF Moved, At, Owned, Placed
  <2>3. UNCHANGED <<Admins, overtaken>>
    BY <1>0 DEF Admins, In, tables
  <2>4. ASSUME ~overtaken'[r]
        PROVE  Sees(r)'
    <3>1. req[r].who \in Admins
      BY <1>1, <2>3, <2>4 DEF Owned, Sees
    <3>2. ASSUME req[r].as # "admin"
          PROVE  \E e \in Admins : e # req[r].on
      BY <1>4, <3>1, <3>2, AnotherAdmin
    <3> QED BY <2>1, <2>3, <3>1, <3>2 DEF Moved, At, Sees
  <2>5. Owned(r)'
    BY <2>2, <2>4 DEF Owned
  <2> QED BY <1>0, <2>1, <2>5, Reading
<1> QED BY <1>2, <1>3, <1>4

LEMMA AlreadyMemberKept ==
    ASSUME Facts, NEW r \in Requests, UNCHANGED signInVars, AlreadyMember(r)
    PROVE  Kept(r)
<1>0. UNCHANGED <<tables, overtaken, stray, signInVars>> /\ ~Closing(r)
  BY DEF AlreadyMember, Closing
<1>1. Inv /\ Local(r) /\ Owned(r) /\ Tables
  BY DEF Facts, Inv
<1>2. \/ Goto(r, "replace") /\ req[r].pc = "member"
      \/ Finish(r)
  BY <1>1 DEF AlreadyMember
<1>3. CASE Goto(r, "replace") /\ req[r].pc = "member"
  <2>1. Moved(r, At("replace", req[r].op, req[r].who, req[r].on, req[r].as, req[r].saw))
    BY <1>1, <1>3, Goes
  <2>2. Owned(r)'
    BY <1>0, <1>1, <1>3, <2>1 DEF Moved, At, Owned, Placed, Sees, tables, signInVars
  <2> QED BY <1>0, <2>1, <2>2, Reading
<1>4. CASE Finish(r)
  BY <1>0, <1>1, <1>4, OverOwned, Reading
<1> QED BY <1>2, <1>3, <1>4

LEMMA OperatorExistsKept ==
    ASSUME Facts, NEW r \in Requests, UNCHANGED signInVars, OperatorExists(r)
    PROVE  Kept(r)
<1>0. UNCHANGED <<tables, overtaken, stray, signInVars>> /\ ~Closing(r)
  BY DEF OperatorExists, Closing
<1>1. Inv /\ Local(r) /\ Owned(r) /\ Tables
  BY DEF Facts, Inv
<1>2. \/ Goto(r, "promote") /\ req[r].pc = "exists" /\ operators = {}
      \/ Finish(r)
  BY <1>1 DEF OperatorExists
<1>3. CASE Goto(r, "promote") /\ req[r].pc = "exists" /\ operators = {}
  <2>1. Moved(r, At("promote", req[r].op, req[r].who, req[r].on, req[r].as, req[r].saw))
    BY <1>1, <1>3, Goes
  <2>2. Owned(r)'
    BY <1>0, <1>1, <1>3, <2>1 DEF Moved, At, Owned, Placed, Sees, tables, signInVars
  <2> QED BY <1>0, <2>1, <2>2, Reading
<1>4. CASE Finish(r)
  BY <1>0, <1>1, <1>4, OverOwned, Reading
<1> QED BY <1>2, <1>3, <1>4

LEMMA ReadPlanKept ==
    ASSUME Facts, NEW r \in Requests, UNCHANGED signInVars, ReadPlan(r)
    PROVE  Kept(r)
<1>0. UNCHANGED <<tables, overtaken, stray, signInVars>> /\ ~Closing(r)
  BY DEF ReadPlan, Closing
<1>1. Inv /\ Local(r) /\ Owned(r) /\ Tables
  BY DEF Facts, Inv
<1>2. \/ Keep(r, plan, "write") /\ req[r].pc = "row"
  BY <1>1 DEF ReadPlan
<1>3. CASE Keep(r, plan, "write") /\ req[r].pc = "row"
  <2>1. Moved(r, At("write", req[r].op, req[r].who, req[r].on, req[r].as, plan))
    BY <1>1, <1>3, Keeps
  <2>2. Owned(r)'
    BY <1>0, <1>1, <1>3, <2>1 DEF Moved, At, Owned, Placed, Sees, tables, signInVars, Tables
  <2> QED BY <1>0, <2>1, <2>2, Reading
<1> QED BY <1>2, <1>3

LEMMA FindInviteKept ==
    ASSUME Facts, NEW r \in Requests, UNCHANGED signInVars, FindInvite(r)
    PROVE  Kept(r)
<1>0. UNCHANGED <<tables, overtaken, stray, signInVars>> /\ ~Closing(r)
  BY DEF FindInvite, Closing
<1>1. Inv
  BY DEF Facts
<1>2. PICK x : Keep(r, x, "identity")
  BY DEF FindInvite
<1>3. Moved(r, At("identity", req[r].op, req[r].who, req[r].on, req[r].as, x))
  BY <1>1, <1>2, Keeps
<1>4. Owned(r)'
  BY <1>3 DEF Moved, At, Owned, Placed, Sees
<1> QED BY <1>0, <1>3, <1>4, Reading

LEMMA ByIdentityKept ==
    ASSUME Facts, NEW r \in Requests, UNCHANGED signInVars, ByIdentity(r)
    PROVE  Kept(r)
<1>0. UNCHANGED <<tables, overtaken, stray, signInVars>> /\ ~Closing(r)
  BY DEF ByIdentity, Closing
<1>1. Inv /\ Local(r) /\ Owned(r) /\ Tables
  BY DEF Facts, Inv
<1>2. \/ Goto(r, "email")
      \/ Goto(r, "accept")
      \/ Finish(r)
  BY <1>1 DEF ByIdentity
<1>3. CASE Goto(r, "email")
  <2>1. Moved(r, At("email", req[r].op, req[r].who, req[r].on, req[r].as, req[r].saw))
    BY <1>1, <1>3, Goes
  <2>2. Owned(r)'
    BY <1>0, <1>1, <1>3, <2>1 DEF Moved, At, Owned, Placed, Sees, tables, signInVars
  <2> QED BY <1>0, <2>1, <2>2, Reading
<1>4. CASE Goto(r, "accept")
  <2>1. Moved(r, At("accept", req[r].op, req[r].who, req[r].on, req[r].as, req[r].saw))
    BY <1>1, <1>4, Goes
  <2>2. Owned(r)'
    BY <1>0, <1>1, <1>4, <2>1 DEF Moved, At, Owned, Placed, Sees, tables, signInVars
  <2> QED BY <1>0, <2>1, <2>2, Reading
<1>5. CASE Finish(r)
  BY <1>0, <1>1, <1>5, OverOwned, Reading
<1> QED BY <1>2, <1>3, <1>4, <1>5

LEMMA ByEmailKept ==
    ASSUME Facts, NEW r \in Requests, UNCHANGED signInVars, ByEmail(r)
    PROVE  Kept(r)
<1>0. UNCHANGED <<tables, overtaken, stray, signInVars>> /\ ~Closing(r)
  BY DEF ByEmail, Closing
<1>1. Inv /\ Local(r) /\ Owned(r) /\ Tables
  BY DEF Facts, Inv
<1>2. \/ Goto(r, "link")
      \/ Goto(r, "join")
      \/ Goto(r, "found")
      \/ Finish(r)
  BY <1>1 DEF ByEmail
<1>3. CASE Goto(r, "link")
  <2>1. Moved(r, At("link", req[r].op, req[r].who, req[r].on, req[r].as, req[r].saw))
    BY <1>1, <1>3, Goes
  <2>2. Owned(r)'
    BY <1>0, <1>1, <1>3, <2>1 DEF Moved, At, Owned, Placed, Sees, tables, signInVars
  <2> QED BY <1>0, <2>1, <2>2, Reading
<1>4. CASE Goto(r, "join")
  <2>1. Moved(r, At("join", req[r].op, req[r].who, req[r].on, req[r].as, req[r].saw))
    BY <1>1, <1>4, Goes
  <2>2. Owned(r)'
    BY <1>0, <1>1, <1>4, <2>1 DEF Moved, At, Owned, Placed, Sees, tables, signInVars
  <2> QED BY <1>0, <2>1, <2>2, Reading
<1>5. CASE Goto(r, "found")
  <2>1. Moved(r, At("found", req[r].op, req[r].who, req[r].on, req[r].as, req[r].saw))
    BY <1>1, <1>5, Goes
  <2>2. Owned(r)'
    BY <1>0, <1>1, <1>5, <2>1 DEF Moved, At, Owned, Placed, Sees, tables, signInVars
  <2> QED BY <1>0, <2>1, <2>2, Reading
<1>6. CASE Finish(r)
  BY <1>0, <1>1, <1>6, OverOwned, Reading
<1> QED BY <1>2, <1>3, <1>4, <1>5, <1>6

LEMMA GetStateKept ==
    ASSUME Facts, NEW r \in Requests, GetState(r)
    PROVE  Kept(r)
<1>0. UNCHANGED <<tables, overtaken, stray, signInVars>> /\ ~Closing(r)
  BY DEF GetState, Closing
<1>1. Inv /\ Local(r) /\ Owned(r) /\ Tables
  BY DEF Facts, Inv
<1>2. \/ Keep(r, flow[req[r].on].link, "del") /\ req[r].pc = "get" /\ State(req[r].on)
      \/ Finish(r)
  BY <1>1 DEF GetState
<1>3. CASE Keep(r, flow[req[r].on].link, "del") /\ req[r].pc = "get" /\ State(req[r].on)
  <2>1. Moved(r, At("del", req[r].op, req[r].who, req[r].on, req[r].as, flow[req[r].on].link))
    BY <1>1, <1>3, Keeps
  <2>2. Owned(r)'
    BY <1>0, <1>1, <1>3, <2>1 DEF Moved, At, Owned, Placed, Sees, tables, signInVars, State
  <2> QED BY <1>0, <2>1, <2>2, Reading
<1>4. CASE Finish(r)
  BY <1>0, <1>1, <1>4, OverOwned, Reading
<1> QED BY <1>2, <1>3, <1>4

LEMMA LookKept ==
    ASSUME Facts, NEW r \in Requests, UNCHANGED signInVars, Look(r)
    PROVE  Kept(r)
<1>0. UNCHANGED <<tables, overtaken, stray, signInVars>> /\ ~Closing(r)
  BY DEF Look, Enter, Idle, Closing
<1>1. Inv /\ Local(r) /\ Owned(r) /\ Tables
  BY DEF Facts, Inv
<1>2. Moved(r, At("expire", "look", None, None, None, None))
  BY <1>1, Enters DEF Look
<1>3. Owned(r)'
  BY <1>0, <1>1, <1>2 DEF Moved, At, Owned, Placed, Sees, tables, signInVars
<1> QED BY <1>0, <1>2, <1>3, Reading

LEMMA ChangeRoleKept ==
    ASSUME Facts, NEW r \in Requests, UNCHANGED signInVars,
           NEW who \in Emails, NEW e \in Emails, NEW role \in Roles, ChangeRole(r, who, e, role)
    PROVE  Kept(r)
<1>0. UNCHANGED <<tables, overtaken, stray, signInVars>> /\ ~Closing(r)
  BY DEF ChangeRole, Enter, Idle, Closing
<1>1. Inv /\ Local(r) /\ Owned(r) /\ Tables
  BY DEF Facts, Inv
<1>2. Moved(r, At("admins", "role", who, e, role, None))
  BY <1>1, Enters DEF ChangeRole
<1>3. Owned(r)'
  BY <1>0, <1>1, <1>2 DEF Moved, At, Owned, Placed, Sees, tables, signInVars, ChangeRole, Admins, In
<1> QED BY <1>0, <1>2, <1>3, Reading

LEMMA CreateInviteKept ==
    ASSUME Facts, NEW r \in Requests, UNCHANGED signInVars, NEW e \in Emails, NEW role \in Roles, CreateInvite(r, e, role)
    PROVE  Kept(r)
<1>0. UNCHANGED <<tables, overtaken, stray, signInVars>> /\ ~Closing(r)
  BY DEF CreateInvite, EnterAdmin, Enter, Idle, Closing
<1>1. Inv /\ Local(r) /\ Owned(r) /\ Tables
  BY DEF Facts, Inv
<1>2. Moved(r, At("expire", "invite", None, e, role, None))
  BY <1>1, Enters DEF CreateInvite, EnterAdmin
<1>3. Owned(r)'
  BY <1>0, <1>1, <1>2 DEF Moved, At, Owned, Placed, Sees, tables, signInVars
<1> QED BY <1>0, <1>2, <1>3, Reading

LEMMA ResendInviteKept ==
    ASSUME Facts, NEW r \in Requests, UNCHANGED signInVars, NEW i \in Invites, ResendInvite(r, i)
    PROVE  Kept(r)
<1>0. UNCHANGED <<tables, overtaken, stray, signInVars>> /\ ~Closing(r)
  BY DEF ResendInvite, EnterAdmin, Enter, Idle, Closing
<1>1. Inv /\ Local(r) /\ Owned(r) /\ Tables
  BY DEF Facts, Inv
<1>2. Moved(r, At("expire", "resend", None, i, None, None))
  BY <1>1, Enters DEF ResendInvite, EnterAdmin
<1>3. Owned(r)'
  BY <1>0, <1>1, <1>2 DEF Moved, At, Owned, Placed, Sees, tables, signInVars
<1> QED BY <1>0, <1>2, <1>3, Reading

LEMMA RevokeInviteKept ==
    ASSUME Facts, NEW r \in Requests, UNCHANGED signInVars, NEW i \in Invites, RevokeInvite(r, i)
    PROVE  Kept(r)
<1>0. UNCHANGED <<tables, overtaken, stray, signInVars>> /\ ~Closing(r)
  BY DEF RevokeInvite, EnterAdmin, Enter, Idle, Closing
<1>1. Inv /\ Local(r) /\ Owned(r) /\ Tables
  BY DEF Facts, Inv
<1>2. Moved(r, At("revoke", "revoke", None, i, None, None))
  BY <1>1, Enters DEF RevokeInvite, EnterAdmin
<1>3. Owned(r)'
  BY <1>0, <1>1, <1>2 DEF Moved, At, Owned, Placed, Sees, tables, signInVars
<1> QED BY <1>0, <1>2, <1>3, Reading

LEMMA BootstrapKept ==
    ASSUME Facts, NEW r \in Requests, UNCHANGED signInVars, NEW e \in Emails, Bootstrap(r, e)
    PROVE  Kept(r)
<1>0. UNCHANGED <<tables, overtaken, stray, signInVars>> /\ ~Closing(r)
  BY DEF Bootstrap, Enter, Idle, Closing
<1>1. Inv /\ Local(r) /\ Owned(r) /\ Tables
  BY DEF Facts, Inv
<1>2. Moved(r, At("exists", "bootstrap", None, e, None, None))
  BY <1>1, Enters DEF Bootstrap
<1>3. Owned(r)'
  BY <1>0, <1>1, <1>2 DEF Moved, At, Owned, Placed, Sees, tables, signInVars
<1> QED BY <1>0, <1>2, <1>3, Reading

LEMMA EditPlanKept ==
    ASSUME Facts, NEW r \in Requests, UNCHANGED signInVars,
           NEW code \in Codes \cup {None}, NEW status \in Standing \cup {None}, EditPlan(r, code, status)
    PROVE  Kept(r)
<1>0. UNCHANGED <<tables, overtaken, stray, signInVars>> /\ ~Closing(r)
  BY DEF EditPlan, Enter, Idle, Closing
<1>1. Inv /\ Local(r) /\ Owned(r) /\ Tables
  BY DEF Facts, Inv
<1>2. Moved(r, At("row", "plan", None, None, [code |-> code, status |-> status], None))
  BY <1>1, Enters DEF EditPlan
<1>3. Owned(r)'
  BY <1>0, <1>1, <1>2 DEF Moved, At, Owned, Placed, Sees, tables, signInVars, Edits
<1> QED BY <1>0, <1>2, <1>3, Reading

LEMMA CallbackKept ==
    ASSUME Facts, NEW r \in Requests, NEW f \in Flows, Callback(r, f)
    PROVE  Kept(r)
<1>0. UNCHANGED <<tables, overtaken, stray, signInVars>> /\ ~Closing(r)
  BY DEF Callback, Enter, Idle, Closing
<1>1. Inv /\ Local(r) /\ Owned(r) /\ Tables
  BY DEF Facts, Inv
<1>2. Moved(r, At("get", "callback", None, f, None, None))
  BY <1>1, Enters DEF Callback
<1>3. Owned(r)'
  BY <1>0, <1>1, <1>2 DEF Moved, At, Owned, Placed, Sees, tables, signInVars
<1> QED BY <1>0, <1>2, <1>3, Reading

-----------------------------------------------------------------------------
(***************************************************************************)
(* Statements that write, but nothing that a request relies on.             *)
(***************************************************************************)
LEMMA Writing ==
    ASSUME Facts, NEW r \in Requests, UNCHANGED <<plan, operators, overtaken, signInVars>>,
           Admins \subseteq Admins', Tables', NEW q, Moved(r, q), Owned(r)', StaysClosed(r)
    PROVE  Kept(r)
<1>1. Remembered
  BY DEF Facts, Tables, Remembered
<1>2. \A f \in Flows : State(f) => State(f)'
  BY DEF State, signInVars
<1>3. Heeded(r)
  BY <1>1, <1>2 DEF Heeded
<1>4. Spent'
  BY DEF Facts, Spent, signInVars
<1> QED BY <1>3, <1>4 DEF Kept, Moved

LEMMA NoMorePending ==
    ASSUME UNCHANGED plan, stray \subseteq stray', NEW r, ~Closing(r),
           \A i \in Invites : Pending(i)' => Pending(i)
    PROVE  StaysClosed(r)
BY DEF StaysClosed

LEMMA SameAdmins == UNCHANGED member => Admins' = Admins
BY DEF Admins, In

\* Marking an invitation, whatever the mark says, makes none pending that was
\* not, and revoking makes some of them not pending.
LEMMA MarkedPending ==
    ASSUME Letters, NEW j \in Invites, invite[j] # None,
           \/ invite' = [invite EXCEPT ![j].accepted = TRUE]
           \/ invite' = [invite EXCEPT ![j].revoked = TRUE]
           \/ invite' = [invite EXCEPT ![j].lapsed = TRUE]
           \/ \E n : invite' = [invite EXCEPT ![j].key = n, ![j].lapsed = FALSE]
    PROVE  \A i \in Invites : Pending(i)' => Pending(i)
<1>1. invite[j] \in Letter
  BY DEF Letters
<1>2. \A i \in Invites \ {j} : invite'[i] = invite[i]
  BY DEF Letters
<1>3. invite'[j].accepted \in {invite[j].accepted, TRUE} /\ invite'[j].revoked \in {invite[j].revoked, TRUE}
  <2>1. CASE invite' = [invite EXCEPT ![j].accepted = TRUE]
    BY <1>1, <2>1 DEF Letters, Letter
  <2>2. CASE invite' = [invite EXCEPT ![j].revoked = TRUE]
    BY <1>1, <2>2 DEF Letters, Letter
  <2>3. CASE invite' = [invite EXCEPT ![j].lapsed = TRUE]
    BY <1>1, <2>3 DEF Letters, Letter
  <2>4. ASSUME NEW n, invite' = [invite EXCEPT ![j].key = n, ![j].lapsed = FALSE]
        PROVE  invite'[j].accepted = invite[j].accepted /\ invite'[j].revoked = invite[j].revoked
    BY <1>1, <2>4 DEF Letters, Letter
  <2> QED BY <2>1, <2>2, <2>3, <2>4
<1> QED BY <1>2, <1>3 DEF Pending

LEMMA RevokedPending ==
    ASSUME Letters, NEW which \in SUBSET Invites, invite' = Revoked(which)
    PROVE  \A i \in Invites : Pending(i)' => Pending(i) /\ i \notin which
<1> SUFFICES ASSUME NEW i \in Invites, Pending(i)'
             PROVE  Pending(i) /\ i \notin which
  OBVIOUS
<1>1. CASE i \in which /\ Pending(i)
  <2>1. invite'[i] = [invite[i] EXCEPT !.revoked = TRUE] /\ invite[i] \in Letter
    BY <1>1 DEF Revoked, Letters, Pending
  <2>2. invite'[i].revoked = TRUE
    BY <2>1 DEF Letter
  <2> QED BY <2>2 DEF Pending
<1>2. CASE ~(i \in which /\ Pending(i))
  <2>1. invite'[i] = invite[i]
    BY <1>2 DEF Revoked
  <2> QED BY <1>2, <2>1 DEF Pending
<1> QED BY <1>1, <1>2

\* RevokePending leaves nothing open that is not known to have been left open.
LEMMA RevokedOrStray ==
    ASSUME Letters, Tables, NEW r, RevokePending(r)
    PROVE  /\ \A i \in Invites : Pending(i)' => Pending(i) /\ i \in stray'
           /\ stray \subseteq stray' /\ stray' \subseteq Invites
<1>1. CASE invite' = Revoked(Invites) /\ UNCHANGED stray
  BY <1>1, RevokedPending DEF Tables
<1>2. CASE stray' = stray \cup {i \in Invites : Pending(i)} /\ UNCHANGED invite
  BY <1>2 DEF Tables, Pending
<1> QED BY <1>1, <1>2 DEF RevokePending

LEMMA SweepKept ==
    ASSUME Facts, NEW r \in Requests, UNCHANGED signInVars, Sweep(r)
    PROVE  Kept(r)
<1>1. Inv /\ Tables /\ Letters /\ UNCHANGED <<plan, operators, overtaken, member>>
  BY DEF Facts, Inv, Sweep
<1>2. Moved(r, At("entitled", req[r].op, req[r].who, req[r].on, req[r].as, req[r].saw))
  BY <1>1, Goes DEF Sweep
<1>3. Owned(r)'
  BY <1>2 DEF Moved, At, Owned, Placed, Sees
<1>4. /\ \A i \in Invites : Pending(i)' => Pending(i) /\ i \in stray'
      /\ stray \subseteq stray' /\ stray' \subseteq Invites
  BY <1>1, RevokedOrStray DEF Sweep
<1>5. Tables'
  BY <1>1, <1>4 DEF Sweep, Tables, signInVars
<1>6. StaysClosed(r)
  BY <1>1, <1>4 DEF StaysClosed
<1> QED BY <1>1, <1>2, <1>3, <1>5, <1>6, SameAdmins, Writing

LEMMA CloseInvitesKept ==
    ASSUME Facts, NEW r \in Requests, UNCHANGED signInVars, CloseInvites(r)
    PROVE  Kept(r)
<1>1. Inv /\ Tables /\ Letters /\ Owned(r) /\ UNCHANGED <<plan, operators, overtaken, member>>
  BY DEF Facts, Inv, CloseInvites
<1>2. Moved(r, At("demote", req[r].op, req[r].who, req[r].on, req[r].as, req[r].saw))
  BY <1>1, Goes DEF CloseInvites
<1>3. Owned(r)'
  BY <1>1, <1>2 DEF Moved, At, Owned, Placed, Sees, CloseInvites
<1>4. /\ \A i \in Invites : Pending(i)' => Pending(i) /\ i \in stray'
      /\ stray \subseteq stray' /\ stray' \subseteq Invites
  BY <1>1, RevokedOrStray DEF CloseInvites
<1>5. Tables'
  BY <1>1, <1>4 DEF CloseInvites, Tables, signInVars
<1>6. StaysClosed(r)
  BY <1>1, <1>4 DEF StaysClosed
<1> QED BY <1>1, <1>2, <1>3, <1>5, <1>6, SameAdmins, Writing

LEMMA AbandonKept ==
    ASSUME Facts, NEW r \in Requests, UNCHANGED signInVars, Abandon(r)
    PROVE  Kept(r)
<1>1. Inv /\ Tables /\ UNCHANGED <<plan, operators, overtaken, member, invite>>
  BY DEF Facts, Inv, Abandon, tables
<1>2. Moved(r, At("over", None, None, None, None, None)) /\ Owned(r)'
  BY <1>1, OverOwned DEF Abandon
<1>3. /\ stray \subseteq stray' /\ stray' \subseteq Invites
      /\ Closing(r) => \A i \in Invites : Pending(i) => i \in stray'
  BY <1>1 DEF Abandon, Closing, Tables
<1>4. Tables'
  BY <1>1, <1>3 DEF Abandon, Tables, tables, signInVars
<1>5. StaysClosed(r)
  BY <1>1, <1>3 DEF StaysClosed, Pending
<1> QED BY <1>1, <1>2, <1>4, <1>5, SameAdmins, Writing

LEMMA ReplaceOlderKept ==
    ASSUME Facts, NEW r \in Requests, UNCHANGED signInVars, ReplaceOlder(r)
    PROVE  Kept(r)
<1>1. /\ Inv /\ Tables /\ Letters /\ Owned(r)
      /\ UNCHANGED <<plan, operators, overtaken, member, stray>> /\ ~Closing(r)
  BY DEF Facts, Inv, ReplaceOlder, Closing
<1>2. Moved(r, At("insert", req[r].op, req[r].who, req[r].on, req[r].as, req[r].saw))
  BY <1>1, Goes DEF ReplaceOlder
<1>3. Owned(r)'
  BY <1>1, <1>2 DEF Moved, At, Owned, Placed, Sees, ReplaceOlder
<1>4. StaysClosed(r)
  BY <1>1, RevokedPending, NoMorePending DEF ReplaceOlder
<1>5. Tables'
  BY <1>1 DEF ReplaceOlder, Tables, signInVars
<1> QED BY <1>1, <1>2, <1>3, <1>4, <1>5, SameAdmins, Writing

LEMMA RevokeKept ==
    ASSUME Facts, NEW r \in Requests, UNCHANGED signInVars, Revoke(r)
    PROVE  Kept(r)
<1>1. /\ Inv /\ Tables /\ Letters /\ Local(r)
      /\ UNCHANGED <<plan, operators, overtaken, member, stray>> /\ ~Closing(r)
  BY DEF Facts, Inv, Revoke, Closing
<1>2. Moved(r, At("over", None, None, None, None, None)) /\ Owned(r)'
  BY <1>1, OverOwned DEF Revoke
<1>3. {req[r].on} \in SUBSET Invites
  BY <1>1 DEF Revoke, Local, Named, Busy
<1>4. StaysClosed(r)
  BY <1>1, <1>3, RevokedPending, NoMorePending DEF Revoke
<1>5. Tables'
  BY <1>1 DEF Revoke, Tables, signInVars
<1> QED BY <1>1, <1>2, <1>4, <1>5, SameAdmins, Writing

LEMMA UndoKept ==
    ASSUME Facts, NEW r \in Requests, UNCHANGED signInVars, Undo(r)
    PROVE  Kept(r)
<1>1. /\ Inv /\ Tables /\ Letters /\ Local(r)
      /\ UNCHANGED <<plan, operators, overtaken, member, stray>> /\ ~Closing(r)
  BY DEF Facts, Inv, Undo, Closing
<1>2. Moved(r, At("over", None, None, None, None, None)) /\ Owned(r)'
  BY <1>1, OverOwned DEF Undo
<1>3. req[r].saw.inv \in Invites /\ invite[req[r].saw.inv] # None
  BY <1>1 DEF Undo, Local, Named
<1>4. \A i \in Invites : Pending(i)' => Pending(i)
  <2>1. CASE invite' = [invite EXCEPT ![req[r].saw.inv].revoked = TRUE]
    BY <1>1, <1>3, <2>1, MarkedPending
  <2>2. CASE UNCHANGED invite
    BY <2>2 DEF Pending
  <2> QED BY <2>1, <2>2 DEF Undo
<1>5. StaysClosed(r)
  BY <1>1, <1>4, NoMorePending
<1>6. Tables'
  BY <1>1 DEF Undo, Tables, signInVars
<1> QED BY <1>1, <1>2, <1>5, <1>6, SameAdmins, Writing

LEMMA RekeyKept ==
    ASSUME Facts, NEW r \in Requests, UNCHANGED signInVars, Rekey(r)
    PROVE  Kept(r)
<1>1. /\ Inv /\ Tables /\ Letters /\ Local(r)
      /\ UNCHANGED <<plan, operators, overtaken, member, stray>> /\ ~Closing(r)
  BY DEF Facts, Inv, Rekey, Closing
<1>2. Tables'
  BY <1>1 DEF Rekey, Tables, signInVars
<1> DEFINE i == req[r].on
<1>3. CASE Pending(i)
  <2>1. i \in Invites /\ invite[i] \in Letter /\ invite[i] # None
    BY <1>1, <1>3 DEF Rekey, Local, Named, Busy, Letters, Pending
  <2>2. Moved(r, At("mail", req[r].op, req[r].who, i, req[r].as, [inv |-> i, key |-> invite[i].key + 1]))
    BY <1>1, <1>3, Keeps DEF Rekey
  <2>3. [inv |-> i, key |-> invite[i].key + 1] \in Links
    BY <2>1 DEF Links, Letter
  <2>4. Owned(r)'
    BY <2>2, <2>3 DEF Moved, At, Owned, Placed, Sees
  <2>5. \A j \in Invites : Pending(j)' => Pending(j)
    <3>1. invite' = [invite EXCEPT ![i].key = invite[i].key + 1, ![i].lapsed = FALSE]
      BY <1>1, <1>3, <2>1 DEF Rekey, Letters
    <3> QED BY <1>1, <2>1, <3>1, MarkedPending
  <2>6. StaysClosed(r)
    BY <1>1, <2>5, NoMorePending
  <2> QED BY <1>1, <1>2, <2>2, <2>4, <2>6, SameAdmins, Writing
<1>4. CASE ~Pending(i)
  <2>1. UNCHANGED invite /\ Finish(r)
    BY <1>4 DEF Rekey
  <2>2. StaysClosed(r)
    BY <1>1, <2>1, NoMorePending DEF Pending
  <2> QED BY <1>1, <1>2, <2>1, <2>2, OverOwned, SameAdmins, Writing
<1> QED BY <1>3, <1>4

\* The heart of FreeClosed: an invitation is added to a free workspace only by
\* a request whose check of the plan was overtaken, and is counted as stray.
LEMMA InsertKept ==
    ASSUME Facts, NEW r \in Requests, UNCHANGED signInVars, Insert(r)
    PROVE  Kept(r)
<1>1. /\ Inv /\ Tables /\ Letters /\ Local(r) /\ Owned(r)
      /\ UNCHANGED <<plan, operators, overtaken, member>> /\ ~Closing(r)
      /\ req[r].pc = "insert"
  BY DEF Facts, Inv, Insert, Closing
<1>2. CASE Finish(r) /\ UNCHANGED <<invite, stray>>
  <2>1. StaysClosed(r)
    BY <1>1, <1>2, NoMorePending DEF Pending
  <2>2. Tables'
    BY <1>1, <1>2 DEF Insert, Tables, signInVars
  <2> QED BY <1>1, <1>2, <2>1, <2>2, OverOwned, SameAdmins, Writing
<1>3. ASSUME NEW i \in Invites,
             invite' = [invite EXCEPT ![i] = Fresh(req[r].on, req[r].as)],
             stray' = IF plan.code = "free" /\ overtaken[r] THEN stray \cup {i} ELSE stray,
             Keep(r, [inv |-> i, key |-> 0], "mail")
      PROVE  Kept(r)
  <2>1. Moved(r, At("mail", req[r].op, req[r].who, req[r].on, req[r].as, [inv |-> i, key |-> 0]))
    BY <1>1, <1>3, Keeps
  <2>2. Owned(r)'
    BY <2>1 DEF Moved, At, Owned, Placed, Sees, Links
  <2>3. \A j \in Invites \ {i} : invite'[j] = invite[j]
    BY <1>1, <1>3 DEF Letters
  <2>4. plan.code = "free" => i \in stray'
    BY <1>1, <1>3 DEF Owned, Sees
  <2>5. StaysClosed(r)
    BY <1>1, <1>3, <2>3, <2>4 DEF StaysClosed, Pending
  <2>6. Tables'
    BY <1>1, <1>3 DEF Insert, Tables, signInVars
  <2> QED BY <1>1, <2>1, <2>2, <2>5, <2>6, SameAdmins, Writing
<1> QED BY <1>2, <1>3 DEF Insert

LEMMA MailKept ==
    ASSUME Facts, NEW r \in Requests, UNCHANGED signInVars, Mail(r)
    PROVE  Kept(r)
<1>1. /\ Inv /\ Tables /\ Owned(r)
      /\ UNCHANGED <<plan, operators, overtaken, member, invite, stray>> /\ ~Closing(r)
  BY DEF Facts, Inv, Mail, Closing
<1>2. links' \subseteq Links
  BY <1>1 DEF Mail, Owned, Placed, Tables
<1>3. Tables'
  BY <1>1, <1>2 DEF Mail, Tables, signInVars
<1>4. StaysClosed(r)
  BY <1>1, NoMorePending DEF Pending
<1>5. CASE Finish(r)
  BY <1>1, <1>3, <1>4, <1>5, OverOwned, SameAdmins, Writing
<1>6. CASE Goto(r, "undo")
  <2>1. Moved(r, At("undo", req[r].op, req[r].who, req[r].on, req[r].as, req[r].saw))
    BY <1>1, <1>6, Goes
  <2>2. Owned(r)'
    BY <2>1 DEF Moved, At, Owned, Placed, Sees
  <2> QED BY <1>1, <1>3, <1>4, <2>1, <2>2, SameAdmins, Writing
<1> QED BY <1>5, <1>6 DEF Mail

LEMMA AcceptedPending ==
    ASSUME Letters, NEW i \in Invites \cup {None}, i # None => invite[i] # None, invite' = Accepted(i)
    PROVE  \A j \in Invites : Pending(j)' => Pending(j)
<1>1. CASE i = None
  BY <1>1 DEF Accepted, Pending
<1>2. CASE i # None
  BY <1>2, MarkedPending DEF Accepted
<1> QED BY <1>1, <1>2

\* What a sign-in has found.
LEMMA FoundInvite ==
    ASSUME Inv, NEW r \in Requests, req[r].pc \in {"accept", "link", "join"}
    PROVE  /\ req[r].saw \in Invites \cup {None}
           /\ req[r].saw # None => invite[req[r].saw] # None
           /\ req[r].on \in Identities
BY DEF Inv, Local, Invited

LEMMA RefreshAndAcceptKept ==
    ASSUME Facts, NEW r \in Requests, UNCHANGED signInVars, RefreshAndAccept(r)
    PROVE  Kept(r)
<1>1. /\ Inv /\ Tables /\ Letters
      /\ UNCHANGED <<plan, operators, overtaken, member, stray>> /\ ~Closing(r)
  BY DEF Facts, Inv, RefreshAndAccept, Closing
<1>2. StaysClosed(r)
  BY <1>1, FoundInvite, AcceptedPending, NoMorePending DEF RefreshAndAccept
<1>3. Tables'
  BY <1>1 DEF RefreshAndAccept, Tables, signInVars
<1>4. Finish(r)
  BY DEF RefreshAndAccept
<1> QED BY <1>1, <1>2, <1>3, <1>4, OverOwned, SameAdmins, Writing

LEMMA LinkExistingKept ==
    ASSUME Facts, NEW r \in Requests, UNCHANGED signInVars, LinkExisting(r)
    PROVE  Kept(r)
<1>1. /\ Inv /\ Tables /\ Letters
      /\ UNCHANGED <<plan, operators, overtaken, member, stray>> /\ ~Closing(r)
  BY DEF Facts, Inv, LinkExisting, Closing
<1>2. StaysClosed(r)
  BY <1>1, FoundInvite, AcceptedPending, NoMorePending DEF LinkExisting
<1>3. req[r].on \in Identities
  BY <1>1, FoundInvite DEF LinkExisting
<1>4. Tables'
  BY <1>1, <1>3 DEF LinkExisting, Tables, signInVars
<1>5. Finish(r)
  BY DEF LinkExisting
<1> QED BY <1>1, <1>2, <1>4, <1>5, OverOwned, SameAdmins, Writing

\* Who gets a first seat takes no admin's.
LEMMA SeatedKeepsAdmins ==
    ASSUME Members, NEW e \in Emails, member[e] = None, NEW seat, member' = [member EXCEPT ![e] = seat]
    PROVE  Admins \subseteq Admins'
BY DEF Members, Admins, In

LEMMA JoinKept ==
    ASSUME Facts, NEW r \in Requests, UNCHANGED signInVars, Join(r)
    PROVE  Kept(r)
<1>1. /\ Inv /\ Tables /\ Letters /\ Members /\ Local(r)
      /\ UNCHANGED <<plan, operators, overtaken, stray>> /\ ~Closing(r)
      /\ Finish(r) /\ req[r].pc = "join"
  BY DEF Facts, Inv, Join, Closing
<1>2. Person(r) \in Emails /\ req[r].on \in Identities
  BY <1>1, PersonKnown, FoundInvite
<1>3. Admins \subseteq Admins'
  BY <1>1, <1>2, SeatedKeepsAdmins, SameAdmins DEF Join
<1>4. StaysClosed(r)
  <2>1. CASE invite' = Accepted(req[r].saw)
    BY <1>1, <2>1, FoundInvite, AcceptedPending, NoMorePending
  <2>2. CASE UNCHANGED invite
    BY <1>1, <2>2, NoMorePending DEF Pending
  <2> QED BY <2>1, <2>2 DEF Join
<1>5. Tables'
  BY <1>1, <1>2 DEF Join, Tables, signInVars
<1> QED BY <1>1, <1>3, <1>4, <1>5, OverOwned, Writing

LEMMA FoundKept ==
    ASSUME Facts, NEW r \in Requests, UNCHANGED signInVars, Found(r)
    PROVE  Kept(r)
<1>1. /\ Inv /\ Tables /\ Members /\ Local(r)
      /\ UNCHANGED <<plan, operators, overtaken, stray, invite>> /\ ~Closing(r)
      /\ Finish(r) /\ req[r].pc = "found"
  BY DEF Facts, Inv, Found, Closing
<1>2. Person(r) \in Emails /\ req[r].on \in Identities
  BY <1>1, PersonKnown DEF Local, Invited
<1>3. Admins \subseteq Admins'
  BY <1>1, <1>2, SeatedKeepsAdmins, SameAdmins DEF Found
<1>4. StaysClosed(r)
  BY <1>1, NoMorePending DEF Pending
<1>5. Tables'
  BY <1>1, <1>2 DEF Found, Tables, signInVars
<1> QED BY <1>1, <1>3, <1>4, <1>5, OverOwned, Writing

LEMMA ProvisionKept ==
    ASSUME Facts, NEW r \in Requests, UNCHANGED signInVars, NEW e \in Emails, Provision(r, e)
    PROVE  Kept(r)
<1>1. /\ Inv /\ Tables /\ Members
      /\ UNCHANGED <<plan, operators, overtaken, stray, invite>> /\ ~Closing(r)
  BY DEF Facts, Inv, Provision, Once, Enter, Idle, Closing
<1>2. Moved(r, At("over", None, None, None, None, None))
  BY <1>1, Enters DEF Provision, Once
<1>3. Owned(r)'
  BY <1>2 DEF Moved, At, Owned, Placed, Sees
<1>4. Admins \subseteq Admins'
  BY <1>1, SeatedKeepsAdmins DEF Provision
<1>5. StaysClosed(r)
  BY <1>1, NoMorePending DEF Pending
<1>6. Tables'
  BY <1>1 DEF Provision, Tables, signInVars
<1> QED BY <1>1, <1>2, <1>3, <1>4, <1>5, <1>6, Writing

-----------------------------------------------------------------------------
(***************************************************************************)
(* Statements that change what others rely on.                             *)
(***************************************************************************)
LEMMA SameStates == UNCHANGED flow => \A f \in Flows : State(f) => State(f)'
BY DEF State

LEMMA SameSpent == ASSUME Facts, UNCHANGED signInVars PROVE Spent'
BY DEF Facts, Spent, signInVars

LEMMA ExpireKept ==
    ASSUME Facts, NEW r \in Requests, UNCHANGED signInVars, Expire(r)
    PROVE  Kept(r)
<1>1. /\ Inv /\ Tables
      /\ UNCHANGED <<member, invite, operators, stray, flow>> /\ ~Closing(r)
  BY DEF Facts, Inv, Expire, Closing, signInVars
<1>2. CASE TrialOver
  <2>1. /\ plan' = [code |-> "free", status |-> "active"]
        /\ Note(r, "plan") /\ Goto(r, "sweep")
    BY <1>2 DEF Expire
  <2>2. Moved(r, At("sweep", req[r].op, req[r].who, req[r].on, req[r].as, req[r].saw))
    BY <1>1, <2>1, Goes
  <2>3. Owned(r)' /\ Closing(r)'
    BY <2>2 DEF Moved, At, Owned, Placed, Sees, Closing
  <2>4. Remembered /\ Told(r, "plan")
    BY <1>1, <2>1, Notes
  <2>5. Heeded(r)
    BY <1>1, <2>4, SameAdmins, SameStates DEF Heeded
  <2>6. StaysClosed(r)
    BY <1>1, <2>3 DEF StaysClosed, Pending
  <2>7. Tables'
    <3>1. plan' \in Plans
      BY <2>1 DEF Plans, Codes, Standing
    <3> QED BY <1>1, <2>4, <3>1 DEF Expire, Tables, signInVars, Remembered
  <2> QED BY <2>2, <2>3, <2>5, <2>6, <2>7, SameSpent DEF Kept, Moved
<1>3. CASE ~TrialOver
  <2>1. UNCHANGED <<plan, overtaken>> /\ Goto(r, "entitled")
    BY <1>3 DEF Expire
  <2>2. Moved(r, At("entitled", req[r].op, req[r].who, req[r].on, req[r].as, req[r].saw))
    BY <1>1, <2>1, Goes
  <2>3. Owned(r)'
    BY <2>2 DEF Moved, At, Owned, Placed, Sees
  <2>4. StaysClosed(r)
    BY <1>1, <2>1, NoMorePending DEF Pending
  <2>5. Tables'
    BY <1>1, <2>1 DEF Expire, Tables, signInVars
  <2> QED BY <1>1, <2>1, <2>2, <2>3, <2>4, <2>5, SameAdmins, Writing
<1> QED BY <1>2, <1>3

LEMMA SetRoleKept ==
    ASSUME Facts, NEW r \in Requests, UNCHANGED signInVars, SetRole(r)
    PROVE  Kept(r)
<1>1. /\ Inv /\ Tables
      /\ UNCHANGED <<plan, invite, operators, stray, flow>> /\ ~Closing(r)
      /\ Finish(r) /\ Note(r, "roles")
  BY DEF Facts, Inv, SetRole, Closing, signInVars
<1>2. Moved(r, At("over", None, None, None, None, None)) /\ Owned(r)'
  BY <1>1, OverOwned
<1>3. Remembered /\ Told(r, "roles")
  BY <1>1, Notes
<1>4. Heeded(r)
  BY <1>1, <1>3, SameStates DEF Heeded
<1>5. StaysClosed(r)
  BY <1>1, NoMorePending DEF Pending
<1>6. Tables'
  BY <1>1, <1>3 DEF SetRole, Tables, signInVars, Remembered
<1> QED BY <1>2, <1>4, <1>5, <1>6, SameSpent DEF Kept, Moved

LEMMA DemoteOthersKept ==
    ASSUME Facts, NEW r \in Requests, UNCHANGED signInVars, DemoteOthers(r)
    PROVE  Kept(r)
<1>1. /\ Inv /\ Tables
      /\ UNCHANGED <<plan, invite, operators, stray, flow>> /\ ~Closing(r)
      /\ Finish(r)
  BY DEF Facts, Inv, DemoteOthers, Closing, signInVars
<1>2. Moved(r, At("over", None, None, None, None, None)) /\ Owned(r)'
  BY <1>1, OverOwned
<1>3. Remembered /\ (UNCHANGED member \/ Told(r, "roles"))
  BY <1>1, Notes DEF DemoteOthers, Remembered, Tables
<1>4. Heeded(r)
  BY <1>1, <1>3, SameAdmins, SameStates DEF Heeded
<1>5. StaysClosed(r)
  BY <1>1, NoMorePending DEF Pending
<1>6. Tables'
  BY <1>1, <1>3 DEF DemoteOthers, Tables, signInVars, Remembered
<1> QED BY <1>2, <1>4, <1>5, <1>6, SameSpent DEF Kept, Moved

LEMMA PromoteKept ==
    ASSUME Facts, NEW r \in Requests, UNCHANGED signInVars, Promote(r)
    PROVE  Kept(r)
<1>1. /\ Inv /\ Tables /\ Owned(r)
      /\ UNCHANGED <<plan, member, invite, stray, flow>> /\ ~Closing(r)
      /\ Finish(r) /\ Note(r, "operators")
  BY DEF Facts, Inv, Promote, Closing, signInVars
<1>2. Moved(r, At("over", None, None, None, None, None)) /\ Owned(r)'
  BY <1>1, OverOwned
<1>3. Remembered /\ Told(r, "operators")
  BY <1>1, Notes
<1>4. Heeded(r)
  BY <1>1, <1>3, SameAdmins, SameStates DEF Heeded
<1>5. StaysClosed(r)
  BY <1>1, NoMorePending DEF Pending
<1>6. operators' \subseteq Emails
  BY <1>1 DEF Promote, Owned, Placed, Tables
<1>7. Tables'
  BY <1>1, <1>3, <1>6 DEF Promote, Tables, signInVars, Remembered
<1> QED BY <1>2, <1>4, <1>5, <1>7, SameSpent DEF Kept, Moved

\* Left out fields come from the row that was read.
LEMMA CoalesceKnown ==
    ASSUME NEW r, req[r].as \in Edits, req[r].saw \in Plans
    PROVE  /\ Coalesce(r, "code") \in Codes /\ Coalesce(r, "status") \in Standing
           /\ Coalesce(r, "code") \in {req[r].as.code, req[r].saw.code}
BY DEF Coalesce, Edits, Plans

LEMMA WritePlanKept ==
    ASSUME Facts, NEW r \in Requests, UNCHANGED signInVars, WritePlan(r)
    PROVE  Kept(r)
<1>1. /\ Inv /\ Tables /\ Owned(r)
      /\ UNCHANGED <<operators, member, invite, stray, flow>> /\ ~Closing(r)
      /\ Note(r, "plan") /\ req[r].pc = "write"
      /\ plan' = [code |-> Coalesce(r, "code"), status |-> Coalesce(r, "status")]
  BY DEF Facts, Inv, WritePlan, Closing, signInVars
<1>2. req[r].op = "plan" /\ req[r].as \in Edits /\ req[r].saw \in Plans
  BY <1>1 DEF Owned, Placed
<1>3. plan' \in Plans
  BY <1>1, <1>2, CoalesceKnown DEF Plans
<1>4. Remembered /\ Told(r, "plan")
  BY <1>1, Notes
<1>5. Heeded(r)
  BY <1>1, <1>4, SameAdmins, SameStates DEF Heeded
<1>6. Tables'
  BY <1>1, <1>3, <1>4 DEF WritePlan, Tables, signInVars, Remembered
<1>7. CASE Coalesce(r, "code") = "free"
  <2>1. Moved(r, At("close", req[r].op, req[r].who, req[r].on, req[r].as, req[r].saw))
    BY <1>1, <1>7, Goes DEF WritePlan
  <2>2. Owned(r)' /\ Closing(r)'
    BY <1>2, <2>1 DEF Moved, At, Owned, Placed, Sees, Closing
  <2>3. StaysClosed(r)
    BY <1>1, <2>2 DEF StaysClosed, Pending
  <2> QED BY <1>5, <1>6, <2>1, <2>2, <2>3, SameSpent DEF Kept, Moved
<1>8. CASE Coalesce(r, "code") # "free"
  <2>1. Moved(r, At("over", None, None, None, None, None)) /\ Owned(r)'
    BY <1>1, <1>8, OverOwned DEF WritePlan
  <2>2. plan'.code # "free"
    BY <1>1, <1>8
  <2>3. StaysClosed(r)
    BY <1>1, <2>2 DEF StaysClosed, Pending
  <2> QED BY <1>5, <1>6, <2>1, <2>3, SameSpent DEF Kept, Moved
<1> QED BY <1>7, <1>8

-----------------------------------------------------------------------------
(***************************************************************************)
(* The sign-in flow.                                                       *)
(***************************************************************************)
LEMMA StartFlowKept ==
    ASSUME Facts, NEW r \in Requests, NEW f \in Flows, NEW link, StartFlow(r, f, link)
    PROVE  Kept(r)
<1>1. /\ Inv /\ Tables
      /\ UNCHANGED <<plan, operators, member, invite, overtaken, stray, passed>> /\ ~Closing(r)
      /\ flow[f] = None /\ flow' = [flow EXCEPT ![f] = [link |-> link]]
  BY DEF Facts, Inv, StartFlow, tables, Enter, Idle, Closing
<1>2. Moved(r, At("get", "callback", None, f, None, None))
  BY <1>1, Enters DEF StartFlow
<1>3. Owned(r)'
  BY <1>2 DEF Moved, At, Owned, Placed, Sees
<1>4. \A g \in Flows : g # f => flow'[g] = flow[g]
  BY <1>1 DEF Tables
<1>5. \A g \in Flows : State(g) => State(g)'
  BY <1>1, <1>4 DEF State
<1>6. Heeded(r)
  BY <1>1, <1>5, SameAdmins DEF Heeded, Remembered, Tables
<1>7. StaysClosed(r)
  BY <1>1, NoMorePending DEF Pending
<1>8. Spent'
  BY <1>1, <1>4, SignInAssumption DEF Facts, Spent
<1>9. Tables'
  BY <1>1 DEF StartFlow, Tables, tables
<1> QED BY <1>2, <1>3, <1>6, <1>7, <1>8, <1>9 DEF Kept, Moved

LEMMA DelStateKept ==
    ASSUME Facts, NEW r \in Requests, DelState(r)
    PROVE  Kept(r)
<1>1. /\ Inv /\ Tables /\ Owned(r)
      /\ UNCHANGED <<plan, operators, member, invite, stray>> /\ ~Closing(r)
      /\ req[r].pc = "del" /\ Goto(r, "redeem")
  BY DEF Facts, Inv, DelState, tables, Closing
<1>2. Moved(r, At("redeem", req[r].op, req[r].who, req[r].on, req[r].as, req[r].saw))
  BY <1>1, Goes
<1>3. Owned(r)'
  BY <1>2 DEF Moved, At, Owned, Placed, Sees
<1>4. StaysClosed(r)
  BY <1>1, NoMorePending DEF Pending
<1> DEFINE f == req[r].on
<1>5. f \in Flows
  BY <1>1 DEF Owned, Placed
<1>6. CASE flow' = [flow EXCEPT ![f] = Gone] /\ passed' = [passed EXCEPT ![f] = @ + 1] /\ Note(r, "states")
  <2>1. Remembered /\ Told(r, "states")
    BY <1>1, <1>6, Notes
  <2>2. Heeded(r)
    BY <1>1, <2>1, SameAdmins DEF Heeded
  <2>3. Spent'
    BY <1>1, <1>5, <1>6 DEF Facts, Spent, Tables
  <2>4. passed' \in [Flows -> Nat] /\ DOMAIN flow' = Flows
    BY <1>1, <1>5, <1>6 DEF Tables
  <2>5. Tables'
    BY <1>1, <2>1, <2>4 DEF DelState, Tables, tables, Remembered
  <2> QED BY <1>2, <1>3, <1>4, <2>2, <2>3, <2>5 DEF Kept, Moved
<1>7. CASE UNCHANGED <<flow, passed, overtaken>>
  <2>1. UNCHANGED signInVars
    BY <1>7 DEF signInVars
  <2>2. Tables'
    BY <1>1, <1>7 DEF DelState, Tables, tables
  <2> QED BY <1>1, <1>2, <1>3, <1>4, <1>7, <2>1, <2>2, SameAdmins, Writing
<1> QED BY <1>6, <1>7 DEF DelState

LEMMA RedeemKept ==
    ASSUME Facts, NEW r \in Requests, Redeem(r)
    PROVE  Kept(r)
<1>0. UNCHANGED <<tables, overtaken, stray, signInVars>> /\ ~Closing(r) /\ Inv
  BY DEF Redeem, Closing, Facts
<1>1. PICK i \in Identities : Moved(r, At("find", req[r].op, req[r].who, i, req[r].saw, None))
  BY <1>0, RedeemMoves
<1>2. Owned(r)'
  BY <1>1 DEF Moved, At, Owned, Placed, Sees
<1> QED BY <1>0, <1>1, <1>2, Reading

-----------------------------------------------------------------------------
(***************************************************************************)
(* The invariant.                                                          *)
(***************************************************************************)
LEMMA InitFacts == Init => Facts
<1> SUFFICES ASSUME Init
             PROVE  Facts
  OBVIOUS
<1>1. Inv
  BY InitInv
<1>2. Tables
  <2>1. plan \in Plans
    BY DEF Init, WorkspaceInit, Plans, Codes, Standing
  <2>2. links \subseteq Links
    BY DEF Init, WorkspaceInit, Links
  <2>3. operators \subseteq Emails
    BY WorkspaceAssumption DEF Init, WorkspaceInit
  <2>4. overdue \in BOOLEAN /\ linked \subseteq Identities /\ stray \subseteq Invites
    BY DEF Init, WorkspaceInit
  <2>5. overtaken \in [Requests -> BOOLEAN] /\ passed \in [Flows -> Nat] /\ DOMAIN flow = Flows
    BY DEF Init, WorkspaceInit, HandlerInit
  <2> QED BY <2>1, <2>2, <2>3, <2>4, <2>5 DEF Tables
<1>3. Spent
  BY DEF Init, Spent
<1>4. FreeClosed
  <2>1. plan.code = "free" => invite = [i \in Invites |-> None]
    BY DEF Init, WorkspaceInit
  <2> QED BY <2>1 DEF FreeClosed, Pending
<1>5. \A r \in Requests : Owned(r)
  BY DEF Init, WorkspaceInit, HandlerInit, Idle, Owned, Placed, Sees
<1> QED BY <1>1, <1>2, <1>3, <1>4, <1>5 DEF Facts

LEMMA OutsideKept ==
    ASSUME Facts, Environment, UNCHANGED signInVars
    PROVE  Kept(None)
<1>1. Inv /\ Tables /\ Letters /\ None \notin Requests
  BY RequestsAssumption DEF Facts, Inv
<1>2. UNCHANGED <<member, operators, req, stray, flow>>
  BY DEF Environment, ExpireOnIngest, TrialEnds, Lapse, signInVars
<1>3. CASE ExpireOnIngest
  <2>1. Remembered /\ Told(None, "plan")
    BY <1>1, <1>3, Notes DEF ExpireOnIngest
  <2>2. Heeded(None)
    BY <1>2, <2>1, SameAdmins, SameStates DEF Heeded
  <2>3. \A i \in Invites : ~Pending(i)'
    BY <1>1, <1>3, RevokedPending DEF ExpireOnIngest
  <2>4. StaysClosed(None)
    BY <1>1, <1>2, <2>3 DEF StaysClosed
  <2>5. Tables'
    <3>1. plan' \in Plans
      BY <1>3 DEF ExpireOnIngest, Plans, Codes, Standing
    <3> QED BY <1>1, <1>2, <1>3, <2>1, <3>1 DEF ExpireOnIngest, Tables, signInVars, Remembered
  <2> QED BY <1>1, <1>2, <2>2, <2>4, <2>5, SameSpent DEF Kept
<1>4. CASE TrialEnds
  <2>1. Heeded(None)
    BY <1>1, <1>2, <1>4, SameAdmins, SameStates DEF Heeded, TrialEnds, Remembered, Tables
  <2>2. StaysClosed(None)
    BY <1>1, <1>4 DEF StaysClosed, TrialEnds, Pending
  <2>3. Tables'
    BY <1>1, <1>4 DEF TrialEnds, Tables, signInVars
  <2> QED BY <1>1, <1>2, <2>1, <2>2, <2>3, SameSpent DEF Kept
<1>5. ASSUME NEW i \in Invites, Lapse(i)
      PROVE  Kept(None)
  <2>1. Heeded(None)
    BY <1>1, <1>2, <1>5, SameAdmins, SameStates DEF Heeded, Lapse, Remembered, Tables
  <2>2. \A j \in Invites : Pending(j)' => Pending(j)
    BY <1>1, <1>5, MarkedPending DEF Lapse, Live, Pending
  <2>3. StaysClosed(None)
    BY <1>1, <1>5, <2>2 DEF StaysClosed, Lapse
  <2>4. Tables'
    BY <1>1, <1>5 DEF Lapse, Tables, signInVars
  <2> QED BY <1>1, <1>2, <2>1, <2>3, <2>4, SameSpent DEF Kept
<1> QED BY <1>3, <1>4, <1>5 DEF Environment

LEMMA ArriveKept ==
    ASSUME Facts, NEW r \in Requests, UNCHANGED signInVars, Arrive(r)
    PROVE  Kept(r)
BY LookKept, ChangeRoleKept, CreateInviteKept, ResendInviteKept, RevokeInviteKept, BootstrapKept,
   ProvisionKept, EditPlanKept DEF Arrive

LEMMA ProceedKept ==
    ASSUME Facts, NEW r \in Requests, UNCHANGED signInVars, Proceed(r)
    PROVE  Kept(r)
<1>1. CASE Expire(r) \/ Sweep(r) \/ Entitled(r)
  BY <1>1, ExpireKept, SweepKept, EntitledKept
<1>2. CASE CountAdmins(r) \/ SetRole(r) \/ DemoteOthers(r)
  BY <1>2, CountAdminsKept, SetRoleKept, DemoteOthersKept
<1>3. CASE AlreadyMember(r) \/ ReplaceOlder(r) \/ Insert(r) \/ Rekey(r) \/ Mail(r) \/ Undo(r) \/ Revoke(r)
  BY <1>3, AlreadyMemberKept, ReplaceOlderKept, InsertKept, RekeyKept, MailKept, UndoKept, RevokeKept
<1>4. CASE OperatorExists(r) \/ Promote(r) \/ ReadPlan(r) \/ WritePlan(r) \/ CloseInvites(r)
  BY <1>4, OperatorExistsKept, PromoteKept, ReadPlanKept, WritePlanKept, CloseInvitesKept
<1>5. CASE FindInvite(r) \/ ByIdentity(r) \/ RefreshAndAccept(r) \/ ByEmail(r)
  BY <1>5, FindInviteKept, ByIdentityKept, RefreshAndAcceptKept, ByEmailKept
<1>6. CASE LinkExisting(r) \/ Join(r) \/ Found(r) \/ Abandon(r)
  BY <1>6, LinkExistingKept, JoinKept, FoundKept, AbandonKept
<1> QED BY <1>1, <1>2, <1>3, <1>4, <1>5, <1>6 DEF Proceed

LEMMA NextFacts == Facts /\ [Next]_vars => Facts'
<1> SUFFICES ASSUME Facts, [Next]_vars
             PROVE  Facts'
  OBVIOUS
<1>1. Inv'
  BY NextInv DEF Facts
<1>2. CASE WorkspaceStep
  <2>1. UNCHANGED signInVars
    BY <1>2 DEF WorkspaceStep
  <2>2. CASE Environment
    BY <1>1, <2>1, <2>2, OutsideKept, KeptFacts
  <2>3. ASSUME NEW r \in Requests, Arrive(r) \/ Proceed(r)
        PROVE  Facts'
    BY <1>1, <2>1, <2>3, ArriveKept, ProceedKept, KeptFacts
  <2> QED BY <1>2, <2>2, <2>3 DEF WorkspaceStep
<1>3. CASE SignInStep
  BY <1>1, <1>3, CallbackKept, StartFlowKept, GetStateKept, DelStateKept, RedeemKept, KeptFacts
     DEF SignInStep
<1>4. CASE UNCHANGED vars
  <2>1. UNCHANGED <<tables, req, overtaken, stray, signInVars>>
    BY <1>4 DEF vars, workspaceVars
  <2>2. Tables' /\ Spent' /\ FreeClosed'
    BY <2>1 DEF Facts, Tables, Spent, FreeClosed, Pending, tables, signInVars
  <2>3. \A r \in Requests : Owned(r)'
    BY <2>1 DEF Facts, Owned, Placed, Sees, Admins, In, State, tables, signInVars
  <2> QED BY <1>1, <2>2, <2>3 DEF Facts
<1> QED BY <1>2, <1>3, <1>4 DEF Next

-----------------------------------------------------------------------------
(***************************************************************************)
(* What follows for the tables.                                            *)
(***************************************************************************)
\* Every table and every request keeps its type, whatever requests interleave.
THEOREM WorkspaceTypes == Spec => []TypeOK
<1>1. Facts => TypeOK
  BY DEF Facts, Inv, Members, Letters, Tables, TypeOK
<1> QED BY InitFacts, NextFacts, <1>1, PTL DEF Spec

\* A workspace on the free plan has no open invitation but those that a request
\* is about to revoke, or that one which failed or was overtaken left behind.
THEOREM FreeStaysClosed == Spec => []FreeClosed
<1>1. Facts => FreeClosed  BY DEF Facts
<1> QED BY InitFacts, NextFacts, <1>1, PTL DEF Spec

LEMMA EndActs ==
    ASSUME Inv, NEW r \in Requests, Busy(r), Finish(r)
    PROVE  Acts(r)
BY DEF Inv, Finish, Over, Idle, Busy, Acts

\* Who sets a role, and has not been overtaken, leaves an admin.
LEMMA SetRoleLeaves ==
    ASSUME Facts, NEW r \in Requests, SetRole(r), ~overtaken[r], Admins # {}
    PROVE  Admins' # {}
<1>1. Inv /\ Members /\ Local(r) /\ Owned(r) /\ req[r].pc = "set"
  BY DEF Facts, Inv, SetRole
<1>2. PICK on \in Emails : on = req[r].on /\ In(on)
  BY <1>1 DEF Local, Named
<1>3. member' = [member EXCEPT ![on] = [member[on] EXCEPT !.role = req[r].as]]
  BY <1>1, <1>2 DEF SetRole, Members
<1>4. CASE req[r].as = "admin"
  <2>1. In(on)'
    BY <1>1, SetRoleReseats, <1>2
  <2>2. member[on] \in Seat
    BY <1>1, <1>2 DEF Members, In
  <2>3. member'[on].role = "admin"
    BY <1>1, <1>3, <1>4, <2>2 DEF Members, Seat
  <2> QED BY <2>1, <2>3 DEF Admins
<1>5. CASE req[r].as # "admin"
  <2>1. PICK e \in Admins : e # on
    BY <1>1, <1>2, <1>5 DEF Owned, Sees
  <2>2. member'[e] = member[e] /\ e \in Emails
    BY <1>1, <1>3, <2>1 DEF Members, Admins
  <2> QED BY <2>1, <2>2 DEF Admins, In
<1> QED BY <1>4, <1>5

\* The owner of a workspace that goes down to the free plan keeps the role.
LEMMA DemoteOthersLeaves ==
    ASSUME Inv, NEW r \in Requests, DemoteOthers(r), Admins # {}
    PROVE  Admins' # {}
<1>1. CASE UNCHANGED member
  BY <1>1, SameAdmins
<1>2. ASSUME NEW owner \in Admins,
             member' = [e \in Emails |-> IF In(e) /\ e # owner
                                         THEN [member[e] EXCEPT !.role = "viewer"] ELSE member[e]]
      PROVE  Admins' # {}
  <2>1. owner \in Emails /\ member'[owner] = member[owner]
    BY <1>2 DEF Admins
  <2> QED BY <1>2, <2>1 DEF Admins, In
<1> QED BY <1>1, <1>2 DEF DemoteOthers

LEMMA LeavesAdmin ==
    ASSUME Facts, [Next]_vars, Admins # {}, Admins' = {}
    PROVE  \E r \in Requests : Acts(r) /\ overtaken[r]
<1>1. Inv /\ Members
  BY DEF Facts, Inv
<1>2. ~UNCHANGED member
  BY SameAdmins
<1>3. PICK r \in Requests : Reseating(r)
  BY <1>2, StepWrites DEF Quiet, Written
<1>4. CASE SetRole(r)
  <2>1. overtaken[r]
    BY <1>4, SetRoleLeaves DEF Facts, Tables
  <2>2. Acts(r)
    BY <1>1, <1>4, EndActs DEF SetRole, Busy
  <2> QED BY <2>1, <2>2
<1>5. ~DemoteOthers(r)
  BY <1>1, DemoteOthersLeaves
<1>6. CASE Join(r) \/ Found(r)
  <2>1. Person(r) \in Emails
    BY <1>1, <1>6, PersonKnown DEF Inv, Join, Found
  <2> QED BY <1>1, <1>2, <1>6, <2>1, SeatedKeepsAdmins DEF Join, Found
<1>7. ASSUME NEW e \in Emails, Provision(r, e)
      PROVE  FALSE
  BY <1>1, <1>7, SeatedKeepsAdmins DEF Provision
<1> QED BY <1>3, <1>4, <1>5, <1>6, <1>7 DEF Reseating

\* The last admin of a workspace is lost only to a request that was overtaken:
\* one statement after another, the count of the admins would have refused it.
THEOREM LastAdminStays == Spec => AdminLeft
<1>1. Facts /\ [Next]_vars =>
         (Admins # {} /\ Admins' = {} => \E r \in Requests : Acts(r) /\ overtaken[r])
  BY LeavesAdmin
<1> QED BY InitFacts, NextFacts, <1>1, PTL DEF Spec, AdminLeft

LEMMA SecondOperator ==
    ASSUME Facts, [Next]_vars, operators # {}, operators' # operators
    PROVE  \E r \in Requests : Acts(r) /\ overtaken[r]
<1>1. PICK r \in Requests : Promote(r)
  BY StepWrites DEF Quiet, Written
<1>2. Inv /\ Owned(r) /\ req[r].pc = "promote"
  BY <1>1 DEF Facts, Promote
<1>3. overtaken[r]
  BY <1>2 DEF Facts, Tables, Owned, Sees
<1>4. Acts(r)
  BY <1>1, <1>2, EndActs DEF Promote, Busy
<1> QED BY <1>3, <1>4

\* The bootstrap makes a second operator only if it was overtaken by the first.
THEOREM BootstrapOnce == Spec => OneBootstrap
<1>1. Facts /\ [Next]_vars =>
         (operators # {} /\ operators' # operators => \E r \in Requests : Acts(r) /\ overtaken[r])
  BY SecondOperator
<1> QED BY InitFacts, NextFacts, <1>1, PTL DEF Spec, OneBootstrap

LEMMA Upgrades ==
    ASSUME Facts, [Next]_vars, plan.code = "free", plan'.code = "pro"
    PROVE  \E r \in Requests :
              Acts(r) /\ req[r].op = "plan" /\ (req[r].as.code = "pro" \/ overtaken[r])
<1>1. PICK r \in Requests : WritePlan(r)
  BY StepWrites DEF Quiet, Written
<1>2. Inv /\ Owned(r) /\ req[r].pc = "write"
  BY <1>1 DEF Facts, WritePlan
<1>3. req[r].op = "plan" /\ req[r].as \in Edits /\ req[r].saw \in Plans
  BY <1>2 DEF Owned, Placed
<1>4. plan'.code \in {req[r].as.code, req[r].saw.code}
  BY <1>1, <1>3, CoalesceKnown DEF WritePlan
<1>5. req[r].as.code = "pro" \/ overtaken[r]
  BY <1>2, <1>4 DEF Facts, Tables, Owned, Sees
<1>6. Coalesce(r, "code") # "free"
  BY <1>1 DEF WritePlan
<1>7. Acts(r)
  BY <1>1, <1>2, <1>6, EndActs DEF WritePlan, Busy
<1> QED BY <1>3, <1>5, <1>7

\* A free workspace gets back to the paid plan by an operator who asks for that,
\* or by one who wrote back a row that was no longer the one read.
THEOREM UpgradesAsked == Spec => UpgradesMeant
<1>1. Facts /\ [Next]_vars =>
         (plan.code = "free" /\ plan'.code = "pro" =>
             \E r \in Requests :
                Acts(r) /\ req[r].op = "plan" /\ (req[r].as.code = "pro" \/ overtaken[r]))
  BY Upgrades
<1> QED BY InitFacts, NextFacts, <1>1, PTL DEF Spec, UpgradesMeant

LEMMA SpendsAgain ==
    ASSUME Facts, [Next]_vars, NEW f \in Flows, passed'[f] > passed[f], passed[f] > 0
    PROVE  \E r \in Requests : Acts(r) /\ overtaken[r]
<1>1. passed \in [Flows -> Nat] /\ passed' # passed
  BY DEF Facts, Tables
<1>2. PICK r \in Requests : DelState(r)
  BY <1>1, StepWrites DEF Quiet, Written
<1>3. Inv /\ Owned(r) /\ req[r].pc = "del" /\ Goto(r, "redeem")
  BY <1>2 DEF Facts, DelState
<1>4. req[r].on = f
  BY <1>1, <1>2 DEF DelState
<1>5. ~State(f)
  BY DEF Facts, Spent, State
<1>6. overtaken[r]
  BY <1>3, <1>4, <1>5 DEF Facts, Tables, Owned, Sees
<1>7. Moved(r, At("redeem", req[r].op, req[r].who, req[r].on, req[r].as, req[r].saw))
  BY <1>3, Goes
<1> QED BY <1>3, <1>6, <1>7 DEF Moved, At, Acts

\* A state key that was deleted lets a second callback through only if that one
\* had read the key before it went.
THEOREM StatesSpentOnce == Spec => SpentOnce
<1>1. Facts /\ [Next]_vars =>
         \A f \in Flows : passed'[f] > passed[f] /\ passed[f] > 0 =>
            \E r \in Requests : Acts(r) /\ overtaken[r]
  BY SpendsAgain
<1> QED BY InitFacts, NextFacts, <1>1, PTL DEF Spec, SpentOnce
=============================================================================
