------------------------------ MODULE Workspace ------------------------------
(***************************************************************************)
(* The people of one workspace: its plan, its members and their roles, its   *)
(* invitations, the operators of the platform, and the half of a sign-in     *)
(* that works on these tables (upsert_oauth_user).  A request may be dropped  *)
(* between two statements because its client has gone or a statement failed. *)
(* No handler takes a lock and only those marked `transaction` use one.      *)
(*                                                                         *)
(* A person is an e-mail address (users.email is UNIQUE); changing one's     *)
(* address at the provider is left out.  A workspace other than Ours is       *)
(* named by the address of its founder.                                      *)
(***************************************************************************)
EXTENDS Handler

CONSTANTS
    Emails,      \* addresses of people
    Founders,    \* those who are in the workspace from the start
    Identities,  \* accounts at Google and GitHub
    EmailOf,     \* the verified address of each of them
    Invites,     \* rows organization_invites may come to hold, in this order
    Ours         \* the workspace

Roles    == {"admin", "viewer"}
Codes    == {"free", "pro"}
Standing == {"active", "trialing", "cancelled"}
Plans    == [code : Codes, status : Standing]
Seat     == [org : Emails \cup {Ours}, role : Roles]
Letter   == [to : Emails, role : Roles, key : Nat,
             accepted : BOOLEAN, revoked : BOOLEAN, lapsed : BOOLEAN]
Links    == [inv : Invites, key : Nat]

ASSUME WorkspaceAssumption ==
    /\ Invites \subseteq Nat
    /\ Founders \subseteq Emails
    /\ EmailOf \in [Identities -> Emails]
    /\ Ours \notin Emails
    /\ None \notin Emails \cup Identities \cup Invites \cup {Ours}
    /\ None \notin Seat \cup Letter

VARIABLES
    plan,       \* plan_code and subscription_status of the workspace
    overdue,    \* whether billing_period_end has passed
    member,     \* users: the workspace and the role of each person
    linked,     \* user_oauth_identities
    invite,     \* organization_invites
    links,      \* the links that were mailed
    operators,  \* users with is_platform_operator
    stray       \* history: invitations a failed or overtaken request left open

tables        == <<plan, overdue, member, linked, invite, links, operators>>
workspaceVars == <<tables, req, overtaken, stray>>

\* What a request looks at first and relies on later.
Concern(op) == CASE op = "role"      -> "roles"
                 [] op = "bootstrap" -> "operators"
                 [] op = "callback"  -> "states"
                 [] OTHER            -> "plan"

Note(r, fact) == Overtake(r, {s \in Requests : Concern(req[s].op) = fact})

Fresh(e, role) == [to |-> e, role |-> role, key |-> 0,
                   accepted |-> FALSE, revoked |-> FALSE, lapsed |-> FALSE]

\* A workspace on trial or after one, with an invitation (of a viewer) or not.
WorkspaceInit ==
    /\ plan \in {[code |-> "pro", status |-> "trialing"], [code |-> "free", status |-> "active"]}
    /\ overdue = FALSE
    /\ \E roles \in [Founders -> Roles] :
          /\ \E e \in Founders : roles[e] = "admin"
          /\ member = [e \in Emails |-> IF e \in Founders
                                        THEN [org |-> Ours, role |-> roles[e]] ELSE None]
    /\ linked = {}
    /\ \/ invite = [i \in Invites |-> None] /\ links = {}
       \/ \E i \in Invites, e \in Emails \ Founders :
             /\ \A j \in Invites : i <= j
             /\ plan.code = "pro"
             /\ invite = [j \in Invites |-> IF j = i THEN Fresh(e, "viewer") ELSE None]
             /\ links = {[inv |-> i, key |-> 0]}
    /\ operators \in {{}} \cup {{e} : e \in Founders}
    /\ HandlerInit
    /\ stray = {}

-----------------------------------------------------------------------------
(***************************************************************************)
(* What the queries ask.                                                   *)
(***************************************************************************)
In(e)      == member[e] # None /\ member[e].org = Ours
Admins     == {e \in Emails : In(e) /\ member[e].role = "admin"}
Pending(i) == invite[i] # None /\ ~invite[i].accepted /\ ~invite[i].revoked
Live(i)    == Pending(i) /\ ~invite[i].lapsed

Paid ==
    /\ plan.code # "free"
    /\ plan.status = "active" \/ (plan.status = "trialing" /\ ~overdue)
TrialOver == plan.code = "pro" /\ plan.status = "trialing" /\ overdue

\* require_admin looks at the row auth_middleware read, and who the admin is the
\* handlers below do not ask again.
EnterAdmin(r, pc, op, on, as) == Admins # {} /\ Enter(r, pc, op, None, on, as)

\* UPDATE organization_invites SET revoked_at = NOW() of the pending rows.
Revoked(which) == [i \in Invites |-> IF i \in which /\ Pending(i)
                                     THEN [invite[i] EXCEPT !.revoked = TRUE] ELSE invite[i]]

\* Such an UPDATE whose error is ignored.
RevokePending(r) ==
    \/ invite' = Revoked(Invites) /\ UNCHANGED stray
    \/ stray' = stray \cup {i \in Invites : Pending(i)} /\ UNCHANGED invite

-----------------------------------------------------------------------------
(***************************************************************************)
(* expire_trial_if_needed, and the entitlement check it is a part of.        *)
(***************************************************************************)
Expire(r) ==
    /\ req[r].pc = "expire"
    /\ IF TrialOver
       THEN /\ plan' = [code |-> "free", status |-> "active"]
            /\ Note(r, "plan")
            /\ Goto(r, "sweep")
       ELSE Goto(r, "entitled") /\ UNCHANGED <<plan, overtaken>>
    /\ UNCHANGED <<overdue, member, linked, invite, links, operators, stray>>

\* Mutant: the invitations outlive the trial.
SweepNothing(r) ==
    /\ req[r].pc = "sweep"
    /\ Goto(r, "entitled")
    /\ UNCHANGED <<tables, overtaken, stray>>

Sweep(r) ==
    /\ req[r].pc = "sweep"
    /\ RevokePending(r)
    /\ Goto(r, "entitled")
    /\ UNCHANGED <<plan, overdue, member, linked, links, operators, overtaken>>

\* The workspace page (`look`) stops here whatever the plan.
Entitled(r) ==
    /\ req[r].pc = "entitled"
    /\ IF Paid /\ req[r].op # "look"
       THEN Goto(r, IF req[r].op = "invite" THEN "member" ELSE "rekey")
       ELSE Finish(r)
    /\ UNCHANGED <<tables, overtaken, stray>>

Look(r) ==
    /\ \E who \in Emails : In(who)
    /\ Enter(r, "expire", "look", None, None, None)
    /\ UNCHANGED <<tables, overtaken, stray>>

\* consume_event_quota, inside the transaction that stores a webhook.  One step: an
\* invitation inserted between its two UPDATEs and its commit is left open just as
\* one inserted after it, by a request that read the plan before (a later one
\* waits in expire_trial_if_needed for the row) and does not read it again.
ExpireOnIngest ==
    /\ TrialOver
    /\ plan' = [code |-> "free", status |-> "active"]
    /\ invite' = Revoked(Invites)
    /\ Note(None, "plan")
    /\ UNCHANGED <<overdue, member, linked, links, operators, req, stray>>

\* The clock.
TrialEnds ==
    /\ plan.status = "trialing" /\ ~overdue
    /\ overdue' = TRUE
    /\ UNCHANGED <<plan, member, linked, invite, links, operators, req, overtaken, stray>>

Lapse(i) ==
    /\ Live(i)
    /\ invite' = [invite EXCEPT ![i].lapsed = TRUE]
    /\ UNCHANGED <<plan, overdue, member, linked, links, operators, req, overtaken, stray>>

-----------------------------------------------------------------------------
(***************************************************************************)
(* update_user_role, of a member: nobody leaves, and any other id is a 404.  *)
(***************************************************************************)
ChangeRole(r, who, target, role) ==
    /\ who \in Admins /\ In(target)
    /\ Enter(r, "admins", "role", who, target, role)
    /\ UNCHANGED <<tables, overtaken, stray>>

\* Mutant: an off-by-one in the guard.
CountAdminsLow(r) ==
    /\ req[r].pc = "admins"
    /\ IF req[r].who = req[r].on /\ req[r].as # "admin" /\ Cardinality(Admins) < 1
       THEN Finish(r) ELSE Goto(r, "set")
    /\ UNCHANGED <<tables, overtaken, stray>>

CountAdmins(r) ==
    /\ req[r].pc = "admins"
    /\ IF req[r].who = req[r].on /\ req[r].as # "admin" /\ Cardinality(Admins) <= 1
       THEN Finish(r) ELSE Goto(r, "set")
    /\ UNCHANGED <<tables, overtaken, stray>>

SetRole(r) ==
    /\ req[r].pc = "set"
    /\ member' = [member EXCEPT ![req[r].on].role = req[r].as]
    /\ Note(r, "roles")
    /\ Finish(r)
    /\ UNCHANGED <<plan, overdue, linked, invite, links, operators, stray>>

-----------------------------------------------------------------------------
(***************************************************************************)
(* create_invite, resend_invite, revoke_invite.                            *)
(***************************************************************************)
CreateInvite(r, e, role) ==
    /\ EnterAdmin(r, "expire", "invite", e, role)
    /\ UNCHANGED <<tables, overtaken, stray>>

ResendInvite(r, i) ==
    /\ EnterAdmin(r, "expire", "resend", i, None)
    /\ UNCHANGED <<tables, overtaken, stray>>

AlreadyMember(r) ==
    /\ req[r].pc = "member"
    /\ IF In(req[r].on) THEN Finish(r) ELSE Goto(r, "replace")
    /\ UNCHANGED <<tables, overtaken, stray>>

ReplaceOlder(r) ==
    /\ req[r].pc = "replace"
    /\ invite' = Revoked({i \in Invites : invite[i] # None /\ invite[i].to = req[r].on})
    /\ Goto(r, "insert")
    /\ UNCHANGED <<plan, overdue, member, linked, links, operators, overtaken, stray>>

\* A unique index allows one pending invitation of an address.
Insert(r) ==
    /\ req[r].pc = "insert"
    /\ IF \E i \in Invites : Pending(i) /\ invite[i].to = req[r].on
       THEN Finish(r) /\ UNCHANGED <<invite, stray>>
       ELSE \E i \in Invites :
               /\ invite[i] = None /\ \A j \in Invites : j < i => invite[j] # None
               /\ invite' = [invite EXCEPT ![i] = Fresh(req[r].on, req[r].as)]
               /\ stray' = IF plan.code = "free" /\ overtaken[r]
                           THEN stray \cup {i} ELSE stray
               /\ Keep(r, [inv |-> i, key |-> 0], "mail")
    /\ UNCHANGED <<plan, overdue, member, linked, links, operators, overtaken>>

\* A new token and seven more days, also for an invitation that had lapsed.
Rekey(r) ==
    /\ req[r].pc = "rekey"
    /\ IF Pending(req[r].on)
       THEN /\ invite' = [invite EXCEPT ![req[r].on].key = @ + 1, ![req[r].on].lapsed = FALSE]
            /\ Keep(r, [inv |-> req[r].on, key |-> invite[req[r].on].key + 1], "mail")
       ELSE Finish(r) /\ UNCHANGED invite
    /\ UNCHANGED <<plan, overdue, member, linked, links, operators, overtaken, stray>>

\* An error may hide that the e-mail went out.  Only create_invite undoes.
Mail(r) ==
    /\ req[r].pc = "mail"
    /\ \/ links' = links \cup {req[r].saw} /\ Finish(r)
       \/ /\ links' = links \cup {req[r].saw} \/ UNCHANGED links
          /\ IF req[r].op = "invite" THEN Goto(r, "undo") ELSE Finish(r)
    /\ UNCHANGED <<plan, overdue, member, linked, invite, operators, overtaken, stray>>

\* By id, whatever has become of the row; an error is ignored.
Undo(r) ==
    /\ req[r].pc = "undo"
    /\ invite' = [invite EXCEPT ![req[r].saw.inv].revoked = TRUE] \/ UNCHANGED invite
    /\ Finish(r)
    /\ UNCHANGED <<plan, overdue, member, linked, links, operators, overtaken, stray>>

RevokeInvite(r, i) ==
    /\ EnterAdmin(r, "revoke", "revoke", i, None)
    /\ UNCHANGED <<tables, overtaken, stray>>

Revoke(r) ==
    /\ req[r].pc = "revoke"
    /\ invite' = Revoked({req[r].on})
    /\ Finish(r)
    /\ UNCHANGED <<plan, overdue, member, linked, links, operators, overtaken, stray>>

-----------------------------------------------------------------------------
(***************************************************************************)
(* The platform: bootstrap_platform_operator (of a user there is, and users   *)
(* stay), provision_organization and     *)
(* update_platform_subscription, which reads the row and writes it back.     *)
(***************************************************************************)
Bootstrap(r, e) ==
    /\ member[e] # None
    /\ Enter(r, "exists", "bootstrap", None, e, None)
    /\ UNCHANGED <<tables, overtaken, stray>>

\* Mutant: the endpoint stays open.
OperatorExistsNever(r) ==
    /\ req[r].pc = "exists"
    /\ Goto(r, "promote")
    /\ UNCHANGED <<tables, overtaken, stray>>

OperatorExists(r) ==
    /\ req[r].pc = "exists"
    /\ IF operators # {} THEN Finish(r) ELSE Goto(r, "promote")
    /\ UNCHANGED <<tables, overtaken, stray>>

Promote(r) ==
    /\ req[r].pc = "promote"
    /\ operators' = operators \cup {req[r].on}
    /\ Note(r, "operators")
    /\ Finish(r)
    /\ UNCHANGED <<plan, overdue, member, linked, invite, links, stray>>

\* A transaction: a workspace of its own and its first admin.
Provision(r, e) ==
    /\ operators # {}
    /\ member[e] = None
    /\ Once(r)
    /\ member' = [member EXCEPT ![e] = [org |-> e, role |-> "admin"]]
    /\ UNCHANGED <<plan, overdue, linked, invite, links, operators, overtaken, stray>>

EditPlan(r, code, status) ==
    /\ operators # {}
    /\ Enter(r, "row", "plan", None, None, [code |-> code, status |-> status])
    /\ UNCHANGED <<tables, overtaken, stray>>

ReadPlan(r) ==
    /\ req[r].pc = "row"
    /\ Keep(r, plan, "write")
    /\ UNCHANGED <<tables, overtaken, stray>>

\* Mutant: what the operator left out is written as NULL.
CoalesceNull(r, f) == req[r].as[f]

\* Mutant: what the operator left out is reset.
CoalesceDefault(r, f) ==
    IF req[r].as[f] # None THEN req[r].as[f] ELSE [code |-> "pro", status |-> "active"][f]

Coalesce(r, f) == IF req[r].as[f] # None THEN req[r].as[f] ELSE req[r].saw[f]

WritePlan(r) ==
    /\ req[r].pc = "write"
    /\ plan' = [code |-> Coalesce(r, "code"), status |-> Coalesce(r, "status")]
    /\ Note(r, "plan")
    /\ IF Coalesce(r, "code") = "free" THEN Goto(r, "close") ELSE Finish(r)
    /\ UNCHANGED <<overdue, member, linked, invite, links, operators, stray>>

\* The errors of these two UPDATEs are ignored.
CloseInvites(r) ==
    /\ req[r].pc = "close"
    /\ RevokePending(r)
    /\ Goto(r, "demote")
    /\ UNCHANGED <<plan, overdue, member, linked, links, operators, overtaken>>

\* Everybody but the oldest admin; which admin that is the model leaves open.
DemoteOthers(r) ==
    /\ req[r].pc = "demote"
    /\ \/ /\ \E owner \in Admins :
                member' = [e \in Emails |-> IF In(e) /\ e # owner
                                            THEN [member[e] EXCEPT !.role = "viewer"] ELSE member[e]]
          /\ Note(r, "roles")
       \/ UNCHANGED <<member, overtaken>>
    /\ Finish(r)
    /\ UNCHANGED <<plan, overdue, linked, invite, links, operators, stray>>

-----------------------------------------------------------------------------
(***************************************************************************)
(* upsert_oauth_user: `on` is the identity, `as` the link the sign-in was     *)
(* started from, `saw` the invitation found.                                 *)
(***************************************************************************)
Person(r) == EmailOf[req[r].on]
Names(r, i) ==
    /\ req[r].as # None
    /\ req[r].as.inv = i
    /\ req[r].as.key = invite[i].key
    /\ invite[i].to = Person(r)

\* No usable invitation is no error: the sign-in goes on without one.
FindInvite(r) ==
    /\ req[r].pc = "find"
    /\ \/ \E i \in Invites : Live(i) /\ Names(r, i) /\ Keep(r, i, "identity")
       \/ ~(\E i \in Invites : Live(i) /\ Names(r, i)) /\ Keep(r, None, "identity")
    /\ UNCHANGED <<tables, overtaken, stray>>

\* Mutant: an account may be invited to another workspace.
ValidateNothing(r) == TRUE

Validate(r) == req[r].saw # None => In(Person(r))

ByIdentity(r) ==
    /\ req[r].pc = "identity"
    /\ IF req[r].on \notin linked THEN Goto(r, "email")
       ELSE IF Validate(r) THEN Goto(r, "accept") ELSE Finish(r)
    /\ UNCHANGED <<tables, overtaken, stray>>

\* UPDATE by id, without a condition.
Accepted(i) == IF i = None THEN invite ELSE [invite EXCEPT ![i].accepted = TRUE]

RefreshAndAccept(r) ==
    /\ req[r].pc = "accept"
    /\ invite' = Accepted(req[r].saw)
    /\ Finish(r)
    /\ UNCHANGED <<plan, overdue, member, linked, links, operators, overtaken, stray>>

ByEmail(r) ==
    /\ req[r].pc = "email"
    /\ IF member[Person(r)] # None
       THEN IF Validate(r) THEN Goto(r, "link") ELSE Finish(r)
       ELSE Goto(r, IF req[r].saw # None THEN "join" ELSE "found")
    /\ UNCHANGED <<tables, overtaken, stray>>

\* A transaction.
LinkExisting(r) ==
    /\ req[r].pc = "link"
    /\ linked' = linked \cup {req[r].on}
    /\ invite' = Accepted(req[r].saw)
    /\ Finish(r)
    /\ UNCHANGED <<plan, overdue, member, links, operators, overtaken, stray>>

\* Mutant: the transaction does not look at the invitation again.
JoinAnyway(r) ==
    /\ req[r].pc = "join"
    /\ IF member[Person(r)] = None
       THEN /\ member' = [member EXCEPT ![Person(r)] = [org |-> Ours, role |-> invite[req[r].saw].role]]
            /\ linked' = linked \cup {req[r].on}
            /\ invite' = Accepted(req[r].saw)
            /\ Finish(r)
       ELSE Finish(r) /\ UNCHANGED <<member, linked, invite>>
    /\ UNCHANGED <<plan, overdue, links, operators, overtaken, stray>>

\* A transaction: rolled back if the address has been taken, or if the
\* invitation is not pending any more.
Join(r) ==
    /\ req[r].pc = "join"
    /\ IF member[Person(r)] = None /\ Live(req[r].saw)
       THEN /\ member' = [member EXCEPT ![Person(r)] = [org |-> Ours, role |-> invite[req[r].saw].role]]
            /\ linked' = linked \cup {req[r].on}
            /\ invite' = Accepted(req[r].saw)
            /\ Finish(r)
       ELSE Finish(r) /\ UNCHANGED <<member, linked, invite>>
    /\ UNCHANGED <<plan, overdue, links, operators, overtaken, stray>>

\* A transaction: a new workspace, on trial, with the person as its admin.
Found(r) ==
    /\ req[r].pc = "found"
    /\ IF member[Person(r)] = None
       THEN /\ member' = [member EXCEPT ![Person(r)] = [org |-> Person(r), role |-> "admin"]]
            /\ linked' = linked \cup {req[r].on}
            /\ Finish(r)
       ELSE Finish(r) /\ UNCHANGED <<member, linked>>
    /\ UNCHANGED <<plan, overdue, invite, links, operators, overtaken, stray>>

-----------------------------------------------------------------------------
\* The client goes away, or a statement fails: the handler ends where it is.
Abandon(r) ==
    /\ Busy(r)
    /\ Finish(r)
    /\ stray' = IF req[r].pc \in {"sweep", "close"}
                THEN stray \cup {i \in Invites : Pending(i)} ELSE stray
    /\ UNCHANGED <<tables, overtaken>>

\* A bound: requests name rows that are there when they come, any other being a
\* 404, and ask for a change.
Arrive(r) ==
    \/ Look(r)
    \/ \E who, e \in Emails, role \in Roles :
          member[e] # None /\ member[e].role # role /\ ChangeRole(r, who, e, role)
    \/ \E e \in Emails \ Founders, role \in Roles : CreateInvite(r, e, role)
    \/ \E i \in Invites : invite[i] # None /\ (ResendInvite(r, i) \/ RevokeInvite(r, i))
    \/ \E e \in Emails : Bootstrap(r, e) \/ Provision(r, e)
    \/ \E code \in Codes : EditPlan(r, code, None)
    \/ \E status \in Standing : EditPlan(r, None, status)

Proceed(r) ==
    \/ Expire(r) \/ Sweep(r) \/ Entitled(r)
    \/ CountAdmins(r) \/ SetRole(r)
    \/ AlreadyMember(r) \/ ReplaceOlder(r) \/ Insert(r) \/ Rekey(r) \/ Mail(r) \/ Undo(r) \/ Revoke(r)
    \/ OperatorExists(r) \/ Promote(r)
    \/ ReadPlan(r) \/ WritePlan(r) \/ CloseInvites(r) \/ DemoteOthers(r)
    \/ FindInvite(r) \/ ByIdentity(r) \/ RefreshAndAccept(r) \/ ByEmail(r)
    \/ LinkExisting(r) \/ Join(r) \/ Found(r)
    \/ Abandon(r)

\* A bound: nothing happens while no request is under way.  No request looks at
\* the clock or the plan in its first step, so it might as well happen during one.
Environment ==
    /\ \E r \in Requests : Busy(r)
    /\ \/ ExpireOnIngest
       \/ TrialEnds
       \/ \E i \in Invites : Lapse(i)
=============================================================================
