------------------------------- MODULE SignIn -------------------------------
(***************************************************************************)
(* Signing in at a provider, composed with the workspace it signs into: the  *)
(* state key of an OAuth flow and the callback, which runs upsert_oauth_user  *)
(* of Workspace as its last steps.  A session is a      *)
(* signed token that no table knows, so issuing one is a step of the request *)
(* and nothing else.                                                         *)
(***************************************************************************)
EXTENDS Workspace

CONSTANTS
    Flows,       \* sign-ins at a provider, each begun once
    Gone         \* a key that Redis held and has no more

ASSUME SignInAssumption == Gone # None

VARIABLES
    flow,       \* Redis: the state key of each sign-in
    passed      \* history: how many callbacks deleted each state key

signInVars == <<flow, passed>>
vars == <<workspaceVars, signInVars>>

State(f) == flow[f] \notin {None, Gone}

Init ==
    /\ WorkspaceInit
    /\ flow = [f \in Flows |-> None]
    /\ passed = [f \in Flows |-> 0]

-----------------------------------------------------------------------------
(***************************************************************************)
(* oauth_login_for_provider and oauth_callback_for_provider: GET, DEL, the    *)
(* code for an identity, the upsert, the session.                           *)
(***************************************************************************)
\* A person starts, from a link or not, and comes back from the provider.  The
\* state key is stored by SETEX in the first of these requests; between the two
\* nothing looks at it, so one step stands for both.
StartFlow(r, f, link) ==
    /\ flow[f] = None
    /\ flow' = [flow EXCEPT ![f] = [link |-> link]]
    /\ Enter(r, "get", "callback", None, f, None)
    /\ UNCHANGED <<tables, overtaken, stray, passed>>

\* The same callback once more: the browser reloads, or somebody replays it.
Callback(r, f) ==
    /\ flow[f] # None
    /\ Enter(r, "get", "callback", None, f, None)
    /\ UNCHANGED <<tables, overtaken, stray, signInVars>>

\* None after ten minutes, or when Redis answers with an error: that is Abandon.
GetState(r) ==
    /\ req[r].pc = "get"
    /\ IF State(req[r].on) THEN Keep(r, flow[req[r].on].link, "del") ELSE Finish(r)
    /\ UNCHANGED <<tables, overtaken, stray, signInVars>>

\* Mutant: the key is left to expire.
DelStateNever(r) ==
    /\ req[r].pc = "del"
    /\ passed' = [passed EXCEPT ![req[r].on] = @ + 1]
    /\ Goto(r, "redeem")
    /\ UNCHANGED <<tables, overtaken, stray, flow>>

\* An error of the DEL is ignored, and the key stays.  A state of the other
\* provider ends the callback here, which is the same as Abandon.
DelState(r) ==
    /\ req[r].pc = "del"
    /\ \/ /\ flow' = [flow EXCEPT ![req[r].on] = Gone]
          /\ passed' = [passed EXCEPT ![req[r].on] = @ + 1]
          /\ Note(r, "states")
       \/ UNCHANGED <<flow, passed, overtaken>>
    /\ Goto(r, "redeem")
    /\ UNCHANGED <<tables, stray>>

\* The provider names an account whose address it has verified.  That it
\* refuses is the same as a client that goes away.
Redeem(r) ==
    /\ req[r].pc = "redeem"
    /\ \E i \in Identities :
          req' = [req EXCEPT ![r] = [@ EXCEPT !.pc = "find", !.on = i, !.as = req[r].saw, !.saw = None]]
    /\ UNCHANGED <<tables, overtaken, stray, signInVars>>

-----------------------------------------------------------------------------
SignInStep ==
    \E r \in Requests :
       \/ \E f \in Flows : Callback(r, f) \/ \E link \in links \cup {None} : StartFlow(r, f, link)
       \/ GetState(r) \/ DelState(r) \/ Redeem(r)

WorkspaceStep ==
    /\ Environment \/ \E r \in Requests : Arrive(r) \/ Proceed(r)
    /\ UNCHANGED signInVars

Next == WorkspaceStep \/ SignInStep

Spec == Init /\ [][Next]_vars

-----------------------------------------------------------------------------
\* Every table and every request keeps its type.
TypeOK ==
    /\ plan \in Plans
    /\ overdue \in BOOLEAN
    /\ member \in [Emails -> Seat \cup {None}]
    /\ linked \subseteq Identities
    /\ invite \in [Invites -> Letter \cup {None}]
    /\ links \subseteq Links
    /\ operators \subseteq Emails
    /\ DOMAIN req = Requests
    /\ overtaken \in [Requests -> BOOLEAN]
    /\ stray \subseteq Invites
    /\ passed \in [Flows -> Nat]

\* A free workspace has no open invitation.  The exceptions are those that a
\* request is about to revoke, that a failed request left open, and that a
\* request made whose check of the plan was overtaken by the end of the plan.
FreeClosed ==
    plan.code = "free" =>
        \A i \in Invites : Pending(i) =>
            i \in stray \/ \E r \in Requests : req[r].pc \in {"sweep", "close"}

\* The members are the founders and those whose invitation was accepted: no
\* accepted invitation without its member, no further member without one,
\* whatever is revoked, replaced, resent or lapses during the sign-in.
SeatsByInvite ==
    \A e \in Emails :
        In(e) <=> e \in Founders
                  \/ \E i \in Invites : invite[i] # None /\ invite[i].to = e /\ invite[i].accepted

\* Nobody joins by an invitation that had been revoked or had lapsed, and
\* everybody joins in the role the invitation gives.
Joins(e) == ~In(e) /\ In(e)'
JoinsByLiveInvite ==
    [][\A e \in Emails : Joins(e) =>
          \E i \in Invites : Live(i) /\ invite[i].to = e /\ invite[i].role = member'[e].role]_vars

\* A workspace loses its last admin only to a request during which another one
\* changed the roles.
AdminLeft ==
    [][Admins # {} /\ Admins' = {} => \E r \in Requests : Acts(r) /\ overtaken[r]]_vars

\* Once there is an operator, the bootstrap makes another one only if it was
\* under way when the first one was made.
OneBootstrap ==
    [][operators # {} /\ operators' # operators =>
          \E r \in Requests : Acts(r) /\ overtaken[r]]_vars

\* A workspace on the free plan gets back to `pro` by an operator who asks for
\* that, or by one whose edit of something else was overtaken.
UpgradesMeant ==
    [][plan.code = "free" /\ plan'.code = "pro" =>
          \E r \in Requests :
              Acts(r) /\ req[r].op = "plan" /\ (req[r].as.code = "pro" \/ overtaken[r])]_vars

\* A state key that one callback has deleted lets another one through only if
\* that had read the key before; a key whose DEL failed counts as not spent.
SpentOnce ==
    [][\A f \in Flows : passed'[f] > passed[f] /\ passed[f] > 0 =>
          \E r \in Requests : Acts(r) /\ overtaken[r]]_vars
=============================================================================
