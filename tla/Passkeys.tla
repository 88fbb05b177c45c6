------------------------------ MODULE Passkeys ------------------------------
(***************************************************************************)
(* Passkeys: a ceremony begins in one HTTP request and is finished in        *)
(* another, which takes its state out of Redis by GETDEL, so each is finished *)
(* at most once and is modelled as one request of Handler.                  *)
(***************************************************************************)
EXTENDS Handler

CONSTANTS
    Users,  \* people who have or register passkeys
    Keys    \* credential ids; an authenticator makes a new one each time

VARIABLES
    passkey,  \* user_passkeys: owner and stored signature counter
    uses      \* external: the counter in the authenticator, 0 before it exists

passkeyVars == <<passkey, uses>>

KeyRow == [owner : Users, count : Nat]

PasskeysInit(old) ==
    /\ \E owner \in [old -> Users] :
          passkey = [k \in Keys |-> IF k \in old THEN [owner |-> owner[k], count |-> 1] ELSE None]
    /\ uses = [k \in Keys |-> IF k \in old THEN 1 ELSE 0]

NoteKeys(r) == Overtake(r, {s \in Requests : req[s].op = "login"})

-----------------------------------------------------------------------------
\* passkey_register_start, and the authenticator makes the credential.
Register(r, e, k) ==
    /\ uses[k] = 0
    /\ uses' = [uses EXCEPT ![k] = 1]
    /\ Enter(r, "save", "register", e, k, None)
    /\ UNCHANGED <<passkey, overtaken>>

\* passkey_register_finish.
SaveKey(r) ==
    /\ req[r].pc = "save"
    /\ passkey' = [passkey EXCEPT ![req[r].on] = [owner |-> req[r].who, count |-> 1]]
    /\ Finish(r)
    /\ UNCHANGED <<uses, overtaken>>

\* delete_passkey, of a key of the caller.
DeletePasskey(r, k) ==
    /\ passkey[k] # None
    /\ Once(r)
    /\ passkey' = [passkey EXCEPT ![k] = None]
    /\ NoteKeys(r)
    /\ UNCHANGED uses

\* passkey_login_start: the rows of now go into the ceremony.
Login(r, k) ==
    /\ passkey[k] # None
    /\ Enter(r, "sign", "login", passkey[k].owner, k, passkey[k].count)
    /\ UNCHANGED <<passkeyVars, overtaken>>

\* The authenticator signs, counting.  passkey_login_finish takes the state.
Sign(r) ==
    /\ req[r].pc = "sign"
    /\ uses' = [uses EXCEPT ![req[r].on] = @ + 1]
    /\ req' = [req EXCEPT ![r].as = uses[req[r].on] + 1, ![r].pc = "rows"]
    /\ UNCHANGED <<passkey, overtaken>>

\* Mutant: the counter the ceremony began with is kept.
NewerNever(signed, stored) == 0

\* update_credential (webauthn-rs) never lowers a counter.
Newer(signed, stored) == IF signed > stored THEN signed ELSE stored

\* The rows are read again; without the key among them the answer is 401.
ReadKeys(r) ==
    LET row == passkey[req[r].on]
    IN  /\ req[r].pc = "rows"
        /\ IF row # None THEN Keep(r, Newer(req[r].as, row.count), "count") ELSE Finish(r)
        /\ UNCHANGED <<passkeyVars, overtaken>>

\* The whole credential is written back; an error is ignored.  The session that
\* follows is a signed token no table knows.
WriteCount(r) ==
    /\ req[r].pc = "count"
    /\ \/ /\ passkey[req[r].on] # None
          /\ passkey' = [passkey EXCEPT ![req[r].on].count = req[r].saw]
          /\ NoteKeys(r)
       \/ UNCHANGED <<passkey, overtaken>>
    /\ Finish(r)
    /\ UNCHANGED uses

PasskeysStep(r) ==
    \/ \E e \in Users, k \in Keys : Register(r, e, k)
    \/ \E k \in Keys : DeletePasskey(r, k) \/ Login(r, k)
    \/ SaveKey(r) \/ Sign(r) \/ ReadKeys(r) \/ WriteCount(r)
=============================================================================
