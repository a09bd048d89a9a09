----------------------------- MODULE AuthStore -----------------------------
(***************************************************************************)
(* The transactions of SQLiteAuthenticationStore (database/auth_db.py):    *)
(* accounts, sessions, second-factor challenges and mailed action tokens.  *)
(* One operator is one SQLite transaction; the guards it tests inside the  *)
(* transaction stand beside it under a name of their own, so that a caller *)
(* can branch on the answer.                                               *)
(*                                                                         *)
(* Every read of a session, a challenge or an action token first turns the *)
(* rows whose deadline has passed into 'expired', so a deadline is a step  *)
(* of its own here.  An account lock is different: only some transactions  *)
(* end a lock that is over, the others still read 'locked'.                *)
(***************************************************************************)
EXTENDS Integers, FiniteSets

CONSTANTS
    Users, Administrators,       \* accounts; those that exist at first, as admins
    Enrolled,                    \* those of them with the second factor on
    Passwords, InitialPassword,
    Sessions, Challenges, Tokens, \* row identifiers
    Null,
    FailureLimit,                \* failed logins in a window that lock
    RecoveryCodeCount,           \* recovery codes handed out at a time
    MaxSalts,                    \* bound: second-factor setups of an account
    MaxCounter,                  \* bound: time steps of a TOTP code
    MaxRotations                 \* bound: rotations of a refresh token

Statuses == {"active", "disabled", "locked"}
Purposes == {"email_verification", "password_reset"}

AccountRows ==
    [status : Statuses, password : Passwords, admin : BOOLEAN, verified : BOOLEAN,
     failures : Nat, window : {"none", "open", "over"}, lockOver : BOOLEAN,
     salt : Nat, pending : Nat, salts : Nat, counter : Nat,
     codes : SUBSET Nat, issued : Nat]

SessionRows ==
    [user : Users, status : {"active", "revoked", "expired"}, refresh : Nat,
     held : BOOLEAN, password : Passwords, salt : Nat,
     challenge : Challenges \cup {Null}, late : BOOLEAN]

ChallengeRows ==
    [user : Users, status : {"active", "consumed", "revoked", "expired"},
     password : Passwords]

TokenRows ==
    [user : Users, purpose : Purposes,
     status : {"active", "consumed", "revoked", "expired"}, sent : BOOLEAN]

ASSUME StoreAssumption ==
    /\ Enrolled \subseteq Administrators /\ Administrators \subseteq Users
    /\ InitialPassword \in Passwords
    /\ {FailureLimit, RecoveryCodeCount} \subseteq Nat \ {0}
    /\ {MaxSalts, MaxCounter, MaxRotations} \subseteq Nat
    /\ Enrolled # {} => MaxSalts >= 1 /\ MaxCounter >= 1
    /\ Null \notin Users \cup Passwords \cup Sessions \cup Challenges \cup Tokens
    /\ Null \notin AccountRows \cup SessionRows \cup ChallengeRows \cup TokenRows

VARIABLES
    account,    \* account[u]: row of the users table, Null: not registered
    session,    \* session[s]: row of the sessions table, Null: never inserted
    challenge,  \* challenge[c]: a login waiting for its second factor
    token       \* token[t]: e-mail verification or password reset token

storeVars == <<account, session, challenge, token>>

Registered(u) == account[u] # Null

Active(u) == Registered(u) /\ account[u].status = "active"

\* Salt 0 is NULL: the second factor is off.
SecondFactor(u) == Registered(u) /\ account[u].salt # 0

-----------------------------------------------------------------------------
(* Accounts *)

NewAccount(password, admin) ==
    [status |-> "active", password |-> password, admin |-> admin,
     verified |-> FALSE, failures |-> 0, window |-> "none", lockOver |-> FALSE,
     salt |-> 0, pending |-> 0, salts |-> 0, counter |-> 0,
     codes |-> {}, issued |-> 0]

\* An account whose second factor was set up with the code of time step 1.
EnrolledAccount ==
    [NewAccount(InitialPassword, TRUE) EXCEPT
        !.salt = 1, !.salts = 1, !.counter = 1,
        !.codes = 1..RecoveryCodeCount, !.issued = RecoveryCodeCount]

Init ==
    /\ account = [u \in Users |->
           IF u \in Enrolled THEN EnrolledAccount
           ELSE IF u \in Administrators THEN NewAccount(InitialPassword, TRUE)
           ELSE Null]
    /\ session = [s \in Sessions |-> Null]
    /\ challenge = [c \in Challenges |-> Null]
    /\ token = [t \in Tokens |-> Null]

CreateUser(u, password) ==
    /\ account[u] = Null
    /\ account' = [account EXCEPT ![u] = NewAccount(password, FALSE)]
    /\ UNCHANGED <<session, challenge, token>>

\* The columns that several statements set back together.
Cleared(row) ==
    [row EXCEPT !.failures = 0, !.window = "none", !.lockOver = FALSE]

Unlocked(row) ==
    IF row.status = "locked" /\ row.lockOver
    THEN Cleared([row EXCEPT !.status = "active"])
    ELSE row

\* get_user, get_user_by_email, get_login_protection_state and
\* verify_user_password: a read that first ends a lock that is over.
ReadUser(u) ==
    /\ Registered(u)
    /\ account' = [account EXCEPT ![u] = Unlocked(@)]
    /\ UNCHANGED <<session, challenge, token>>

PasswordMatches(u, password) ==
    /\ Unlocked(account[u]).status = "active"
    /\ account[u].password = password

\* The sessions table once every active session of u is revoked.
RevokedSessions(u) ==
    [s \in Sessions |->
        IF session[s] # Null /\ session[s].user = u /\ session[s].status = "active"
        THEN [session[s] EXCEPT !.status = "revoked"]
        ELSE session[s]]

FailuresAfter(row) == IF row.window = "open" THEN row.failures + 1 ELSE 1

RecordLoginFailureOnly(u) ==        \* mutant: a lockout leaves the sessions alive
    LET row   == Unlocked(account[u])
        count == FailuresAfter(row)
        locks == row.status = "active" /\ count >= FailureLimit
    IN  /\ account' = [account EXCEPT ![u] =
               IF row.status # "active" THEN row
               ELSE [row EXCEPT !.status = IF locks THEN "locked" ELSE "active",
                                !.failures = count, !.window = "open"]]
        /\ UNCHANGED <<session, challenge, token>>

RecordLoginFailure(u) ==
    LET row   == Unlocked(account[u])
        count == FailuresAfter(row)
        locks == row.status = "active" /\ count >= FailureLimit
    IN  /\ account' = [account EXCEPT ![u] =
               IF row.status # "active" THEN row
               ELSE [row EXCEPT !.status = IF locks THEN "locked" ELSE "active",
                                !.failures = count, !.window = "open"]]
        /\ session' = IF locks THEN RevokedSessions(u) ELSE session
        /\ UNCHANGED <<challenge, token>>

RecordLoginSuccess(u) ==
    /\ Active(u)
    /\ account' = [account EXCEPT ![u] = Cleared(@)]
    /\ UNCHANGED <<session, challenge, token>>

ChangePassword(u, current, new) ==
    /\ current # new
    /\ Active(u)
    /\ account[u].password = current
    /\ account' = [account EXCEPT ![u].password = new]
    /\ session' = RevokedSessions(u)
    /\ UNCHANGED <<challenge, token>>

-----------------------------------------------------------------------------
(* Administration *)

ActiveAdmins == {u \in Users : Active(u) /\ account[u].admin}

AssignAdminRole(u) ==
    /\ Registered(u)
    /\ account' = [account EXCEPT ![u].admin = TRUE]
    /\ UNCHANGED <<session, challenge, token>>

RemoveAnyAdminRole(actor, u) ==     \* mutant: the last administrator may go
    /\ actor # u
    /\ Registered(u)
    /\ account' = [account EXCEPT ![u].admin = FALSE]
    /\ UNCHANGED <<session, challenge, token>>

RemoveAdminRole(actor, u) ==
    /\ actor # u
    /\ Registered(u)
    /\ ~(Active(u) /\ account[u].admin /\ Cardinality(ActiveAdmins) <= 1)
    /\ account' = [account EXCEPT ![u].admin = FALSE]
    /\ UNCHANGED <<session, challenge, token>>

SetUserStatusByAdministrator(actor, u, status, allowed) ==
    /\ status # "active" => actor # u
    /\ Registered(u)
    /\ account[u].status \in allowed
    /\ ~(/\ status # "active"
         /\ Active(u)
         /\ account[u].admin
         /\ Cardinality(ActiveAdmins) <= 1)
    /\ account' = [account EXCEPT ![u] = Cleared([@ EXCEPT !.status = status])]
    /\ session' = IF status # "active" THEN RevokedSessions(u) ELSE session
    /\ UNCHANGED <<challenge, token>>

-----------------------------------------------------------------------------
(* Second factor *)

\* What a login or a change was proved with: a TOTP time step or a recovery
\* code.  Codes are numbered in the order in which they were handed out.
Proofs == [kind : {"totp"}, n : 1..MaxCounter] \cup [kind : {"code"}, n : Nat]

ProofIsRecent(u, proof) ==          \* mutant: >= lets a time step be used twice
    \/ proof.kind = "totp" /\ proof.n >= account[u].counter
    \/ proof.kind = "code" /\ proof.n \in account[u].codes

ProofIsGood(u, proof) ==
    \/ proof.kind = "totp" /\ proof.n > account[u].counter
    \/ proof.kind = "code" /\ proof.n \in account[u].codes

Spent(row, proof) ==
    IF proof.kind = "totp" THEN [row EXCEPT !.counter = proof.n]
                           ELSE [row EXCEPT !.codes = @ \ {proof.n}]

StartTwoFactorSetup(u) ==
    /\ Active(u)
    /\ ~SecondFactor(u)
    /\ account[u].salts < MaxSalts
    /\ account' = [account EXCEPT ![u].pending = account[u].salts + 1,
                                  ![u].salts = @ + 1]
    /\ UNCHANGED <<session, challenge, token>>

NewCodes(row) ==
    [row EXCEPT !.codes = row.issued + 1 .. row.issued + RecoveryCodeCount,
                !.issued = @ + RecoveryCodeCount]

RevokedChallenges(u) ==
    [c \in Challenges |->
        IF challenge[c] # Null /\ challenge[c].user = u /\ challenge[c].status = "active"
        THEN [challenge[c] EXCEPT !.status = "revoked"]
        ELSE challenge[c]]

EnableKeepsSessions(u, pending, counter) ==   \* mutant: earlier sessions stay
    /\ Active(u)
    /\ ~SecondFactor(u)
    /\ pending # 0 /\ account[u].pending = pending
    /\ account' = [account EXCEPT ![u] =
           NewCodes([@ EXCEPT !.salt = pending, !.pending = 0, !.counter = counter])]
    /\ challenge' = RevokedChallenges(u)
    /\ UNCHANGED <<session, token>>

EnableTwoFactor(u, pending, counter) ==
    /\ Active(u)
    /\ ~SecondFactor(u)
    /\ pending # 0 /\ account[u].pending = pending
    /\ account' = [account EXCEPT ![u] =
           NewCodes([@ EXCEPT !.salt = pending, !.pending = 0, !.counter = counter])]
    /\ challenge' = RevokedChallenges(u)
    /\ session' = RevokedSessions(u)
    /\ UNCHANGED token

DisableTwoFactor(u) ==
    /\ Active(u)
    /\ SecondFactor(u)
    /\ account' = [account EXCEPT ![u].salt = 0, ![u].pending = 0,
                                  ![u].counter = 0, ![u].codes = {}]
    /\ challenge' = RevokedChallenges(u)
    /\ session' = RevokedSessions(u)
    /\ UNCHANGED token

ReplaceRecoveryCodes(u) ==
    /\ Active(u)
    /\ SecondFactor(u)
    /\ account' = [account EXCEPT ![u] = NewCodes(@)]
    /\ session' = RevokedSessions(u)
    /\ UNCHANGED <<challenge, token>>

\* The insert of create_two_factor_challenge; the account was read before.
InsertChallenge(c, u, password) ==
    /\ challenge[c] = Null
    /\ challenge' = [challenge EXCEPT ![c] =
           [user |-> u, status |-> "active", password |-> password]]
    /\ account' = [account EXCEPT ![u] = IF Active(u) THEN Cleared(@) ELSE @]
    /\ UNCHANGED <<session, token>>

ConsumeTwoFactorProof(u, proof) ==
    /\ Active(u)
    /\ SecondFactor(u)
    /\ ProofIsGood(u, proof)
    /\ account' = [account EXCEPT ![u] = Spent(@, proof)]
    /\ UNCHANGED <<session, challenge, token>>

CompleteAnyChallenge(c, proof) ==   \* mutant: the status read before is trusted
    LET u == challenge[c].user
    IN  /\ Active(u)
        /\ SecondFactor(u)
        /\ ProofIsGood(u, proof)
        /\ account' = [account EXCEPT ![u] = Spent(@, proof)]
        /\ challenge' = [challenge EXCEPT ![c].status = "consumed"]
        /\ UNCHANGED <<session, token>>

CompleteTwoFactorChallenge(c, proof) ==
    LET u == challenge[c].user
    IN  /\ challenge[c].status = "active"
        /\ Active(u)
        /\ SecondFactor(u)
        /\ ProofIsGood(u, proof)
        /\ account' = [account EXCEPT ![u] = Spent(@, proof)]
        /\ challenge' = [challenge EXCEPT ![c].status = "consumed"]
        /\ UNCHANGED <<session, token>>

-----------------------------------------------------------------------------
(* Sessions.  password, salt and challenge record what the login proved,    *)
(* held that the client was given the tokens, late that the proof was out   *)
(* of date when the row was inserted.                                       *)

InsertSession(s, u, password, salt, c) ==
    /\ session[s] = Null
    /\ session' = [session EXCEPT ![s] =
           [user |-> u, status |-> "active", refresh |-> 0, held |-> FALSE,
            password |-> password, salt |-> salt, challenge |-> c,
            late |-> <<password, salt>> # <<account[u].password, account[u].salt>>]]
    /\ UNCHANGED <<account, challenge, token>>

SessionActive(s) == session[s] # Null /\ session[s].status = "active"

RotateAnyToken(s, current) ==       \* mutant: no comparison with the stored hash
    /\ SessionActive(s)
    /\ Active(session[s].user)
    /\ session' = [session EXCEPT ![s].refresh = @ + 1]
    /\ UNCHANGED <<account, challenge, token>>

RotateRefreshToken(s, current) ==
    /\ SessionActive(s)
    /\ session[s].refresh = current
    /\ Active(session[s].user)
    /\ session' = [session EXCEPT ![s].refresh = @ + 1]
    /\ UNCHANGED <<account, challenge, token>>

RevokeSession(s) ==
    /\ session' = [session EXCEPT ![s].status = IF @ = "active" THEN "revoked" ELSE @]
    /\ UNCHANGED <<account, challenge, token>>

RevokeUserSession(u, s) ==
    /\ session[s] # Null
    /\ session[s].user = u
    /\ RevokeSession(s)

RevokeAllSessions(u) ==
    /\ session' = RevokedSessions(u)
    /\ account' = [account EXCEPT ![u] = Unlocked(@)]
    /\ UNCHANGED <<challenge, token>>

-----------------------------------------------------------------------------
(* Action tokens *)

RevokedTokens(u, purpose) ==
    [t \in Tokens |->
        IF /\ token[t] # Null
           /\ token[t].user = u /\ token[t].purpose = purpose
           /\ token[t].status = "active"
        THEN [token[t] EXCEPT !.status = "revoked"]
        ELSE token[t]]

MayHaveToken(u, purpose) ==
    \/ Unlocked(account[u]).status = "active"
    \/ purpose = "password_reset" /\ Unlocked(account[u]).status = "locked"

InsertToken(t, u, purpose) ==
    /\ token[t] = Null
    /\ token' = [RevokedTokens(u, purpose) EXCEPT ![t] =
           [user |-> u, purpose |-> purpose, status |-> "active", sent |-> FALSE]]
    /\ UNCHANGED <<account, session, challenge>>

RevokeToken(t) ==
    /\ token' = [token EXCEPT ![t].status = IF @ = "active" THEN "revoked" ELSE @]
    /\ UNCHANGED <<account, session, challenge>>

\* Both confirmations consume their token and revoke the others of its kind.
SpendToken(t) ==
    token' = [RevokedTokens(token[t].user, token[t].purpose)
                 EXCEPT ![t] = [token[t] EXCEPT !.status = "consumed"]]

ConfirmEmail(t) ==
    /\ token[t] # Null
    /\ token[t].purpose = "email_verification"
    /\ token[t].status = "active"
    /\ Active(token[t].user)
    /\ SpendToken(t)
    /\ account' = [account EXCEPT ![token[t].user].verified = TRUE]
    /\ UNCHANGED <<session, challenge>>

ResetKeepsSessions(t, new) ==       \* mutant: sessions survive the reset
    /\ token[t] # Null
    /\ token[t].purpose = "password_reset"
    /\ token[t].status = "active"
    /\ account[token[t].user].status \in {"active", "locked"}
    /\ SpendToken(t)
    /\ account' = [account EXCEPT ![token[t].user] =
           Cleared([@ EXCEPT !.password = new, !.status = "active"])]
    /\ UNCHANGED <<session, challenge>>

ResetPassword(t, new) ==
    /\ token[t] # Null
    /\ token[t].purpose = "password_reset"
    /\ token[t].status = "active"
    /\ account[token[t].user].status \in {"active", "locked"}
    /\ SpendToken(t)
    /\ account' = [account EXCEPT ![token[t].user] =
           Cleared([@ EXCEPT !.password = new, !.status = "active"])]
    /\ session' = RevokedSessions(token[t].user)
    /\ UNCHANGED challenge

-----------------------------------------------------------------------------
(* Deadlines *)

ExpireSession(s) ==
    /\ SessionActive(s)
    /\ session' = [session EXCEPT ![s].status = "expired"]
    /\ UNCHANGED <<account, challenge, token>>

ExpireChallenge(c) ==
    /\ challenge[c] # Null /\ challenge[c].status = "active"
    /\ challenge' = [challenge EXCEPT ![c].status = "expired"]
    /\ UNCHANGED <<account, session, token>>

ExpireToken(t) ==
    /\ token[t] # Null /\ token[t].status = "active"
    /\ token' = [token EXCEPT ![t].status = "expired"]
    /\ UNCHANGED <<account, session, challenge>>

LockPasses(u) ==
    /\ Registered(u) /\ account[u].status = "locked" /\ ~account[u].lockOver
    /\ account' = [account EXCEPT ![u].lockOver = TRUE]
    /\ UNCHANGED <<session, challenge, token>>

WindowPasses(u) ==
    /\ Registered(u) /\ account[u].window = "open"
    /\ account' = [account EXCEPT ![u].window = "over"]
    /\ UNCHANGED <<session, challenge, token>>

=============================================================================
