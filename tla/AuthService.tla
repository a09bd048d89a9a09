---------------------------- MODULE AuthService ----------------------------
(***************************************************************************)
(* The account handlers (api/auth.py, api/admin.py) on AuthenticationService*)
(* (core/auth_service.py).  A handler makes one store transaction at a time *)
(* and remembers what it read in between, so everything it read may be out  *)
(* of date when it acts on it.  call[h] is the request that handler h       *)
(* serves and `at' the transaction it makes next.                           *)
(*                                                                          *)
(* A refusal leaves the store as it is and the handler idle.  So does the   *)
(* end of the process.  Drop is both: it may happen at every step, and      *)
(* the other actions are the steps that are not refused.                    *)
(***************************************************************************)
EXTENDS AuthStore

CONSTANTS
    Handlers,   \* threads that serve requests
    Operations  \* the operations clients ask for

ASSUME ServiceAssumption == Null \notin {"login", "verify_login", "refresh", "forgot"}

VARIABLE call

vars == <<account, session, challenge, token, call>>

Idle == [at |-> "idle", op |-> Null, user |-> Null, session |-> Null,
         item |-> Null, password |-> Null, salt |-> 0, proof |-> Null]

ServiceInit ==
    /\ Init
    /\ call = [h \in Handlers |-> Idle]

At(h, step) == call[h].at = step

User(h) == call[h].user

\* The passwords a request may carry; Null is one nobody has.
Attempts == Passwords \cup {Null}

Accept(h, op, step, request) ==
    /\ At(h, "idle")
    /\ op \in Operations
    /\ call' = [call EXCEPT ![h] = [request EXCEPT !.at = step, !.op = op]]

GoTo(h, step) == call' = [call EXCEPT ![h].at = step]

Finish(h) == call' = [call EXCEPT ![h] = Idle]

\* After a read that also writes: on if what was read allows it.
GoToIf(h, allowed, step) ==
    call' = [call EXCEPT ![h] = IF allowed THEN [@ EXCEPT !.at = step] ELSE Idle]

Drop(h) ==
    /\ ~At(h, "idle")
    /\ Finish(h)
    /\ UNCHANGED storeVars

-----------------------------------------------------------------------------
(* Registration and login: protection state, password, then a challenge for *)
(* the second factor or a session.                                          *)

Register(h) ==
    /\ At(h, "idle")
    /\ "register" \in Operations
    /\ \E u \in Users, p \in Passwords : CreateUser(u, p)
    /\ UNCHANGED call

\* get_user_by_email and get_login_protection_state: two reads, the second
\* of which decides.
Login(h) == \E u \in Users :
    /\ ReadUser(u)
    /\ Unlocked(account[u]).status = "active"
    /\ Accept(h, "login", "verify", [Idle EXCEPT !.user = u])

VerifyPassword(h) ==
    /\ At(h, "verify")
    /\ ReadUser(User(h))
    /\ \E p \in Attempts :
          call' = [call EXCEPT ![h] =
              IF PasswordMatches(@.user, p)
              THEN [@ EXCEPT !.at = "material", !.password = p]
              ELSE [@ EXCEPT !.at = "failed"]]

CountFailure(h) ==
    /\ At(h, "failed")
    /\ RecordLoginFailure(User(h))
    /\ Finish(h)

ReadMaterial(h) ==
    /\ At(h, "material")
    /\ GoTo(h, IF SecondFactor(User(h)) THEN "challenge" ELSE "create")
    /\ UNCHANGED storeVars

\* create_two_factor_challenge reads the account before its first write ...
CheckChallenge(h) ==
    /\ At(h, "challenge")
    /\ Active(User(h)) /\ SecondFactor(User(h))
    /\ GoTo(h, "ask")
    /\ UNCHANGED storeVars

\* ... and the insert does not look at it again.
IssueChallenge(h) ==
    /\ At(h, "ask")
    /\ \E c \in Challenges : InsertChallenge(c, User(h), call[h].password)
    /\ Finish(h)

-----------------------------------------------------------------------------
(* _create_session_bundle *)

\* create_session reads the account in one transaction ...
CheckActive(h) ==
    /\ At(h, "create")
    /\ ReadUser(User(h))
    /\ GoToIf(h, Unlocked(account[User(h)]).status = "active", "insert")

\* ... and inserts the row in another.
CreateSession(h) ==
    /\ At(h, "insert")
    /\ \E s \in Sessions :
          /\ InsertSession(s, User(h), call[h].password, call[h].salt, call[h].item)
          /\ call' = [call EXCEPT ![h].at = "record", ![h].session = s]

LoginSucceeds(h) ==
    /\ At(h, "record")
    /\ RecordLoginSuccess(User(h))
    /\ GoTo(h, "reply")

LoginFails(h) ==
    /\ At(h, "record")
    /\ ~Active(User(h))
    /\ GoTo(h, "undo")
    /\ UNCHANGED storeVars

\* The except clause of the bundle, and a refresh for an inactive account.
UndoSession(h) ==
    /\ At(h, "undo")
    /\ RevokeSession(call[h].session)
    /\ Finish(h)

SendTokens(h) ==
    /\ At(h, "reply")
    /\ session' = [session EXCEPT ![call[h].session].held = TRUE]
    /\ Finish(h)
    /\ UNCHANGED <<account, challenge, token>>

-----------------------------------------------------------------------------
(* The second factor, of a login or of a protected change *)

FindChallenge(h) == \E c \in Challenges :
    /\ challenge[c] # Null
    /\ challenge[c].status = "active"
    /\ Accept(h, "verify_login", "factor",
              [Idle EXCEPT !.user = challenge[c].user, !.item = c,
                           !.password = challenge[c].password])
    /\ UNCHANGED storeVars

\* get_two_factor_material and _verify_two_factor_input: a TOTP code is
\* compared with the counter just read, a recovery code is only hashed.
CheckFactor(h) ==
    LET login == call[h].op = "verify_login"
        row == account[User(h)]
        totp == [kind : {"totp"}, n : {n \in 1..MaxCounter : n > row.counter}]
        code == [kind : {"code"}, n : 1..row.issued]
    IN  /\ At(h, "factor")
        /\ SecondFactor(User(h))
        /\ login => Active(User(h))
        /\ \E p \in totp \cup code :
              call' = [call EXCEPT ![h].proof = p, ![h].salt = row.salt,
                                   ![h].at = IF login THEN "complete" ELSE "consume"]
        /\ UNCHANGED storeVars

CompleteLogin(h) ==
    /\ At(h, "complete")
    /\ CompleteTwoFactorChallenge(call[h].item, call[h].proof)
    /\ GoTo(h, "create")

ConsumeProof(h) ==
    /\ At(h, "consume")
    /\ ConsumeTwoFactorProof(User(h), call[h].proof)
    /\ GoTo(h, "apply")

ApplyProtectedChange(h) ==
    /\ At(h, "apply")
    /\ \/ call[h].op = "disable_2fa" /\ DisableTwoFactor(User(h))
       \/ call[h].op = "regenerate" /\ ReplaceRecoveryCodes(User(h))
    /\ Finish(h)

-----------------------------------------------------------------------------
(* Refresh and the operations of a signed-in account.  authenticate_bearer_ *)
(* token reads the session and then the account.                            *)

Refresh(h) == \E s \in Sessions :
    /\ session[s] # Null
    /\ session[s].held
    /\ session[s].refresh < MaxRotations
    /\ \E current \in 0..session[s].refresh :
          /\ RotateRefreshToken(s, current)
          /\ Accept(h, "refresh", "refreshed",
                    [Idle EXCEPT !.user = session[s].user, !.session = s, !.item = current])

RefreshChecksUser(h) ==
    /\ At(h, "refreshed")
    /\ ReadUser(User(h))
    /\ GoTo(h, IF Unlocked(account[User(h)]).status = "active" THEN "reply" ELSE "undo")

SignedIn == {"logout", "revoke_session", "logout_all", "change_password",
             "setup_2fa", "enable_2fa", "disable_2fa", "regenerate",
             "request_verification"}

Administration == {"enable_account", "disable_account", "unlock_account",
                   "assign_role", "remove_role"}

Authenticate(h) == \E s \in Sessions, op \in SignedIn \cup Administration :
    /\ SessionActive(s)
    /\ session[s].held
    /\ Accept(h, op, "principal",
              [Idle EXCEPT !.user = session[s].user, !.session = s])
    /\ UNCHANGED storeVars

\* require_principal and, for an administrator, the roles read with the account.
ReadPrincipal(h) ==
    LET row == Unlocked(account[User(h)])
    IN  /\ At(h, "principal")
        /\ ReadUser(User(h))
        /\ GoToIf(h, row.status = "active" /\ (call[h].op \in Administration => row.admin),
                  IF call[h].op \in {"setup_2fa", "disable_2fa", "regenerate"}
                  THEN "confirm" ELSE call[h].op)

\* _require_current_password: get_user and verify_user_password, two reads of
\* the same columns, the second of which decides.
ConfirmPassword(h) ==
    /\ At(h, "confirm")
    /\ ReadUser(User(h))
    /\ \E p \in Attempts :
          GoToIf(h, PasswordMatches(User(h), p),
                 IF call[h].op = "setup_2fa" THEN "setup_2fa" ELSE "factor")

Logout(h) ==
    /\ At(h, "logout")
    /\ RevokeSession(call[h].session)
    /\ Finish(h)

RevokeOneSession(h) ==
    /\ At(h, "revoke_session")
    /\ \E s \in Sessions : RevokeUserSession(User(h), s)
    /\ Finish(h)

LogoutAll(h) ==
    /\ At(h, "logout_all")
    /\ RevokeAllSessions(User(h))
    /\ Finish(h)

ChangesPassword(h) ==
    /\ At(h, "change_password")
    /\ \E current, new \in Passwords : ChangePassword(User(h), current, new)
    /\ Finish(h)

SetUpTwoFactor(h) ==
    /\ At(h, "setup_2fa")
    /\ StartTwoFactorSetup(User(h))
    /\ Finish(h)

\* The code is checked against the pending salt just read.
ReadPendingSalt(h) ==
    /\ At(h, "enable_2fa")
    /\ Active(User(h)) /\ ~SecondFactor(User(h))
    /\ account[User(h)].pending # 0
    /\ \E n \in 1..MaxCounter :
          call' = [call EXCEPT ![h].salt = account[User(h)].pending,
                               ![h].proof = [kind |-> "totp", n |-> n],
                               ![h].at = "enable"]
    /\ UNCHANGED storeVars

ConfirmTwoFactor(h) ==
    /\ At(h, "enable")
    /\ EnableTwoFactor(User(h), call[h].salt, call[h].proof.n)
    /\ Finish(h)

-----------------------------------------------------------------------------
(* Mailed tokens: e-mail verification and password reset *)

ReadUnverified(h) ==
    /\ At(h, "request_verification")
    /\ ReadUser(User(h))
    /\ GoToIf(h, /\ Unlocked(account[User(h)]).status = "active"
                 /\ ~account[User(h)].verified, "token")

ForgotPassword(h) == \E u \in Users :
    /\ ReadUser(u)
    /\ MayHaveToken(u, "password_reset")
    /\ Accept(h, "forgot", "token", [Idle EXCEPT !.user = u])

Purpose(h) == IF call[h].op = "forgot" THEN "password_reset" ELSE "email_verification"

\* create_account_action_token reads the account in one transaction ...
CheckToken(h) ==
    /\ At(h, "token")
    /\ ReadUser(User(h))
    /\ GoToIf(h, MayHaveToken(User(h), Purpose(h)), "issue")

\* ... and replaces the tokens of that purpose in another.
IssueToken(h) ==
    /\ At(h, "issue")
    /\ \E t \in Tokens :
          /\ InsertToken(t, User(h), Purpose(h))
          /\ call' = [call EXCEPT ![h].at = "mail", ![h].item = t]

MailToken(h) ==
    /\ At(h, "mail")
    /\ \/ /\ token' = [token EXCEPT ![call[h].item].sent = TRUE]
          /\ Finish(h)
          /\ UNCHANGED <<account, session, challenge>>
       \/ GoTo(h, "unsent") /\ UNCHANGED storeVars

\* Delivery failed: the token nobody will receive is revoked.
WithdrawToken(h) ==
    /\ At(h, "unsent")
    /\ RevokeToken(call[h].item)
    /\ Finish(h)

ConfirmsEmail(h) ==
    /\ At(h, "idle")
    /\ "confirm_email" \in Operations
    /\ \E t \in Tokens : ConfirmEmail(t) /\ token[t].sent
    /\ UNCHANGED call

ResetsPassword(h) ==
    /\ At(h, "idle")
    /\ "reset" \in Operations
    /\ \E t \in Tokens, p \in Passwords : ResetPassword(t, p) /\ token[t].sent
    /\ UNCHANGED call

-----------------------------------------------------------------------------
(* Account administration, on the roles ReadPrincipal saw *)

EnableAccount(h) ==
    /\ At(h, "enable_account")
    /\ \E u \in Users :
          SetUserStatusByAdministrator(User(h), u, "active", {"disabled"})
    /\ Finish(h)

DisableAccount(h) ==
    /\ At(h, "disable_account")
    /\ \E u \in Users :
          SetUserStatusByAdministrator(User(h), u, "disabled", {"active", "locked"})
    /\ Finish(h)

UnlockAccount(h) ==
    /\ At(h, "unlock_account")
    /\ \E u \in Users :
          SetUserStatusByAdministrator(User(h), u, "active", {"locked"})
    /\ Finish(h)

AssignRole(h) ==
    /\ At(h, "assign_role")
    /\ \E u \in Users : AssignAdminRole(u)
    /\ Finish(h)

RemoveRole(h) ==
    /\ At(h, "remove_role")
    /\ \E u \in Users : RemoveAdminRole(User(h), u)
    /\ Finish(h)

-----------------------------------------------------------------------------

LoginStep(h) ==
    \/ Register(h) \/ Login(h) \/ VerifyPassword(h) \/ CountFailure(h)
    \/ ReadMaterial(h) \/ CheckChallenge(h) \/ IssueChallenge(h)
    \/ CheckActive(h) \/ CreateSession(h) \/ LoginSucceeds(h) \/ LoginFails(h)
    \/ UndoSession(h) \/ SendTokens(h) \/ Drop(h)

FactorStep(h) ==
    \/ FindChallenge(h) \/ CheckFactor(h) \/ CompleteLogin(h)
    \/ ConsumeProof(h) \/ ApplyProtectedChange(h)
    \/ SetUpTwoFactor(h) \/ ReadPendingSalt(h) \/ ConfirmTwoFactor(h)

SessionStep(h) ==
    \/ Refresh(h) \/ RefreshChecksUser(h) \/ Authenticate(h) \/ ReadPrincipal(h)
    \/ ConfirmPassword(h) \/ Logout(h) \/ RevokeOneSession(h) \/ LogoutAll(h)
    \/ ChangesPassword(h)

TokenStep(h) ==
    \/ ReadUnverified(h) \/ ForgotPassword(h) \/ CheckToken(h) \/ IssueToken(h)
    \/ MailToken(h) \/ WithdrawToken(h) \/ ConfirmsEmail(h) \/ ResetsPassword(h)

AdminStep(h) ==
    \/ EnableAccount(h) \/ DisableAccount(h) \/ UnlockAccount(h)
    \/ AssignRole(h) \/ RemoveRole(h)

Deadline ==
    /\ \/ \E s \in Sessions : ExpireSession(s)
       \/ \E c \in Challenges : ExpireChallenge(c)
       \/ \E t \in Tokens : ExpireToken(t)
       \/ \E u \in Users : LockPasses(u) \/ WindowPasses(u)
    /\ UNCHANGED call

Next ==
    \/ \E h \in Handlers : \/ LoginStep(h) \/ FactorStep(h) \/ SessionStep(h)
                          \/ TokenStep(h) \/ AdminStep(h)
    \/ Deadline

Spec == ServiceInit /\ [][Next]_vars

-----------------------------------------------------------------------------
(* Types *)

Steps == {"idle", "verify", "failed", "material", "challenge", "ask", "create",
          "insert", "record", "undo", "reply", "factor", "complete", "consume",
          "apply", "refreshed", "principal", "confirm", "enable", "token",
          "issue", "mail", "unsent"} \cup SignedIn \cup Administration

Calls ==
    [at : Steps,
     op : SignedIn \cup Administration
              \cup {Null, "login", "verify_login", "refresh", "forgot"},
     user : Users \cup {Null}, session : Sessions \cup {Null},
     item : Challenges \cup Tokens \cup Nat \cup {Null},
     password : Passwords \cup {Null}, salt : Nat, proof : Proofs \cup {Null}]

\* Rows and calls are well formed (the schema checks of auth_db.initialize
\* and the types the handlers pass on).
TypeOK ==
    /\ account \in [Users -> AccountRows \cup {Null}]
    /\ session \in [Sessions -> SessionRows \cup {Null}]
    /\ challenge \in [Challenges -> ChallengeRows \cup {Null}]
    /\ token \in [Tokens -> TokenRows \cup {Null}]
    /\ call \in [Handlers -> Calls]

-----------------------------------------------------------------------------
(* Safety *)

\* A client never holds a live session of an account that is locked or
\* disabled, although a login inserts the session in one transaction and
\* looks at the account again in the next (_create_session_bundle).
HeldSessionsFollowStatus == \A s \in Sessions :
    SessionActive(s) /\ session[s].held => Active(session[s].user)

\* A live session was opened with the password and the second factor the
\* account has now, unless its login had passed them before they changed
\* and inserted the session afterwards: every change revokes the sessions
\* in its own transaction (change_password, reset_password_with_token,
\* enable_two_factor).
SessionsMatchAccount == \A s \in Sessions :
    SessionActive(s) /\ ~session[s].late =>
        LET row == account[session[s].user]
        IN  /\ session[s].password = row.password
            /\ row.salt # 0 => session[s].salt = row.salt

\* A challenge is answered with success once, however many requests present
\* it together (complete_two_factor_challenge).
OneSessionPerChallenge == \A s1, s2 \in Sessions :
    /\ session[s1] # Null /\ session[s2] # Null
    /\ session[s1].challenge = session[s2].challenge
    /\ session[s1].challenge # Null
    => s1 = s2

\* Of the requests that present the same refresh token together one wins
\* (rotate_refresh_token).
RefreshTokenUsedOnce == \A h1, h2 \in Handlers :
    /\ h1 # h2
    /\ call[h1].op = "refresh" /\ call[h2].op = "refresh"
    /\ call[h1].session = call[h2].session
    => call[h1].item # call[h2].item

\* An account has at most one usable token of a purpose, also when requests
\* for it overlap (create_account_action_token).
OneTokenPerPurpose == \A t1, t2 \in Tokens :
    /\ token[t1] # Null /\ token[t2] # Null
    /\ token[t1].status = "active" /\ token[t2].status = "active"
    /\ token[t1].user = token[t2].user /\ token[t1].purpose = token[t2].purpose
    => t1 = t2

\* The failure that reaches the limit locks the account in its own
\* transaction, so no active account ever shows the limit, whatever logins
\* succeed, expire or are unlocked in between (record_login_failure).
NoActiveAccountAtLimit == \A u \in Users :
    Active(u) => account[u].failures < FailureLimit

-----------------------------------------------------------------------------
(* Action properties *)

\* Answering a challenge always costs a proof nobody can use again: the
\* counter rises or a recovery code goes, in the same transaction, although
\* the code was checked against a counter read before.
FactorIsSpent == [][\A c \in Challenges :
    challenge[c] # Null /\ challenge[c].status = "active" /\ challenge'[c].status = "consumed" =>
        LET u == challenge[c].user
        IN  \/ account'[u].counter > account[u].counter
            \/ account'[u].codes \subseteq account[u].codes
               /\ account'[u].codes # account[u].codes]_vars

\* The secret a second factor is switched on with is the one the confirming
\* code was checked against, even if setup was started again in between
\* (enable_two_factor).
EnabledSaltWasChecked == [][\A u \in Users :
    Registered(u) /\ ~SecondFactor(u) /\ SecondFactor(u)' =>
        \E h \in Handlers : /\ At(h, "enable") /\ User(h) = u
                           /\ call[h].salt = account'[u].salt]_vars

\* Only a lockout takes the last active administrator away: no combination
\* of administrative requests does, on whatever roles they were authorised
\* ("The final active administrator account cannot be disabled.").
LastAdminStays == [][
    ActiveAdmins # {} /\ ActiveAdmins' = {} =>
        \E u \in ActiveAdmins : account'[u].status = "locked"]_vars

\* Well-formed rows, and sessions that go with the credentials they were
\* opened with.
SessionsInv == TypeOK /\ SessionsMatchAccount

\* A lockout takes the sessions along, the limit always locks, and a changed
\* password ends what the old one opened.
LockoutHolds ==
    HeldSessionsFollowStatus /\ NoActiveAccountAtLimit /\ SessionsMatchAccount

\* A refresh token works once, and a purpose has one usable token.
TokensWorkOnce == RefreshTokenUsedOnce /\ OneTokenPerPurpose

\* A challenge costs a proof, and setup ends with the secret that was checked.
FactorIsChecked == FactorIsSpent /\ EnabledSaltWasChecked

=============================================================================
