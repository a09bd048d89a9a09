----------------------------- MODULE AuthProofs -----------------------------
(***************************************************************************)
(* Theorems about accounts, sessions, challenges and tokens, for any users,*)
(* handlers, passwords and limits.                                         *)
(*                                                                         *)
(* Every transaction moves each row of a table along one of a few edges    *)
(* (AccountMove, SessionMove, ChallengeMove, TokenMove): the lemmas of the *)
(* second part show which.  What the store promises follows from the edges *)
(* alone (StoreInv); what a handler may rely on between two transactions   *)
(* (IInv) from the edges and from where it stands.                         *)
(***************************************************************************)
EXTENDS AuthService, FiniteSetTheorems, TLAPS

-----------------------------------------------------------------------------
(* Edges *)

\* What a login proves, and what keeps a session alive.
SameCredentials(u) ==
    /\ account'[u].password = account[u].password
    /\ account'[u].salt = account[u].salt

\* No session of u survives the step.
SessionsEnd(u) == \A s \in Sessions :
    session[s] # Null /\ session[s].user = u => ~SessionActive(s)'

\* Somebody has checked the secret that u is enrolled with.
CheckedSalt(u) == \E h \in Handlers :
    At(h, "enable") /\ User(h) = u /\ call[h].salt = account'[u].salt

AccountMove(u) ==
    \/ account'[u] = account[u]
    \/ /\ account[u] = Null
       /\ account'[u] # Null /\ account'[u].failures = 0
    \/ /\ account[u] # Null /\ account'[u] # Null
       /\ Active(u)' => account'[u].failures < FailureLimit
       /\ (SameCredentials(u) /\ (Active(u) => Active(u)')) \/ SessionsEnd(u)
       /\ account'[u].salt \in {0, account[u].salt} \/ CheckedSalt(u)

\* A proof of u was used up.
Spends(u) ==
    \/ account'[u].counter > account[u].counter
    \/ account'[u].codes \subseteq account[u].codes /\ account'[u].codes # account[u].codes

\* The session that a handler has just opened.
Fresh(s, row) ==
    /\ row.status = "active" /\ ~row.held /\ Registered(row.user) /\ row.refresh = 0
    /\ ~row.late => /\ row.password = account[row.user].password
                    /\ row.salt = account[row.user].salt

SessionMove(s) ==
    \/ session'[s] = session[s]
    \/ /\ session[s] = Null
       /\ session'[s] # Null /\ Fresh(s, session'[s]) /\ account' = account
       /\ \E h \in Handlers : At(h, "insert") /\ At(h, "record")'
    \/ /\ session[s] # Null /\ session'[s] # Null
       /\ session'[s].user = session[s].user
       /\ session'[s].password = session[s].password
       /\ session'[s].salt = session[s].salt
       /\ session'[s].challenge = session[s].challenge
       /\ session'[s].late = session[s].late
       /\ session'[s].refresh >= session[s].refresh
       /\ session'[s].status = "active" => session[s].status = "active"
       /\ \/ session'[s].held => session[s].held
          \/ \E h \in Handlers : At(h, "reply") /\ call[h].session = s

ChallengeMove(c) ==
    \/ challenge'[c] = challenge[c]
    \/ /\ challenge[c] = Null
       /\ challenge'[c] # Null /\ challenge'[c].status = "active" /\ Registered(challenge'[c].user)
    \/ /\ challenge[c] # Null /\ challenge'[c] # Null
       /\ challenge'[c].user = challenge[c].user
       /\ challenge'[c].password = challenge[c].password
       /\ challenge[c].status = "active"
       /\ challenge'[c].status = "consumed" => Spends(challenge[c].user)

TokenMove(t) ==
    \/ token'[t] = token[t]
    \/ /\ token[t] = Null
       /\ token'[t] # Null /\ Registered(token'[t].user)
       /\ \A x \in Tokens \ {t} :
             token'[x] # Null /\ token'[x].status = "active" =>
                 token'[x].user # token'[t].user \/ token'[x].purpose # token'[t].purpose
    \/ /\ token[t] # Null /\ token'[t] # Null
       /\ token'[t].user = token[t].user /\ token'[t].purpose = token[t].purpose
       /\ token'[t].status = "active" => token[t].status = "active"

\* An active administrator stays one, or is locked out, or is not the last.
AdminsMove ==
    \/ ActiveAdmins' # {}
    \/ \A u \in ActiveAdmins : account'[u].status = "locked"

AccountTable == [Users -> AccountRows \cup {Null}]
SessionTable == [Sessions -> SessionRows \cup {Null}]
ChallengeTable == [Challenges -> ChallengeRows \cup {Null}]
TokenTable == [Tokens -> TokenRows \cup {Null}]

AccountsMove == account' \in AccountTable /\ \A u \in Users : AccountMove(u)
SessionsMove == session' \in SessionTable /\ \A s \in Sessions : SessionMove(s)
ChallengesMove == challenge' \in ChallengeTable /\ \A c \in Challenges : ChallengeMove(c)
TokensMove == token' \in TokenTable /\ \A t \in Tokens : TokenMove(t)

StoreMove == AccountsMove /\ SessionsMove /\ ChallengesMove /\ TokensMove /\ AdminsMove

-----------------------------------------------------------------------------
(* What the store promises *)

StoreTypes ==
    /\ account \in AccountTable
    /\ session \in SessionTable
    /\ challenge \in ChallengeTable
    /\ token \in TokenTable

\* Rows name accounts that exist.
Known ==
    /\ \A s \in Sessions : session[s] # Null => Registered(session[s].user)
    /\ \A c \in Challenges : challenge[c] # Null => Registered(challenge[c].user)
    /\ \A t \in Tokens : token[t] # Null => Registered(token[t].user)

StoreInv ==
    /\ StoreTypes /\ Known
    /\ SessionsMatchAccount /\ NoActiveAccountAtLimit /\ OneTokenPerPurpose

\* What nobody takes back.
Persist ==
    /\ \A u \in Users : Registered(u) => Registered(u)'
    /\ \A s \in Sessions : session[s] # Null =>
          /\ session'[s] # Null
          /\ session'[s].user = session[s].user
          /\ session'[s].challenge = session[s].challenge
          /\ session'[s].refresh >= session[s].refresh
          /\ SessionActive(s)' => SessionActive(s)
          /\ SessionActive(s)' /\ Active(session[s].user) => Active(session[s].user)'
    /\ \A c \in Challenges : challenge[c] # Null =>
          /\ challenge'[c] # Null
          /\ challenge'[c].user = challenge[c].user
          /\ challenge'[c].password = challenge[c].password
          /\ challenge[c].status = "consumed" => challenge'[c].status = "consumed"
    /\ \A t \in Tokens : token[t] # Null => token'[t] # Null

LEMMA StoreRows ==
    ASSUME StoreTypes
    PROVE  /\ \A u \in Users : account[u] # Null => account[u] \in AccountRows
           /\ \A s \in Sessions : session[s] # Null =>
                 session[s] \in SessionRows /\ session[s].user \in Users
           /\ \A c \in Challenges : challenge[c] # Null =>
                 challenge[c] \in ChallengeRows /\ challenge[c].user \in Users
           /\ \A t \in Tokens : token[t] # Null =>
                 token[t] \in TokenRows /\ token[t].user \in Users
BY DEF StoreTypes, AccountTable, SessionTable, ChallengeTable, TokenTable,
       SessionRows, ChallengeRows, TokenRows

\* Rows that move along the edges keep to what went before ...
LEMMA MovesPersist ==
    ASSUME StoreInv, StoreMove
    PROVE  Persist
<1>0. StoreTypes /\ Known
  BY DEF StoreInv
<1>1. ASSUME NEW u \in Users, Registered(u) PROVE Registered(u)'
  BY <1>1 DEF StoreMove, AccountsMove, AccountMove, Registered
<1>2. ASSUME NEW s \in Sessions, session[s] # Null
      PROVE  /\ session'[s] # Null
             /\ session'[s].user = session[s].user
             /\ session'[s].challenge = session[s].challenge
             /\ session'[s].refresh >= session[s].refresh
             /\ SessionActive(s)' => SessionActive(s)
  <2>1. session[s].refresh \in Nat
    BY <1>0, <1>2, StoreRows DEF SessionRows
  <2> QED
    BY <1>2, <2>1 DEF StoreMove, SessionsMove, SessionMove, SessionActive
<1>3. ASSUME NEW s \in Sessions, session[s] # Null, SessionActive(s)', Active(session[s].user)
      PROVE  Active(session[s].user)'
  <2>1. PICK u \in Users : u = session[s].user
    BY <1>0, <1>3, StoreRows
  <2>2. AccountMove(u)
    BY <2>1 DEF StoreMove, AccountsMove
  <2>3. session'[s].user = u
    BY <1>2, <1>3, <2>1
  <2>4. Active(u)'
    BY <1>3, <2>1, <2>2 DEF AccountMove, SessionsEnd, Active, Registered
  <2> QED
    BY <2>3, <2>4 DEF Active, Registered
<1>4. ASSUME NEW c \in Challenges, challenge[c] # Null
      PROVE  /\ challenge'[c] # Null
             /\ challenge'[c].user = challenge[c].user
             /\ challenge'[c].password = challenge[c].password
             /\ challenge[c].status = "consumed" => challenge'[c].status = "consumed"
  BY <1>4 DEF StoreMove, ChallengesMove, ChallengeMove
<1>5. ASSUME NEW t \in Tokens, token[t] # Null PROVE token'[t] # Null
  BY <1>5 DEF StoreMove, TokensMove, TokenMove
<1> QED
  BY <1>1, <1>2, <1>3, <1>4, <1>5 DEF Persist

\* ... and keep the promises.
LEMMA MovesKeep ==
    ASSUME StoreInv, StoreMove
    PROVE  StoreInv'
<1>0. StoreTypes /\ Known /\ Persist
  BY MovesPersist DEF StoreInv
<1>1. StoreTypes'
  BY DEF StoreMove, AccountsMove, SessionsMove, ChallengesMove, TokensMove, StoreTypes,
         AccountTable, SessionTable, ChallengeTable, TokenTable
<1>2. Known'
  <2>1. ASSUME NEW s \in Sessions, session'[s] # Null PROVE account'[session'[s].user] # Null
    <3>1. CASE session[s] = Null
      <4>1. Registered(session'[s].user) /\ account' = account
        BY <2>1, <3>1 DEF StoreMove, SessionsMove, SessionMove, Fresh
      <4> QED
        BY <4>1 DEF Registered
    <3>2. CASE session[s] # Null
      <4>1. session'[s].user = session[s].user /\ session[s].user \in Users
        BY <1>0, <3>2, StoreRows DEF Persist
      <4> QED
        BY <1>0, <3>2, <4>1 DEF Persist, Known, Registered
    <3> QED
      BY <3>1, <3>2
  <2>2. ASSUME NEW c \in Challenges, challenge'[c] # Null PROVE account'[challenge'[c].user] # Null
    <3>1. challenge'[c].user \in Users
      BY <1>1, <2>2 DEF StoreTypes, ChallengeTable, ChallengeRows
    <3>2. Registered(challenge'[c].user)
      BY <1>0, <2>2 DEF StoreMove, ChallengesMove, ChallengeMove, Known
    <3> QED
      BY <1>0, <3>1, <3>2 DEF Persist, Registered
  <2>3. ASSUME NEW t \in Tokens, token'[t] # Null PROVE account'[token'[t].user] # Null
    <3>1. token'[t].user \in Users
      BY <1>1, <2>3 DEF StoreTypes, TokenTable, TokenRows
    <3>2. Registered(token'[t].user)
      BY <1>0, <2>3 DEF StoreMove, TokensMove, TokenMove, Known
    <3> QED
      BY <1>0, <3>1, <3>2 DEF Persist, Registered
  <2> QED
    BY <2>1, <2>2, <2>3 DEF Known, Registered
<1>3. ASSUME NEW s \in Sessions, SessionActive(s)', ~session'[s].late
      PROVE  /\ session'[s].password = account'[session'[s].user].password
             /\ account'[session'[s].user].salt # 0 =>
                    session'[s].salt = account'[session'[s].user].salt
  <2>1. CASE session[s] = Null
    <3>1. Fresh(s, session'[s]) /\ account' = account
      BY <1>3, <2>1 DEF StoreMove, SessionsMove, SessionMove, SessionActive
    <3> QED
      BY <1>3, <3>1 DEF Fresh
  <2>2. CASE session[s] # Null
    <3>0. PICK u \in Users : u = session[s].user
      BY <1>0, <2>2, StoreRows
    <3>1. u \in Users /\ session'[s].user = u /\ SessionActive(s)
      BY <1>0, <1>3, <2>2, <3>0 DEF Persist
    <3>2. /\ session'[s].password = session[s].password
          /\ session'[s].salt = session[s].salt
          /\ session'[s].late = session[s].late
      BY <2>2 DEF StoreMove, SessionsMove, SessionMove
    <3>3. /\ session[s].password = account[u].password
          /\ account[u].salt # 0 => session[s].salt = account[u].salt
      BY <1>3, <3>0, <3>1, <3>2 DEF StoreInv, SessionsMatchAccount
    <3>4. AccountMove(u) /\ account[u] # Null
      BY <1>0, <2>2, <3>0 DEF StoreMove, AccountsMove, Known, Registered
    <3>5. account'[u].password = account[u].password /\ account'[u].salt = account[u].salt
      BY <1>3, <2>2, <3>0, <3>4 DEF AccountMove, SessionsEnd, SameCredentials
    <3> QED
      BY <3>1, <3>2, <3>3, <3>5
  <2> QED
    BY <2>1, <2>2
<1>4. ASSUME NEW u \in Users, Active(u)' PROVE account'[u].failures < FailureLimit
  <2>1. AccountMove(u)
    BY DEF StoreMove, AccountsMove
  <2> QED
    BY <1>4, <2>1, StoreAssumption
    DEF AccountMove, StoreInv, NoActiveAccountAtLimit, Active, Registered
<1>5. ASSUME NEW t1 \in Tokens, NEW t2 \in Tokens, t1 # t2, token'[t1] # Null, token'[t2] # Null,
             token'[t1].status = "active", token'[t2].status = "active",
             token'[t1].user = token'[t2].user, token'[t1].purpose = token'[t2].purpose
      PROVE  FALSE
  <2>1. TokenMove(t1) /\ TokenMove(t2)
    BY DEF StoreMove, TokensMove
  <2>2. token[t1] # Null /\ token[t2] # Null
    BY <1>5, <2>1 DEF TokenMove
  <2>3. /\ token'[t1].user = token[t1].user /\ token'[t1].purpose = token[t1].purpose
        /\ token[t1].status = "active"
    BY <1>5, <2>1, <2>2 DEF TokenMove
  <2>4. /\ token'[t2].user = token[t2].user /\ token'[t2].purpose = token[t2].purpose
        /\ token[t2].status = "active"
    BY <1>5, <2>1, <2>2 DEF TokenMove
  <2> QED
    BY <1>5, <2>2, <2>3, <2>4 DEF StoreInv, OneTokenPerPurpose
<1> QED
  BY <1>1, <1>2, <1>3, <1>4, <1>5
  DEF StoreInv, SessionsMatchAccount, NoActiveAccountAtLimit, OneTokenPerPurpose

-----------------------------------------------------------------------------
(* Rows and tables *)

LEMMA ClearedRow ==
    ASSUME NEW r \in AccountRows
    PROVE  /\ Cleared(r) \in AccountRows
           /\ Cleared(r).failures = 0 /\ Cleared(r).status = r.status
           /\ Cleared(r).password = r.password /\ Cleared(r).salt = r.salt
           /\ Cleared(r).admin = r.admin
BY DEF AccountRows, Cleared

LEMMA StatusRow ==
    ASSUME NEW r \in AccountRows, NEW status \in Statuses
    PROVE  LET n == [r EXCEPT !.status = status] IN
           /\ n \in AccountRows /\ n.status = status /\ n.failures = r.failures
           /\ n.password = r.password /\ n.salt = r.salt /\ n.admin = r.admin
BY DEF AccountRows

\* A lock that is over ends; nothing else about the account changes.
LEMMA UnlockedRow ==
    ASSUME NEW r \in AccountRows
    PROVE  /\ Unlocked(r) \in AccountRows
           /\ Unlocked(r).password = r.password /\ Unlocked(r).salt = r.salt
           /\ Unlocked(r).admin = r.admin
           /\ r.status = "active" => Unlocked(r) = r
           /\ Unlocked(r).status = "active" => r.status = "active" \/ Unlocked(r).failures = 0
<1>1. CASE r.status = "locked" /\ r.lockOver
  <2> DEFINE n == [r EXCEPT !.status = "active"]
  <2>1. /\ n \in AccountRows /\ n.status = "active"
        /\ n.password = r.password /\ n.salt = r.salt /\ n.admin = r.admin
    BY StatusRow DEF Statuses
  <2>2. Unlocked(r) = Cleared(n)
    BY <1>1 DEF Unlocked
  <2> HIDE DEF n
  <2> QED
    BY <1>1, <2>1, <2>2, ClearedRow
<1>2. CASE ~(r.status = "locked" /\ r.lockOver)
  BY <1>2 DEF Unlocked
<1> QED
  BY <1>1, <1>2

LEMMA SessionsStay == StoreTypes /\ session' = session => SessionsMove
BY DEF StoreTypes, SessionsMove, SessionMove

LEMMA ChallengesStay == StoreTypes /\ challenge' = challenge => ChallengesMove
BY DEF StoreTypes, ChallengesMove, ChallengeMove

LEMMA TokensStay == StoreTypes /\ token' = token => TokensMove
BY DEF StoreTypes, TokensMove, TokenMove

LEMMA AccountsStay == StoreTypes /\ account' = account => AccountsMove /\ AdminsMove
<1> SUFFICES ASSUME StoreTypes, account' = account PROVE AccountsMove /\ AdminsMove
  OBVIOUS
<1>1. ActiveAdmins' = ActiveAdmins
  BY DEF ActiveAdmins, Active, Registered
<1> QED
  BY <1>1 DEF StoreTypes, AccountsMove, AccountMove, AdminsMove

\* One row of the accounts changes.
LEMMA RowMoves ==
    ASSUME StoreTypes, NEW u \in Users, account[u] # Null,
           NEW r \in AccountRows, account' = [account EXCEPT ![u] = r],
           r.status = "active" => r.failures < FailureLimit,
           \/ /\ r.password = account[u].password /\ r.salt = account[u].salt
              /\ account[u].status = "active" => r.status = "active"
           \/ SessionsEnd(u),
           r.salt \in {0, account[u].salt} \/ CheckedSalt(u)
    PROVE  AccountsMove
<1>1. account'[u] = r /\ \A v \in Users \ {u} : account'[v] = account[v]
  BY DEF StoreTypes, AccountTable
<1>2. account' \in AccountTable
  BY DEF StoreTypes, AccountTable
<1>3. AccountMove(u)
  BY <1>1, StoreAssumption DEF AccountMove, SameCredentials, Active, Registered
<1>4. \A v \in Users \ {u} : AccountMove(v)
  BY <1>1 DEF AccountMove
<1> QED
  BY <1>2, <1>3, <1>4 DEF AccountsMove

LEMMA AdminsStay ==
    ASSUME StoreTypes, NEW u \in Users, account[u] # Null,
           NEW r \in AccountRows, account' = [account EXCEPT ![u] = r],
           account[u].admin => r.admin,
           account[u].status = "active" => r.status \in {"active", "locked"}
    PROVE  AdminsMove
<1>1. account'[u] = r /\ \A v \in Users \ {u} : account'[v] = account[v]
  BY DEF StoreTypes, AccountTable
<1>2. ASSUME NEW v \in ActiveAdmins PROVE v \in ActiveAdmins' \/ account'[v].status = "locked"
  BY <1>1, <1>2, StoreAssumption DEF ActiveAdmins, Active, Registered
<1> QED
  BY <1>2 DEF AdminsMove

\* The guard of the administrative changes: u is not the last administrator.
LEMMA NotTheLast ==
    ASSUME StoreTypes, NEW u \in Users, account[u] # Null,
           ~(Active(u) /\ account[u].admin /\ Cardinality(ActiveAdmins) <= 1),
           NEW r, account' = [account EXCEPT ![u] = r]
    PROVE  AdminsMove
<1>1. \A v \in Users \ {u} : account'[v] = account[v]
  BY DEF StoreTypes, AccountTable
<1>2. CASE ActiveAdmins \subseteq {u}
  <2>1. ActiveAdmins = {} \/ ActiveAdmins = {u}
    BY <1>2
  <2>2. CASE ActiveAdmins = {u}
    <3>1. Cardinality(ActiveAdmins) = 1
      BY <2>2, FS_Singleton
    <3>2. Active(u) /\ account[u].admin
      BY <2>2 DEF ActiveAdmins
    <3> QED
      BY <3>1, <3>2
  <2>3. CASE ActiveAdmins = {}
    BY <2>3 DEF AdminsMove
  <2> QED
    BY <2>1, <2>2, <2>3
<1>3. ASSUME NEW v \in ActiveAdmins, v # u PROVE v \in ActiveAdmins'
  BY <1>1, <1>3 DEF ActiveAdmins, Active, Registered
<1> QED
  BY <1>2, <1>3 DEF AdminsMove

LEMMA SessionsRevoked ==
    ASSUME StoreTypes, NEW u \in Users, session' = RevokedSessions(u)
    PROVE  SessionsMove /\ SessionsEnd(u)
<1>1. ASSUME NEW s \in Sessions, session[s] # Null
      PROVE  /\ session'[s] \in SessionRows /\ session'[s] # Null
             /\ session'[s] = session[s] \/ session'[s] = [session[s] EXCEPT !.status = "revoked"]
             /\ session[s].user = u => session'[s].status # "active"
  <2>1. session[s] \in SessionRows
    BY <1>1, StoreRows
  <2>2. [session[s] EXCEPT !.status = "revoked"] \in SessionRows
    BY <2>1 DEF SessionRows
  <2>3. [session[s] EXCEPT !.status = "revoked"].status = "revoked"
    BY <2>1 DEF SessionRows
  <2> QED
    BY <1>1, <2>1, <2>2, <2>3, StoreAssumption DEF RevokedSessions
<1>2. ASSUME NEW s \in Sessions, session[s] = Null PROVE session'[s] = Null
  BY <1>2 DEF RevokedSessions
<1>3. session' \in SessionTable
  BY <1>1, <1>2 DEF SessionTable, RevokedSessions
<1>4. ASSUME NEW s \in Sessions PROVE SessionMove(s)
  <2>1. CASE session[s] = Null
    BY <1>2, <2>1 DEF SessionMove
  <2>2. CASE session[s] # Null
    <3>1. session[s] \in SessionRows /\ session[s].refresh \in Nat
      BY <2>2, StoreRows DEF SessionRows
    <3> DEFINE n == [session[s] EXCEPT !.status = "revoked"]
    <3>2. /\ n.status = "revoked" /\ n.user = session[s].user /\ n.password = session[s].password
          /\ n.salt = session[s].salt /\ n.challenge = session[s].challenge
          /\ n.late = session[s].late /\ n.refresh = session[s].refresh /\ n.held = session[s].held
      BY <3>1 DEF SessionRows
    <3>3. session'[s] = session[s] \/ session'[s] = n
      BY <1>1, <2>2
    <3> HIDE DEF n
    <3>4. CASE session'[s] = n
      <4>1. session'[s].refresh >= session[s].refresh
        BY <3>1, <3>2, <3>4
      <4>2. session'[s].held => session[s].held
        BY <3>2, <3>4
      <4> QED
        BY <1>1, <2>2, <3>2, <3>4, <4>1, <4>2 DEF SessionMove
    <3> QED
      BY <3>3, <3>4 DEF SessionMove
  <2> QED
    BY <2>1, <2>2
<1> QED
  BY <1>1, <1>3, <1>4 DEF SessionsMove, SessionsEnd, SessionActive

LEMMA ChallengesRevoked ==
    ASSUME StoreTypes, NEW u \in Users, challenge' = RevokedChallenges(u)
    PROVE  ChallengesMove
<1>1. ASSUME NEW c \in Challenges
      PROVE  challenge'[c] \in ChallengeRows \cup {Null} /\ ChallengeMove(c)
  <2>1. CASE challenge[c] = Null
    BY <2>1 DEF RevokedChallenges, ChallengeMove
  <2>2. CASE challenge[c] # Null
    <3>1. challenge[c] \in ChallengeRows
      BY <2>2, StoreRows
    <3> DEFINE n == [challenge[c] EXCEPT !.status = "revoked"]
    <3>2. /\ n \in ChallengeRows /\ n.status = "revoked"
          /\ n.user = challenge[c].user /\ n.password = challenge[c].password
      BY <3>1 DEF ChallengeRows
    <3>3. challenge'[c] = challenge[c] \/ (challenge'[c] = n /\ challenge[c].status = "active")
      BY DEF RevokedChallenges
    <3> HIDE DEF n
    <3> QED
      BY <2>2, <3>1, <3>2, <3>3, StoreAssumption DEF ChallengeMove
  <2> QED
    BY <2>1, <2>2
<1> QED
  BY <1>1 DEF ChallengesMove, ChallengeTable, RevokedChallenges

-----------------------------------------------------------------------------
(* The transactions move rows along the edges *)

\* An account keeps its credentials, its role and, if active, its status.
LEMMA MildChange ==
    ASSUME StoreInv, NEW u \in Users, account[u] # Null,
           NEW r \in AccountRows, account' = [account EXCEPT ![u] = r],
           r.status = "active" => account[u].status = "active" \/ r.failures = 0,
           r.failures \in {0, account[u].failures},
           r.password = account[u].password, r.salt = account[u].salt,
           account[u].admin => r.admin,
           account[u].status = "active" => r.status = "active",
           SessionsMove, ChallengesMove, TokensMove
    PROVE  StoreMove
<1>1. r.status = "active" => r.failures < FailureLimit
  BY StoreAssumption DEF StoreInv, NoActiveAccountAtLimit, Active, Registered
<1>2. AccountsMove
  BY <1>1, RowMoves DEF StoreInv
<1>3. AdminsMove
  BY AdminsStay DEF StoreInv
<1> QED
  BY <1>2, <1>3 DEF StoreMove

LEMMA StillTables ==
    ASSUME StoreInv
    PROVE  /\ session' = session => SessionsMove
           /\ challenge' = challenge => ChallengesMove
           /\ token' = token => TokensMove
           /\ account' = account => AccountsMove /\ AdminsMove
BY SessionsStay, ChallengesStay, TokensStay, AccountsStay DEF StoreInv

LEMMA ReadUserMoves ==
    ASSUME StoreInv, NEW u \in Users, ReadUser(u)
    PROVE  StoreMove
<1>1. account[u] \in AccountRows /\ account[u] # Null
  BY StoreRows DEF ReadUser, StoreInv, Registered
<1> DEFINE r == Unlocked(account[u])
<1>2. /\ r \in AccountRows /\ account' = [account EXCEPT ![u] = r]
      /\ r.password = account[u].password /\ r.salt = account[u].salt
      /\ r.admin = account[u].admin
      /\ account[u].status = "active" => r.status = "active"
      /\ r.status = "active" => account[u].status = "active" \/ r.failures = 0
  BY <1>1, UnlockedRow DEF ReadUser
<1>3. r.failures \in {0, account[u].failures}
  <2>1. [account[u] EXCEPT !.status = "active"] \in AccountRows
    BY <1>1, StatusRow DEF Statuses
  <2> QED
    BY <2>1, ClearedRow DEF Unlocked
<1> HIDE DEF r
<1>4. SessionsMove /\ ChallengesMove /\ TokensMove
  BY StillTables DEF ReadUser
<1> QED
  BY <1>1, <1>2, <1>3, <1>4, MildChange

LEMMA CreateUserMoves ==
    ASSUME StoreInv, NEW u \in Users, NEW p \in Passwords, CreateUser(u, p)
    PROVE  StoreMove
<1> DEFINE r == NewAccount(p, FALSE)
<1>1. r \in AccountRows /\ r.failures = 0
  BY DEF NewAccount, AccountRows, Statuses
<1>2. account' = [account EXCEPT ![u] = r] /\ account[u] = Null
  BY DEF CreateUser
<1> HIDE DEF r
<1>3. account'[u] = r /\ \A v \in Users \ {u} : account'[v] = account[v]
  BY <1>2 DEF StoreInv, StoreTypes, AccountTable
<1>4. AccountsMove
  BY <1>1, <1>2, <1>3, StoreAssumption DEF AccountsMove, AccountMove, StoreInv, StoreTypes, AccountTable
<1>5. ActiveAdmins \subseteq ActiveAdmins'
  BY <1>2, <1>3 DEF ActiveAdmins, Active, Registered
<1> QED
  BY <1>4, <1>5, StillTables DEF StoreMove, AdminsMove, CreateUser

LEMMA RecordLoginSuccessMoves ==
    ASSUME StoreInv, NEW u \in Users, RecordLoginSuccess(u)
    PROVE  StoreMove
<1>1. account[u] \in AccountRows /\ account[u] # Null
  BY StoreRows DEF RecordLoginSuccess, StoreInv, Active, Registered
<1> DEFINE r == Cleared(account[u])
<1>2. /\ r \in AccountRows /\ r.failures = 0 /\ r.status = account[u].status
      /\ r.password = account[u].password /\ r.salt = account[u].salt
      /\ r.admin = account[u].admin
  BY <1>1, ClearedRow
<1>3. account' = [account EXCEPT ![u] = r]
  BY DEF RecordLoginSuccess
<1> HIDE DEF r
<1>4. SessionsMove /\ ChallengesMove /\ TokensMove
  BY StillTables DEF RecordLoginSuccess
<1> QED
  BY <1>1, <1>2, <1>3, <1>4, MildChange

LEMMA RecordLoginFailureMoves ==
    ASSUME StoreInv, NEW u \in Users, account[u] # Null, RecordLoginFailure(u)
    PROVE  StoreMove
<1>1. account[u] \in AccountRows
  BY StoreRows DEF StoreInv
<1> DEFINE row == Unlocked(account[u])
           count == FailuresAfter(row)
           locks == row.status = "active" /\ count >= FailureLimit
           r == IF row.status # "active" THEN row
                ELSE [row EXCEPT !.status = IF locks THEN "locked" ELSE "active",
                                 !.failures = count, !.window = "open"]
<1>2. /\ row \in AccountRows
      /\ row.password = account[u].password /\ row.salt = account[u].salt
      /\ row.admin = account[u].admin
      /\ account[u].status = "active" => row.status = "active"
  BY <1>1, UnlockedRow
<1>3. account' = [account EXCEPT ![u] = r] /\ UNCHANGED <<challenge, token>>
      /\ session' = IF locks THEN RevokedSessions(u) ELSE session
  BY DEF RecordLoginFailure
<1> HIDE DEF row
<1>4. count \in Nat
  BY <1>2 DEF FailuresAfter, AccountRows
<1> HIDE DEF count
<1>5. /\ r \in AccountRows
      /\ r.password = row.password /\ r.salt = row.salt /\ r.admin = row.admin
      /\ r.status = "active" => r.failures < FailureLimit
      /\ row.status = "active" => r.status \in {"active", "locked"}
      /\ ~locks /\ row.status = "active" => r.status = "active"
  <2>1. CASE row.status # "active"
    BY <1>2, <2>1
  <2>2. CASE row.status = "active"
    <3> DEFINE n == [row EXCEPT !.status = IF locks THEN "locked" ELSE "active",
                                !.failures = count, !.window = "open"]
    <3>1. (IF locks THEN "locked" ELSE "active") \in Statuses
      BY DEF Statuses
    <3>2. /\ n \in AccountRows /\ n.failures = count
          /\ n.status = IF locks THEN "locked" ELSE "active"
          /\ n.password = row.password /\ n.salt = row.salt /\ n.admin = row.admin
      BY <1>2, <1>4, <3>1 DEF AccountRows
    <3>3. r = n
      BY <2>2
    <3> HIDE DEF n, r
    <3> QED
      BY <1>4, <2>2, <3>2, <3>3, StoreAssumption
  <2> QED
    BY <2>1, <2>2
<1>6. SessionsMove /\ (locks => SessionsEnd(u))
  BY <1>3, SessionsRevoked, SessionsStay DEF StoreInv
<1>7. AccountsMove
  <2>1. account[u].status = "active" /\ ~locks => r.status = "active"
    BY <1>2, <1>5
  <2>2. r.password = account[u].password /\ r.salt = account[u].salt
    BY <1>2, <1>5
  <2> HIDE DEF r, locks
  <2> QED
    BY <1>3, <1>5, <1>6, <2>1, <2>2, RowMoves DEF StoreInv
<1>8. AdminsMove
  <2>1. r.admin = account[u].admin
    BY <1>2, <1>5
  <2>2. account[u].status = "active" => r.status \in {"active", "locked"}
    BY <1>2, <1>5
  <2> HIDE DEF r, locks
  <2> QED
    BY <1>3, <1>5, <2>1, <2>2, AdminsStay DEF StoreInv
<1> QED
  BY <1>3, <1>6, <1>7, <1>8, StillTables DEF StoreMove

LEMMA ChangePasswordMoves ==
    ASSUME StoreInv, NEW u \in Users, NEW current \in Passwords, NEW new \in Passwords,
           ChangePassword(u, current, new)
    PROVE  StoreMove
<1>1. account[u] \in AccountRows /\ account[u] # Null
  BY StoreRows DEF ChangePassword, StoreInv, Active, Registered
<1> DEFINE r == [account[u] EXCEPT !.password = new]
<1>2. /\ r \in AccountRows /\ r.status = account[u].status /\ r.admin = account[u].admin
      /\ r.salt = account[u].salt /\ r.failures = account[u].failures
  BY <1>1 DEF AccountRows
<1>3. account' = [account EXCEPT ![u] = r]
  BY DEF ChangePassword
<1> HIDE DEF r
<1>4. SessionsMove /\ SessionsEnd(u)
  BY SessionsRevoked DEF ChangePassword, StoreInv
<1>5. AccountsMove
  <2>1. r.status = "active" => r.failures < FailureLimit
    BY <1>1, <1>2 DEF StoreInv, NoActiveAccountAtLimit, Active, Registered
  <2> QED
    BY <1>1, <1>2, <1>3, <1>4, <2>1, RowMoves DEF StoreInv
<1>6. AdminsMove
  BY <1>1, <1>2, <1>3, AdminsStay DEF StoreInv
<1> QED
  BY <1>4, <1>5, <1>6, StillTables DEF StoreMove, ChangePassword

LEMMA AssignAdminRoleMoves ==
    ASSUME StoreInv, NEW u \in Users, AssignAdminRole(u)
    PROVE  StoreMove
<1>1. account[u] \in AccountRows /\ account[u] # Null
  BY StoreRows DEF AssignAdminRole, StoreInv, Registered
<1> DEFINE r == [account[u] EXCEPT !.admin = TRUE]
<1>2. /\ r \in AccountRows /\ r.status = account[u].status /\ r.admin
      /\ r.salt = account[u].salt /\ r.failures = account[u].failures
      /\ r.password = account[u].password
  BY <1>1 DEF AccountRows
<1>3. account' = [account EXCEPT ![u] = r]
  BY DEF AssignAdminRole
<1> HIDE DEF r
<1> QED
  <2>1. SessionsMove /\ ChallengesMove /\ TokensMove
    BY StillTables DEF AssignAdminRole
  <2>2. account[u].admin => r.admin
    BY <1>2
  <2>3. /\ r.failures \in {0, account[u].failures}
        /\ r.status = "active" => account[u].status = "active" \/ r.failures = 0
        /\ account[u].status = "active" => r.status = "active"
    BY <1>2
  <2> QED
    BY <1>1, <1>2, <1>3, <2>1, <2>2, <2>3, MildChange

LEMMA RemoveAdminRoleMoves ==
    ASSUME StoreInv, NEW actor, NEW u \in Users, RemoveAdminRole(actor, u)
    PROVE  StoreMove
<1>1. account[u] \in AccountRows /\ account[u] # Null
  BY StoreRows DEF RemoveAdminRole, StoreInv, Registered
<1> DEFINE r == [account[u] EXCEPT !.admin = FALSE]
<1>2. /\ r \in AccountRows /\ r.status = account[u].status
      /\ r.salt = account[u].salt /\ r.failures = account[u].failures
      /\ r.password = account[u].password
  BY <1>1 DEF AccountRows
<1>3. account' = [account EXCEPT ![u] = r]
  BY DEF RemoveAdminRole
<1> HIDE DEF r
<1>4. AccountsMove
  <2>1. r.status = "active" => r.failures < FailureLimit
    BY <1>1, <1>2 DEF StoreInv, NoActiveAccountAtLimit, Active, Registered
  <2> QED
    BY <1>1, <1>2, <1>3, <2>1, RowMoves DEF StoreInv
<1>5. AdminsMove
  BY <1>1, <1>3, NotTheLast DEF StoreInv, RemoveAdminRole
<1> QED
  BY <1>4, <1>5, StillTables DEF StoreMove, RemoveAdminRole

LEMMA SetUserStatusMoves ==
    ASSUME StoreInv, NEW actor, NEW u \in Users, NEW status \in {"active", "disabled"}, NEW allowed,
           SetUserStatusByAdministrator(actor, u, status, allowed)
    PROVE  StoreMove
<1>1. account[u] \in AccountRows /\ account[u] # Null
  BY StoreRows DEF SetUserStatusByAdministrator, StoreInv, Registered
<1> DEFINE n == [account[u] EXCEPT !.status = status]
           r == Cleared(n)
<1>2. /\ n \in AccountRows /\ n.status = status /\ n.admin = account[u].admin
      /\ n.salt = account[u].salt /\ n.password = account[u].password
  <2>1. status \in Statuses
    BY DEF Statuses
  <2> QED
    BY <1>1, <2>1, StatusRow
<1>3. account' = [account EXCEPT ![u] = r]
  BY DEF SetUserStatusByAdministrator
<1> HIDE DEF n
<1>4. /\ r \in AccountRows /\ r.status = status /\ r.admin = account[u].admin /\ r.failures = 0
      /\ r.salt = account[u].salt /\ r.password = account[u].password
  BY <1>2, ClearedRow
<1> HIDE DEF r
<1>5. SessionsMove /\ (status # "active" => SessionsEnd(u))
  BY SessionsRevoked, SessionsStay DEF SetUserStatusByAdministrator, StoreInv
<1>6. AccountsMove
  <2>1. r.failures < FailureLimit
    BY <1>4, StoreAssumption
  <2>2. StoreTypes
    BY DEF StoreInv
  <2>3. CASE status = "active"
    BY <1>1, <1>3, <1>4, <2>1, <2>2, <2>3, RowMoves
  <2>4. CASE status # "active"
    BY <1>1, <1>3, <1>4, <1>5, <2>1, <2>2, <2>4, RowMoves
  <2> QED
    BY <2>3, <2>4
<1>7. AdminsMove
  <2>1. CASE status = "active"
    BY <1>1, <1>3, <1>4, <2>1, AdminsStay DEF StoreInv
  <2>2. CASE status # "active"
    BY <1>1, <1>3, <2>2, NotTheLast DEF StoreInv, SetUserStatusByAdministrator
  <2> QED
    BY <2>1, <2>2
<1> QED
  BY <1>5, <1>6, <1>7, StillTables DEF StoreMove, SetUserStatusByAdministrator

LEMMA StartTwoFactorSetupMoves ==
    ASSUME StoreInv, NEW u \in Users, StartTwoFactorSetup(u)
    PROVE  StoreMove
<1>1. account[u] \in AccountRows /\ account[u] # Null
  BY StoreRows DEF StartTwoFactorSetup, StoreInv, Active, Registered
<1> DEFINE r == [account[u] EXCEPT !.pending = account[u].salts + 1, !.salts = @ + 1]
<1>2. /\ r \in AccountRows /\ r.status = account[u].status /\ r.admin = account[u].admin
      /\ r.salt = account[u].salt /\ r.failures = account[u].failures
      /\ r.password = account[u].password
  <2>1. account[u].salts + 1 \in Nat
    BY <1>1 DEF AccountRows
  <2> QED
    BY <1>1, <2>1 DEF AccountRows
<1>3. account' = [account EXCEPT ![u] = r]
  BY DEF StartTwoFactorSetup
<1> HIDE DEF r
<1> QED
  <2>1. SessionsMove /\ ChallengesMove /\ TokensMove
    BY StillTables DEF StartTwoFactorSetup
  <2> QED
    BY <1>1, <1>2, <1>3, <2>1, MildChange

LEMMA NewCodesRow ==
    ASSUME NEW r \in AccountRows
    PROVE  /\ NewCodes(r) \in AccountRows
           /\ NewCodes(r).status = r.status /\ NewCodes(r).admin = r.admin
           /\ NewCodes(r).salt = r.salt /\ NewCodes(r).failures = r.failures
           /\ NewCodes(r).password = r.password
<1>1. r.issued \in Nat /\ RecoveryCodeCount \in Nat
  BY StoreAssumption DEF AccountRows
<1>2. (r.issued + 1 .. r.issued + RecoveryCodeCount) \subseteq Nat
  BY <1>1
<1>3. r.issued + RecoveryCodeCount \in Nat
  BY <1>1
<1> QED
  BY <1>2, <1>3 DEF NewCodes, AccountRows

LEMMA EnableTwoFactorMoves ==
    ASSUME StoreInv, NEW u \in Users, NEW pending \in Nat, NEW counter \in Nat,
           EnableTwoFactor(u, pending, counter),
           \E h \in Handlers : At(h, "enable") /\ User(h) = u /\ call[h].salt = pending
    PROVE  StoreMove
<1>1. account[u] \in AccountRows /\ account[u] # Null
  BY StoreRows DEF EnableTwoFactor, StoreInv, Active, Registered
<1> DEFINE n == [account[u] EXCEPT !.salt = pending, !.pending = 0, !.counter = counter]
           r == NewCodes(n)
<1>2. /\ n \in AccountRows /\ n.status = account[u].status /\ n.admin = account[u].admin
      /\ n.salt = pending /\ n.failures = account[u].failures
  BY <1>1 DEF AccountRows
<1>3. account' = [account EXCEPT ![u] = r]
  BY DEF EnableTwoFactor
<1> HIDE DEF n
<1>4. /\ r \in AccountRows /\ r.status = account[u].status /\ r.admin = account[u].admin
      /\ r.salt = pending /\ r.failures = account[u].failures
  BY <1>2, NewCodesRow
<1> HIDE DEF r
<1>5. SessionsMove /\ SessionsEnd(u) /\ ChallengesMove
  BY SessionsRevoked, ChallengesRevoked DEF EnableTwoFactor, StoreInv
<1>6. account'[u] = r
  BY <1>3 DEF StoreInv, StoreTypes, AccountTable
<1>7. CheckedSalt(u)
  BY <1>4, <1>6 DEF CheckedSalt
<1>8. AccountsMove
  <2>1. r.status = "active" => r.failures < FailureLimit
    BY <1>1, <1>4 DEF StoreInv, NoActiveAccountAtLimit, Active, Registered
  <2> QED
    BY <1>1, <1>3, <1>4, <1>5, <1>7, <2>1, RowMoves DEF StoreInv
<1>9. AdminsMove
  BY <1>1, <1>3, <1>4, AdminsStay DEF StoreInv
<1> QED
  BY <1>5, <1>8, <1>9, StillTables DEF StoreMove, EnableTwoFactor

LEMMA DisableTwoFactorMoves ==
    ASSUME StoreInv, NEW u \in Users, DisableTwoFactor(u)
    PROVE  StoreMove
<1>1. account[u] \in AccountRows /\ account[u] # Null
  BY StoreRows DEF DisableTwoFactor, StoreInv, Active, Registered
<1> DEFINE r == [account[u] EXCEPT !.salt = 0, !.pending = 0, !.counter = 0, !.codes = {}]
<1>2. /\ r \in AccountRows /\ r.status = account[u].status /\ r.admin = account[u].admin
      /\ r.salt = 0 /\ r.failures = account[u].failures
  BY <1>1 DEF AccountRows
<1>3. account' = [account EXCEPT ![u] = r]
  BY DEF DisableTwoFactor
<1> HIDE DEF r
<1>4. SessionsMove /\ SessionsEnd(u) /\ ChallengesMove
  BY SessionsRevoked, ChallengesRevoked DEF DisableTwoFactor, StoreInv
<1>5. AccountsMove
  <2>1. r.status = "active" => r.failures < FailureLimit
    BY <1>1, <1>2 DEF StoreInv, NoActiveAccountAtLimit, Active, Registered
  <2> QED
    BY <1>1, <1>2, <1>3, <1>4, <2>1, RowMoves DEF StoreInv
<1>6. AdminsMove
  BY <1>1, <1>2, <1>3, AdminsStay DEF StoreInv
<1> QED
  BY <1>4, <1>5, <1>6, StillTables DEF StoreMove, DisableTwoFactor

LEMMA ReplaceRecoveryCodesMoves ==
    ASSUME StoreInv, NEW u \in Users, ReplaceRecoveryCodes(u)
    PROVE  StoreMove
<1>1. account[u] \in AccountRows /\ account[u] # Null
  BY StoreRows DEF ReplaceRecoveryCodes, StoreInv, Active, Registered
<1> DEFINE r == NewCodes(account[u])
<1>2. account' = [account EXCEPT ![u] = r]
  BY DEF ReplaceRecoveryCodes
<1>3. SessionsMove /\ ChallengesMove /\ TokensMove
  BY SessionsRevoked, StillTables DEF ReplaceRecoveryCodes, StoreInv
<1>4. /\ r \in AccountRows /\ r.status = account[u].status /\ r.admin = account[u].admin
      /\ r.salt = account[u].salt /\ r.failures = account[u].failures
      /\ r.password = account[u].password
  BY <1>1, NewCodesRow
<1> HIDE DEF r
<1>9. /\ r.failures \in {0, account[u].failures}
      /\ r.status = "active" => account[u].status = "active" \/ r.failures = 0
      /\ account[u].status = "active" => r.status = "active"
      /\ account[u].admin => r.admin
  BY <1>4
<1> QED
  BY <1>1, <1>2, <1>3, <1>4, <1>9, MildChange

LEMMA InsertChallengeMoves ==
    ASSUME StoreInv, NEW u \in Users, account[u] # Null, NEW c \in Challenges,
           NEW password \in Passwords, InsertChallenge(c, u, password)
    PROVE  StoreMove
<1>1. account[u] \in AccountRows
  BY StoreRows DEF StoreInv
<1> DEFINE n == [user |-> u, status |-> "active", password |-> password]
           r == IF Active(u) THEN Cleared(account[u]) ELSE account[u]
<1>2. n \in ChallengeRows /\ n.user = u /\ n.status = "active"
  BY DEF ChallengeRows
<1>3. challenge' = [challenge EXCEPT ![c] = n] /\ challenge[c] = Null
  BY DEF InsertChallenge
<1> HIDE DEF n
<1>4. ChallengesMove
  <2>1. challenge'[c] = n /\ \A x \in Challenges \ {c} : challenge'[x] = challenge[x]
    BY <1>3 DEF StoreInv, StoreTypes, ChallengeTable
  <2>2. challenge' \in ChallengeTable
    BY <1>2, <1>3 DEF StoreInv, StoreTypes, ChallengeTable
  <2>3. ChallengeMove(c)
    BY <1>2, <1>3, <2>1, StoreAssumption DEF ChallengeMove, Registered
  <2>4. \A x \in Challenges \ {c} : ChallengeMove(x)
    BY <2>1 DEF ChallengeMove
  <2> QED
    BY <2>2, <2>3, <2>4 DEF ChallengesMove
<1>5. /\ r \in AccountRows /\ r.status = account[u].status /\ r.admin = account[u].admin
      /\ r.salt = account[u].salt /\ r.password = account[u].password
      /\ r.failures \in {0, account[u].failures}
      /\ r.status = "active" => account[u].status = "active"
  BY <1>1, ClearedRow
<1>6. account' = [account EXCEPT ![u] = r]
  BY DEF InsertChallenge
<1> HIDE DEF r
<1>7. SessionsMove /\ TokensMove
  BY StillTables DEF InsertChallenge
<1>9. /\ r.failures \in {0, account[u].failures}
      /\ r.status = "active" => account[u].status = "active" \/ r.failures = 0
      /\ account[u].status = "active" => r.status = "active"
      /\ account[u].admin => r.admin
  BY <1>5
<1> QED
  BY <1>4, <1>5, <1>6, <1>7, <1>9, MildChange

\* The time step a proof was made in, or the number of a recovery code.
LEMMA SpentRow ==
    ASSUME NEW r \in AccountRows, NEW proof, proof.n \in Nat
    PROVE  /\ Spent(r, proof) \in AccountRows
           /\ Spent(r, proof).status = r.status /\ Spent(r, proof).admin = r.admin
           /\ Spent(r, proof).salt = r.salt /\ Spent(r, proof).failures = r.failures
           /\ Spent(r, proof).password = r.password
           /\ proof.kind = "totp" => Spent(r, proof).counter = proof.n
           /\ proof.kind # "totp" => Spent(r, proof).codes = r.codes \ {proof.n}
<1>1. r.codes \ {proof.n} \in SUBSET Nat
  BY DEF AccountRows
<1>2. CASE proof.kind = "totp"
  BY <1>2 DEF Spent, AccountRows
<1>3. CASE proof.kind # "totp"
  BY <1>1, <1>3 DEF Spent, AccountRows
<1> QED
  BY <1>2, <1>3

LEMMA ConsumeTwoFactorProofMoves ==
    ASSUME StoreInv, NEW u \in Users, NEW proof, proof.n \in Nat,
           ConsumeTwoFactorProof(u, proof)
    PROVE  StoreMove
<1>1. account[u] \in AccountRows /\ account[u] # Null
  BY StoreRows DEF ConsumeTwoFactorProof, StoreInv, Active, Registered
<1> DEFINE r == Spent(account[u], proof)
<1>2. account' = [account EXCEPT ![u] = r]
  BY DEF ConsumeTwoFactorProof
<1>3. /\ r \in AccountRows /\ r.status = account[u].status /\ r.admin = account[u].admin
      /\ r.salt = account[u].salt /\ r.failures = account[u].failures
      /\ r.password = account[u].password
  BY <1>1, SpentRow
<1>4. SessionsMove /\ ChallengesMove /\ TokensMove
  BY StillTables DEF ConsumeTwoFactorProof
<1> HIDE DEF r
<1>9. /\ r.failures \in {0, account[u].failures}
      /\ r.status = "active" => account[u].status = "active" \/ r.failures = 0
      /\ account[u].status = "active" => r.status = "active"
      /\ account[u].admin => r.admin
  BY <1>3
<1> QED
  BY <1>1, <1>2, <1>3, <1>4, <1>9, MildChange

LEMMA CompleteTwoFactorChallengeMoves ==
    ASSUME StoreInv, NEW c \in Challenges, challenge[c] # Null, NEW proof, proof.n \in Nat,
           CompleteTwoFactorChallenge(c, proof)
    PROVE  StoreMove
<1>0. PICK u \in Users : u = challenge[c].user
  BY StoreRows DEF StoreInv
<1>1. account[u] \in AccountRows /\ account[u] # Null /\ ProofIsGood(u, proof)
  BY <1>0, StoreRows DEF CompleteTwoFactorChallenge, StoreInv, Active, Registered
<1> DEFINE r == Spent(account[u], proof)
           n == [challenge[c] EXCEPT !.status = "consumed"]
<1>2. /\ account' = [account EXCEPT ![u] = r]
      /\ challenge' = [challenge EXCEPT ![c] = n]
      /\ challenge[c].status = "active"
      /\ UNCHANGED <<session, token>>
  BY <1>0 DEF CompleteTwoFactorChallenge
<1>3. /\ r \in AccountRows
      /\ r.status = account[u].status /\ r.admin = account[u].admin
      /\ r.salt = account[u].salt /\ r.failures = account[u].failures
      /\ r.password = account[u].password
      /\ proof.kind = "totp" => r.counter = proof.n
      /\ proof.kind # "totp" => r.codes = account[u].codes \ {proof.n}
  BY <1>1, SpentRow
<1>4. n \in ChallengeRows /\ n.user = u /\ n.password = challenge[c].password
  <2>1. challenge[c] \in ChallengeRows
    BY StoreRows DEF StoreInv
  <2> QED
    BY <1>0, <2>1 DEF ChallengeRows
<1> HIDE DEF r, n
<1>5. account'[u] = r
  BY <1>2 DEF StoreInv, StoreTypes, AccountTable
<1>6. Spends(u)
  <2>1. CASE proof.kind = "totp"
    <3>1. proof.n > account[u].counter
      BY <1>1, <2>1 DEF ProofIsGood
    <3> QED
      BY <1>3, <1>5, <2>1, <3>1 DEF Spends
  <2>2. CASE proof.kind # "totp"
    <3>1. proof.n \in account[u].codes
      BY <1>1, <2>2 DEF ProofIsGood
    <3> QED
      BY <1>3, <1>5, <2>2, <3>1 DEF Spends
  <2> QED
    BY <2>1, <2>2
<1>7. ChallengesMove
  <2>1. challenge'[c] = n /\ \A x \in Challenges \ {c} : challenge'[x] = challenge[x]
    BY <1>2 DEF StoreInv, StoreTypes, ChallengeTable
  <2>2. challenge' \in ChallengeTable
    BY <1>2, <1>4 DEF StoreInv, StoreTypes, ChallengeTable
  <2>3. Spends(challenge[c].user)
    BY <1>0, <1>6 DEF Spends
  <2>4. ChallengeMove(c)
    BY <1>0, <1>2, <1>4, <2>1, <2>3, StoreAssumption DEF ChallengeMove
  <2>5. \A x \in Challenges \ {c} : ChallengeMove(x)
    BY <2>1 DEF ChallengeMove
  <2> QED
    BY <2>2, <2>4, <2>5 DEF ChallengesMove
<1>8. SessionsMove /\ TokensMove
  BY <1>2, StillTables
<1> QED
  BY <1>1, <1>2, <1>3, <1>7, <1>8, MildChange

\* One session changes, and is not revived.
LEMMA OneSessionMoves ==
    ASSUME StoreInv, NEW s \in Sessions, session[s] # Null, NEW n \in SessionRows,
           session' = [session EXCEPT ![s] = n],
           n.user = session[s].user, n.password = session[s].password,
           n.salt = session[s].salt, n.challenge = session[s].challenge,
           n.late = session[s].late, n.refresh >= session[s].refresh,
           n.status = "active" => session[s].status = "active",
           \/ n.held => session[s].held
           \/ \E h \in Handlers : At(h, "reply") /\ call[h].session = s
    PROVE  SessionsMove
<1>1. session'[s] = n /\ \A x \in Sessions \ {s} : session'[x] = session[x]
  BY DEF StoreInv, StoreTypes, SessionTable
<1>2. session' \in SessionTable
  BY DEF StoreInv, StoreTypes, SessionTable
<1>3. n # Null
  BY StoreAssumption
<1>4. SessionMove(s)
  BY <1>1, <1>3 DEF SessionMove
<1>5. \A x \in Sessions \ {s} : SessionMove(x)
  BY <1>1 DEF SessionMove
<1> QED
  BY <1>2, <1>4, <1>5 DEF SessionsMove

LEMMA OtherTables ==
    ASSUME StoreInv, SessionsMove, UNCHANGED <<account, challenge, token>>
    PROVE  StoreMove
BY StillTables DEF StoreMove

LEMMA InsertSessionMoves ==
    ASSUME StoreInv, NEW s \in Sessions, NEW u \in Users, account[u] # Null,
           NEW p \in Passwords, NEW salt \in Nat, NEW c \in Challenges \cup {Null},
           InsertSession(s, u, p, salt, c),
           \E h \in Handlers : At(h, "insert") /\ At(h, "record")'
    PROVE  /\ StoreMove
           /\ session[s] = Null /\ session'[s] # Null
           /\ session'[s].user = u /\ session'[s].challenge = c
           /\ \A x \in Sessions \ {s} : session'[x] = session[x]
<1> DEFINE late == <<p, salt>> # <<account[u].password, account[u].salt>>
           n == [user |-> u, status |-> "active", refresh |-> 0, held |-> FALSE,
                 password |-> p, salt |-> salt, challenge |-> c, late |-> late]
<1>1. late \in BOOLEAN /\ (~late => p = account[u].password /\ salt = account[u].salt)
  OBVIOUS
<1>2. session[s] = Null /\ session' = [session EXCEPT ![s] = n] /\ UNCHANGED <<account, challenge, token>>
  BY DEF InsertSession
<1> HIDE DEF late
<1>3. /\ n \in SessionRows /\ n.user = u /\ n.status = "active" /\ n.refresh = 0 /\ n.held = FALSE
      /\ n.password = p /\ n.salt = salt /\ n.challenge = c /\ n.late = late
  BY <1>1 DEF SessionRows
<1> HIDE DEF n
<1>4. session'[s] = n /\ \A x \in Sessions \ {s} : session'[x] = session[x]
  BY <1>2 DEF StoreInv, StoreTypes, SessionTable
<1>5. session' \in SessionTable
  BY <1>2, <1>3 DEF StoreInv, StoreTypes, SessionTable
<1>6. Fresh(s, n)
  BY <1>1, <1>3 DEF Fresh, Registered
<1>7. n # Null
  BY <1>3, StoreAssumption
<1>8. SessionMove(s)
  BY <1>2, <1>4, <1>6, <1>7 DEF SessionMove
<1>9. \A x \in Sessions \ {s} : SessionMove(x)
  BY <1>4 DEF SessionMove
<1>10. SessionsMove
  BY <1>5, <1>8, <1>9 DEF SessionsMove
<1> QED
  BY <1>2, <1>3, <1>4, <1>7, <1>10, OtherTables

LEMMA RotateRefreshTokenMoves ==
    ASSUME StoreInv, NEW s \in Sessions, NEW current, RotateRefreshToken(s, current)
    PROVE  StoreMove /\ session'[s].refresh = current + 1 /\ current \in Nat
           /\ \A x \in Sessions \ {s} : session'[x] = session[x]
<1>1. session[s] # Null /\ session[s] \in SessionRows /\ session[s].refresh = current
  BY StoreRows DEF RotateRefreshToken, SessionActive, StoreInv
<1> DEFINE n == [session[s] EXCEPT !.refresh = @ + 1]
<1>2. current \in Nat
  BY <1>1 DEF SessionRows
<1>3. /\ n \in SessionRows /\ n.refresh = current + 1
      /\ n.user = session[s].user /\ n.password = session[s].password
      /\ n.salt = session[s].salt /\ n.challenge = session[s].challenge
      /\ n.late = session[s].late /\ n.status = session[s].status
      /\ n.held = session[s].held
  BY <1>1, <1>2 DEF SessionRows
<1>4. session' = [session EXCEPT ![s] = n] /\ UNCHANGED <<account, challenge, token>>
  BY DEF RotateRefreshToken
<1> HIDE DEF n
<1>5. n.refresh >= session[s].refresh
  BY <1>1, <1>2, <1>3
<1>6. SessionsMove
  BY <1>1, <1>3, <1>4, <1>5, OneSessionMoves
<1>7. session'[s] = n /\ \A x \in Sessions \ {s} : session'[x] = session[x]
  BY <1>4 DEF StoreInv, StoreTypes, SessionTable
<1> QED
  BY <1>2, <1>3, <1>4, <1>6, <1>7, OtherTables

\* A session ends.
LEMMA SessionEnds ==
    ASSUME StoreInv, NEW s \in Sessions, session[s] # Null,
           NEW status \in {"active", "revoked", "expired"}, status = "active" => session[s].status = "active",
           session' = [session EXCEPT ![s].status = status]
    PROVE  SessionsMove
<1>1. session[s] \in SessionRows
  BY StoreRows DEF StoreInv
<1> DEFINE n == [session[s] EXCEPT !.status = status]
<1>2. /\ n \in SessionRows /\ n.refresh = session[s].refresh
      /\ n.user = session[s].user /\ n.password = session[s].password
      /\ n.salt = session[s].salt /\ n.challenge = session[s].challenge
      /\ n.late = session[s].late /\ n.status = status
      /\ n.held = session[s].held /\ session[s].refresh \in Nat
  BY <1>1 DEF SessionRows
<1>3. session' = [session EXCEPT ![s] = n]
  OBVIOUS
<1> HIDE DEF n
<1>4. /\ n.refresh >= session[s].refresh
      /\ n.held => session[s].held
      /\ n.status = "active" => session[s].status = "active"
  BY <1>2
<1> HIDE DEF StoreInv
<1> QED
  BY <1>2, <1>3, <1>4, OneSessionMoves

LEMMA RevokeSessionMoves ==
    ASSUME StoreInv, NEW s \in Sessions, session[s] # Null, RevokeSession(s)
    PROVE  StoreMove
<1>1. session[s] \in SessionRows
  BY StoreRows DEF StoreInv
<1> DEFINE status == IF session[s].status = "active" THEN "revoked" ELSE session[s].status
<1>2. status \in {"active", "revoked", "expired"} /\ status # "active"
  BY <1>1 DEF SessionRows
<1>3. session' = [session EXCEPT ![s].status = status]
  BY DEF RevokeSession
<1> HIDE DEF status
<1> QED
  BY <1>2, <1>3, SessionEnds, OtherTables DEF RevokeSession

LEMMA RevokeAllSessionsMoves ==
    ASSUME StoreInv, NEW u \in Users, account[u] # Null, RevokeAllSessions(u)
    PROVE  StoreMove
<1>1. account[u] \in AccountRows
  BY StoreRows DEF StoreInv
<1> DEFINE r == Unlocked(account[u])
<1>2. /\ r \in AccountRows /\ account' = [account EXCEPT ![u] = r]
      /\ r.password = account[u].password /\ r.salt = account[u].salt
      /\ r.admin = account[u].admin
      /\ account[u].status = "active" => r.status = "active"
      /\ r.status = "active" => account[u].status = "active" \/ r.failures = 0
  BY <1>1, UnlockedRow DEF RevokeAllSessions
<1>3. r.failures \in {0, account[u].failures}
  <2>1. [account[u] EXCEPT !.status = "active"] \in AccountRows
    BY <1>1, StatusRow DEF Statuses
  <2> QED
    BY <2>1, ClearedRow DEF Unlocked
<1>4. SessionsMove /\ ChallengesMove /\ TokensMove
  BY SessionsRevoked, StillTables DEF RevokeAllSessions, StoreInv
<1> HIDE DEF r
<1> QED
  BY <1>2, <1>3, <1>4, MildChange

\* Tokens of one purpose are revoked, and perhaps one of them is spent.
LEMMA RevokedTokensFacts ==
    ASSUME StoreTypes, NEW u, NEW purpose, NEW t \in Tokens
    PROVE  /\ token[t] = Null => RevokedTokens(u, purpose)[t] = Null
           /\ token[t] # Null =>
                 /\ RevokedTokens(u, purpose)[t] \in TokenRows
                 /\ RevokedTokens(u, purpose)[t].user = token[t].user
                 /\ RevokedTokens(u, purpose)[t].purpose = token[t].purpose
                 /\ RevokedTokens(u, purpose)[t].status = "active" =>
                       /\ token[t].status = "active"
                       /\ token[t].user # u \/ token[t].purpose # purpose
<1>1. token[t] # Null => token[t] \in TokenRows
  BY StoreRows
<1> DEFINE n == [token[t] EXCEPT !.status = "revoked"]
<1>2. token[t] # Null => /\ n \in TokenRows /\ n.status = "revoked"
                         /\ n.user = token[t].user /\ n.purpose = token[t].purpose
  BY <1>1 DEF TokenRows
<1>3. CASE token[t] # Null /\ token[t].user = u /\ token[t].purpose = purpose /\ token[t].status = "active"
  <2>1. RevokedTokens(u, purpose)[t] = n
    BY <1>3 DEF RevokedTokens
  <2> HIDE DEF n
  <2> QED
    BY <1>2, <1>3, <2>1
<1>4. CASE ~(token[t] # Null /\ token[t].user = u /\ token[t].purpose = purpose /\ token[t].status = "active")
  <2>1. RevokedTokens(u, purpose)[t] = token[t]
    BY <1>4 DEF RevokedTokens
  <2> QED
    BY <1>1, <1>4, <2>1
<1> QED
  BY <1>3, <1>4

LEMMA SpendTokenMoves ==
    ASSUME StoreTypes, NEW t \in Tokens, token[t] # Null, SpendToken(t)
    PROVE  TokensMove
<1> DEFINE R == RevokedTokens(token[t].user, token[t].purpose)
           n == [token[t] EXCEPT !.status = "consumed"]
<1>1. token[t] \in TokenRows
  BY StoreRows
<1>2. n \in TokenRows /\ n.status = "consumed" /\ n.user = token[t].user /\ n.purpose = token[t].purpose
  BY <1>1 DEF TokenRows
<1>3. token' = [R EXCEPT ![t] = n] /\ DOMAIN R = Tokens
  BY DEF SpendToken, RevokedTokens
<1>4. \A x \in Tokens : /\ token[x] = Null => R[x] = Null
                        /\ token[x] # Null =>
                              /\ R[x] \in TokenRows
                              /\ R[x].user = token[x].user /\ R[x].purpose = token[x].purpose
                              /\ R[x].status = "active" => token[x].status = "active"
  BY RevokedTokensFacts
<1>5. R \in [Tokens -> TokenRows \cup {Null}]
  BY <1>4 DEF RevokedTokens
<1> HIDE DEF R, n
<1>6. token'[t] = n /\ \A x \in Tokens \ {t} : token'[x] = R[x]
  BY <1>3, <1>5
<1>7. token' \in TokenTable
  BY <1>2, <1>3, <1>5 DEF TokenTable
<1>8. TokenMove(t)
  BY <1>2, <1>6, StoreAssumption DEF TokenMove
<1>9. ASSUME NEW x \in Tokens \ {t} PROVE TokenMove(x)
  BY <1>4, <1>6, StoreAssumption DEF TokenMove
<1> QED
  BY <1>7, <1>8, <1>9 DEF TokensMove

LEMMA InsertTokenMoves ==
    ASSUME StoreInv, NEW t \in Tokens, NEW u \in Users, account[u] # Null, NEW purpose \in Purposes,
           InsertToken(t, u, purpose)
    PROVE  StoreMove /\ token'[t] # Null
<1> DEFINE R == RevokedTokens(u, purpose)
           n == [user |-> u, purpose |-> purpose, status |-> "active", sent |-> FALSE]
<1>1. n \in TokenRows /\ n.user = u /\ n.purpose = purpose
  BY DEF TokenRows
<1>2. /\ token[t] = Null /\ token' = [R EXCEPT ![t] = n] /\ DOMAIN R = Tokens
      /\ UNCHANGED <<account, session, challenge>>
  BY DEF InsertToken, RevokedTokens
<1>3. \A x \in Tokens : /\ token[x] = Null => R[x] = Null
                        /\ token[x] # Null =>
                              /\ R[x] \in TokenRows
                              /\ R[x].user = token[x].user /\ R[x].purpose = token[x].purpose
                              /\ R[x].status = "active" =>
                                    /\ token[x].status = "active"
                                    /\ token[x].user # u \/ token[x].purpose # purpose
  BY RevokedTokensFacts DEF StoreInv
<1>4. R \in [Tokens -> TokenRows \cup {Null}]
  BY <1>3 DEF RevokedTokens
<1> HIDE DEF R, n
<1>5. token'[t] = n /\ \A x \in Tokens \ {t} : token'[x] = R[x]
  BY <1>2, <1>4
<1>6. token' \in TokenTable
  BY <1>1, <1>2, <1>4 DEF TokenTable
<1>7. n # Null
  BY <1>1, StoreAssumption
<1>8. TokenMove(t)
  BY <1>1, <1>2, <1>3, <1>5, <1>7 DEF TokenMove, Registered
<1>9. ASSUME NEW x \in Tokens \ {t} PROVE TokenMove(x)
  BY <1>3, <1>5, StoreAssumption DEF TokenMove
<1>10. TokensMove
  BY <1>6, <1>8, <1>9 DEF TokensMove
<1> QED
  BY <1>2, <1>5, <1>7, <1>10, StillTables DEF StoreMove

\* A token changes but for its owner and its purpose, and is not revived.
LEMMA OneTokenMoves ==
    ASSUME StoreInv, NEW t \in Tokens, token[t] # Null, NEW n \in TokenRows,
           token' = [token EXCEPT ![t] = n],
           n.user = token[t].user, n.purpose = token[t].purpose,
           n.status = "active" => token[t].status = "active",
           UNCHANGED <<account, session, challenge>>
    PROVE  StoreMove
<1>1. token'[t] = n /\ \A x \in Tokens \ {t} : token'[x] = token[x]
  BY DEF StoreInv, StoreTypes, TokenTable
<1>2. token' \in TokenTable
  BY DEF StoreInv, StoreTypes, TokenTable
<1>3. TokenMove(t)
  BY <1>1, StoreAssumption DEF TokenMove
<1>4. \A x \in Tokens \ {t} : TokenMove(x)
  BY <1>1 DEF TokenMove
<1>5. TokensMove
  BY <1>2, <1>3, <1>4 DEF TokensMove
<1> QED
  BY <1>5, StillTables DEF StoreMove

LEMMA RevokeTokenMoves ==
    ASSUME StoreInv, NEW t \in Tokens, token[t] # Null, RevokeToken(t)
    PROVE  StoreMove
<1>1. token[t] \in TokenRows
  BY StoreRows DEF StoreInv
<1> DEFINE status == IF token[t].status = "active" THEN "revoked" ELSE token[t].status
           n == [token[t] EXCEPT !.status = status]
<1>2. status \in {"active", "consumed", "revoked", "expired"} /\ status # "active"
  BY <1>1 DEF TokenRows
<1>3. token' = [token EXCEPT ![t] = n]
  BY DEF RevokeToken
<1> HIDE DEF status
<1>4. n \in TokenRows /\ n.user = token[t].user /\ n.purpose = token[t].purpose /\ n.status = status
  BY <1>1, <1>2 DEF TokenRows
<1> HIDE DEF n
<1> QED
  BY <1>2, <1>3, <1>4, OneTokenMoves DEF RevokeToken

LEMMA ConfirmEmailMoves ==
    ASSUME StoreInv, NEW t \in Tokens, ConfirmEmail(t)
    PROVE  StoreMove
<1>0. token[t] # Null
  BY DEF ConfirmEmail
<1>1. PICK u \in Users : u = token[t].user
  BY <1>0, StoreRows DEF StoreInv
<1>2. account[u] \in AccountRows /\ account[u] # Null
  BY <1>1, StoreRows DEF ConfirmEmail, Active, Registered, StoreInv
<1> DEFINE r == [account[u] EXCEPT !.verified = TRUE]
<1>3. /\ r \in AccountRows /\ r.status = account[u].status /\ r.admin = account[u].admin
      /\ r.salt = account[u].salt /\ r.failures = account[u].failures
      /\ r.password = account[u].password
  BY <1>2 DEF AccountRows
<1>4. account' = [account EXCEPT ![u] = r]
  BY <1>1 DEF ConfirmEmail
<1> HIDE DEF r
<1>5. TokensMove
  BY <1>0, SpendTokenMoves DEF ConfirmEmail, StoreInv
<1>6. SessionsMove /\ ChallengesMove
  BY StillTables DEF ConfirmEmail
<1> QED
  BY <1>2, <1>3, <1>4, <1>5, <1>6, MildChange

LEMMA ResetPasswordMoves ==
    ASSUME StoreInv, NEW t \in Tokens, NEW new \in Passwords, ResetPassword(t, new)
    PROVE  StoreMove
<1>0. token[t] # Null
  BY DEF ResetPassword
<1>1. PICK u \in Users : u = token[t].user
  BY <1>0, StoreRows DEF StoreInv
<1>2. account[u] \in AccountRows /\ account[u] # Null
  BY <1>0, <1>1, StoreRows DEF Known, Registered, StoreInv
<1> DEFINE n == [account[u] EXCEPT !.password = new, !.status = "active"]
           r == Cleared(n)
<1>3. n \in AccountRows /\ n.status = "active" /\ n.admin = account[u].admin /\ n.salt = account[u].salt
  BY <1>2 DEF AccountRows, Statuses
<1>4. account' = [account EXCEPT ![u] = r]
  BY <1>1 DEF ResetPassword
<1> HIDE DEF n
<1>5. /\ r \in AccountRows /\ r.status = "active" /\ r.admin = account[u].admin
      /\ r.salt = account[u].salt /\ r.failures = 0
  BY <1>3, ClearedRow
<1> HIDE DEF r
<1>6. TokensMove
  BY <1>0, SpendTokenMoves DEF ResetPassword, StoreInv
<1>7. SessionsMove /\ SessionsEnd(u)
  BY <1>1, SessionsRevoked DEF ResetPassword, StoreInv
<1>8. AccountsMove
  <2>1. StoreTypes /\ r.failures < FailureLimit
    BY <1>5, StoreAssumption DEF StoreInv
  <2> QED
    BY <1>2, <1>4, <1>5, <1>7, <2>1, RowMoves
<1>9. AdminsMove
  BY <1>2, <1>4, <1>5, AdminsStay DEF StoreInv
<1> QED
  BY <1>6, <1>7, <1>8, <1>9, StillTables DEF StoreMove, ResetPassword

\* The passing of time.
LEMMA DeadlineMoves == StoreInv /\ Deadline => StoreMove
<1> SUFFICES ASSUME StoreInv, Deadline PROVE StoreMove
  OBVIOUS
<1>1. ASSUME NEW s \in Sessions, ExpireSession(s) PROVE StoreMove
  BY <1>1, SessionEnds, OtherTables DEF ExpireSession, SessionActive
<1>2. ASSUME NEW c \in Challenges, ExpireChallenge(c) PROVE StoreMove
  <2>1. challenge[c] \in ChallengeRows /\ challenge[c] # Null /\ challenge[c].status = "active"
    BY <1>2, StoreRows DEF ExpireChallenge, StoreInv
  <2> DEFINE n == [challenge[c] EXCEPT !.status = "expired"]
  <2>2. /\ n \in ChallengeRows /\ n.status = "expired"
        /\ n.user = challenge[c].user /\ n.password = challenge[c].password
    BY <2>1 DEF ChallengeRows
  <2>3. challenge' = [challenge EXCEPT ![c] = n]
    BY <1>2 DEF ExpireChallenge
  <2> HIDE DEF n
  <2>4. challenge'[c] = n /\ \A x \in Challenges \ {c} : challenge'[x] = challenge[x]
    BY <2>3 DEF StoreInv, StoreTypes, ChallengeTable
  <2>5. challenge' \in ChallengeTable
    BY <2>2, <2>3 DEF StoreInv, StoreTypes, ChallengeTable
  <2>6. ChallengeMove(c)
    BY <2>1, <2>2, <2>4, StoreAssumption DEF ChallengeMove
  <2>7. \A x \in Challenges \ {c} : ChallengeMove(x)
    BY <2>4 DEF ChallengeMove
  <2> QED
    BY <1>2, <2>5, <2>6, <2>7, StillTables DEF ChallengesMove, ExpireChallenge, StoreMove
<1>3. ASSUME NEW t \in Tokens, ExpireToken(t) PROVE StoreMove
  <2>1. token[t] \in TokenRows /\ token[t] # Null
    BY <1>3, StoreRows DEF ExpireToken, StoreInv
  <2> DEFINE n == [token[t] EXCEPT !.status = "expired"]
  <2>2. n \in TokenRows /\ n.status = "expired" /\ n.user = token[t].user /\ n.purpose = token[t].purpose
    BY <2>1 DEF TokenRows
  <2>3. token' = [token EXCEPT ![t] = n]
    BY <1>3 DEF ExpireToken
  <2> HIDE DEF n
  <2> QED
    BY <1>3, <2>1, <2>2, <2>3, OneTokenMoves DEF ExpireToken
<1>4. ASSUME NEW u \in Users, LockPasses(u) PROVE StoreMove
  <2>1. account[u] \in AccountRows /\ account[u] # Null
    BY <1>4, StoreRows DEF LockPasses, StoreInv, Registered
  <2> DEFINE r == [account[u] EXCEPT !.lockOver = TRUE]
  <2>2. /\ r \in AccountRows /\ r.status = account[u].status /\ r.admin = account[u].admin
        /\ r.salt = account[u].salt /\ r.failures = account[u].failures
        /\ r.password = account[u].password
    BY <2>1 DEF AccountRows
  <2>3. account' = [account EXCEPT ![u] = r]
    BY <1>4 DEF LockPasses
  <2> HIDE DEF r
  <2>4. SessionsMove /\ ChallengesMove /\ TokensMove
    BY <1>4, StillTables DEF LockPasses
  <2> QED
    BY <2>1, <2>2, <2>3, <2>4, MildChange
<1>5. ASSUME NEW u \in Users, WindowPasses(u) PROVE StoreMove
  <2>1. account[u] \in AccountRows /\ account[u] # Null
    BY <1>5, StoreRows DEF WindowPasses, StoreInv, Registered
  <2> DEFINE r == [account[u] EXCEPT !.window = "over"]
  <2>2. /\ r \in AccountRows /\ r.status = account[u].status /\ r.admin = account[u].admin
        /\ r.salt = account[u].salt /\ r.failures = account[u].failures
        /\ r.password = account[u].password
    BY <2>1 DEF AccountRows
  <2>3. account' = [account EXCEPT ![u] = r]
    BY <1>5 DEF WindowPasses
  <2> HIDE DEF r
  <2> QED
    <3>1. SessionsMove /\ ChallengesMove /\ TokensMove
      BY <1>5, StillTables DEF WindowPasses
    <3> QED
      BY <2>1, <2>2, <2>3, <3>1, MildChange
<1> QED
  BY <1>1, <1>2, <1>3, <1>4, <1>5 DEF Deadline

-----------------------------------------------------------------------------
(* What a handler may rely on between two transactions *)

\* The steps of a request at which it still has a session to act on.
SessionSteps ==
    {"record", "undo", "reply", "refreshed", "principal", "confirm"}
        \cup SignedIn \cup Administration

\* What a request c has established when it stands at a step.
Fits(step, c) ==
    /\ step = "idle" => c.op = Null
    /\ step # "idle" => c.user \in Users /\ Registered(c.user)
    /\ step \in SessionSteps =>
          c.session \in Sessions /\ session[c.session] # Null /\ session[c.session].user = c.user
    /\ step \in {"verify", "failed", "material", "challenge", "ask"} =>
          c.op = "login" /\ c.item = Null
    /\ step \in {"material", "challenge", "ask", "create", "insert"} => c.password \in Passwords
    /\ step = "factor" => c.op \in {"verify_login", "disable_2fa", "regenerate"}
    /\ step = "complete" => c.op = "verify_login"
    /\ step \in {"factor", "complete"} /\ c.op = "verify_login" =>
          c.password \in Passwords /\ c.item \in Challenges /\ challenge[c.item] # Null
    /\ step \in {"create", "insert"} =>
          \/ c.op = "login" /\ c.item = Null
          \/ c.op = "verify_login" /\ c.item \in Challenges
    /\ step \in {"consume", "apply"} => c.op \in {"disable_2fa", "regenerate"}
    /\ step \in {"complete", "consume", "enable"} => c.proof.n \in Nat
    /\ step = "principal" => c.op \in SignedIn \cup Administration
    /\ step = "confirm" => c.op \in {"setup_2fa", "disable_2fa", "regenerate"}
    /\ step \in {"mail", "unsent"} => c.item \in Tokens /\ token[c.item] # Null
    /\ c.op = "refresh" => step \in {"refreshed", "reply", "undo"} /\ c.item \in Nat

CallOK(h) == Fits(call[h].at, call[h])

\* The tokens on their way to a client are those of an active account.
ReplyOK(h) ==
    At(h, "reply") /\ SessionActive(call[h].session) =>
        Active(session[call[h].session].user)

HeldInv == HeldSessionsFollowStatus /\ \A h \in Handlers : ReplyOK(h)

\* A login that has answered its challenge and has no session yet.
Passed(h) == call[h].at \in {"create", "insert"} /\ call[h].op = "verify_login"

Answered(c) == challenge[c] # Null /\ challenge[c].status = "consumed"

PassedInv ==
    /\ OneSessionPerChallenge
    /\ \A s \in Sessions : session[s] # Null /\ session[s].challenge # Null =>
          Answered(session[s].challenge)
    /\ \A h \in Handlers : Passed(h) =>
          /\ Answered(call[h].item)
          /\ \A s \in Sessions : session[s] # Null => session[s].challenge # call[h].item
    /\ \A h1, h2 \in Handlers :
          Passed(h1) /\ Passed(h2) /\ call[h1].item = call[h2].item => h1 = h2

\* The refresh tokens that were presented have all been replaced.
RefreshInv ==
    /\ RefreshTokenUsedOnce
    /\ \A h \in Handlers : call[h].op = "refresh" =>
          call[h].item < session[call[h].session].refresh

CallsOK == call \in [Handlers -> Calls] /\ \A h \in Handlers : CallOK(h)

IInv == StoreInv /\ CallsOK /\ HeldInv /\ PassedInv /\ RefreshInv

-----------------------------------------------------------------------------
(* How it is kept *)

LEMMA FitsPersist ==
    ASSUME Persist, NEW step, NEW c, Fits(step, c)
    PROVE  Fits(step, c)'
<1>1. c.user \in Users /\ Registered(c.user) => Registered(c.user)'
  BY DEF Persist
<1>2. step \in SessionSteps => session'[c.session] # Null /\ session'[c.session].user = c.user
  BY DEF Fits, Persist
<1>3. c.item \in Challenges /\ challenge[c.item] # Null => challenge'[c.item] # Null
  BY DEF Persist
<1>4. c.item \in Tokens /\ token[c.item] # Null => token'[c.item] # Null
  BY DEF Persist
<1> QED
  BY <1>1, <1>2, <1>3, <1>4 DEF Fits, Registered

LEMMA HeldKeep ==
    ASSUME IInv, StoreMove, \A g \in Handlers : call'[g] = call[g] \/ ReplyOK(g)'
    PROVE  HeldInv'
<1>0. StoreTypes /\ Persist
  BY MovesPersist DEF IInv, StoreInv
<1>1. ASSUME NEW s \in Sessions, session[s] # Null, SessionActive(s)',
             session[s].held \/ \E g \in Handlers : At(g, "reply") /\ call[g].session = s
      PROVE  Active(session[s].user)'
  <2>1. SessionActive(s)
    BY <1>0, <1>1 DEF Persist
  <2>2. Active(session[s].user)
    BY <1>1, <2>1 DEF IInv, HeldInv, HeldSessionsFollowStatus, ReplyOK
  <2> QED
    BY <1>0, <1>1, <2>2 DEF Persist
<1>2. ASSUME NEW s \in Sessions, SessionActive(s)', session'[s].held
      PROVE  Active(session[s].user)'
  <2>1. session[s] # Null
    BY <1>2 DEF StoreMove, SessionsMove, SessionMove, Fresh, SessionActive
  <2>2. session[s].held \/ \E g \in Handlers : At(g, "reply") /\ call[g].session = s
    BY <1>2, <2>1 DEF StoreMove, SessionsMove, SessionMove
  <2> QED
    BY <1>1, <1>2, <2>1, <2>2
<1>3. ASSUME NEW g \in Handlers, call'[g] = call[g], At(g, "reply")', SessionActive(call[g].session)'
      PROVE  Active(session[call[g].session].user)'
  <2>1. PICK s \in Sessions : s = call[g].session /\ session[s] # Null
    BY <1>3 DEF IInv, CallsOK, CallOK, Fits, SessionSteps, At
  <2>2. At(g, "reply") /\ call'[g].session = s
    BY <1>3, <2>1 DEF At
  <2>3. SessionActive(s)'
    BY <1>3, <2>2 DEF SessionActive
  <2>4. Active(session[s].user)'
    BY <1>1, <2>1, <2>2, <2>3
  <2> QED
    BY <2>2, <2>4 DEF Active, Registered
<1> QED
  BY <1>2, <1>3 DEF HeldInv, HeldSessionsFollowStatus, ReplyOK

LEMMA PassedKeep ==
    ASSUME IInv, Persist, call' \in [Handlers -> Calls],
           \A s \in Sessions : session[s] = Null => session'[s] = Null,
           \A g \in Handlers : \/ call'[g] = call[g]
                               \/ Passed(g)' => Passed(g) /\ call'[g].item = call[g].item
    PROVE  PassedInv'
<1>1. \A g \in Handlers : Passed(g)' => Passed(g) /\ call'[g].item = call[g].item
  BY DEF Passed
<1>2. \A c \in Challenges : Answered(c) => Answered(c)'
  BY DEF Persist, Answered
<1>3. \A s \in Sessions : session'[s] # Null =>
          session[s] # Null /\ session'[s].challenge = session[s].challenge
  BY DEF Persist
<1>4. \A s \in Sessions : session[s] # Null /\ session[s].challenge # Null =>
          session[s].challenge \in Challenges
  BY StoreRows DEF IInv, StoreInv, SessionRows
<1>5. OneSessionPerChallenge'
  BY <1>3 DEF IInv, PassedInv, OneSessionPerChallenge
<1>6. ASSUME NEW s \in Sessions, session'[s] # Null, session'[s].challenge # Null
      PROVE  Answered(session[s].challenge)' /\ session'[s].challenge = session[s].challenge
  <2>1. PICK c \in Challenges : c = session[s].challenge
    BY <1>3, <1>4, <1>6
  <2>2. Answered(c)
    BY <1>3, <1>6, <2>1 DEF IInv, PassedInv
  <2>3. Answered(c)' /\ session'[s].challenge = c
    BY <1>2, <1>3, <1>6, <2>1, <2>2
  <2> QED
    BY <2>1, <2>3 DEF Answered
<1>7. ASSUME NEW h \in Handlers, Passed(h)'
      PROVE  /\ Answered(call[h].item)' /\ call'[h].item = call[h].item
             /\ \A s \in Sessions : session'[s] # Null => session'[s].challenge # call'[h].item
  <2>1. Passed(h) /\ call'[h].item = call[h].item
    BY <1>1, <1>7
  <2>2. PICK c \in Challenges : c = call[h].item
    BY <2>1, ServiceAssumption DEF Passed, IInv, CallsOK, CallOK, Fits
  <2>3. Answered(c)'
    BY <1>2, <2>1, <2>2 DEF IInv, PassedInv
  <2>4. \A s \in Sessions : session[s] # Null => session[s].challenge # c
    BY <2>1, <2>2 DEF IInv, PassedInv
  <2> QED
    BY <1>3, <2>1, <2>2, <2>3, <2>4 DEF Answered
<1>8. \A h1, h2 \in Handlers :
          Passed(h1)' /\ Passed(h2)' /\ call'[h1].item = call'[h2].item => h1 = h2
  BY <1>1 DEF IInv, PassedInv
<1> QED
  BY <1>5, <1>6, <1>7, <1>8 DEF PassedInv, Answered

LEMMA RefreshKeep ==
    ASSUME IInv, Persist, StoreInv', call' \in [Handlers -> Calls],
           \A g \in Handlers : \/ call'[g] = call[g]
                               \/ call'[g].op = "refresh" =>
                                      /\ call[g].op = "refresh"
                                      /\ call'[g].session = call[g].session
                                      /\ call'[g].item = call[g].item
    PROVE  RefreshInv'
<1>1. \A g \in Handlers : call'[g].op = "refresh" =>
          /\ call[g].op = "refresh"
          /\ call'[g].session = call[g].session
          /\ call'[g].item = call[g].item
  OBVIOUS
<1>2. RefreshTokenUsedOnce'
  BY <1>1 DEF IInv, RefreshInv, RefreshTokenUsedOnce
<1>3. ASSUME NEW g \in Handlers, call'[g].op = "refresh"
      PROVE  call'[g].item < session'[call'[g].session].refresh
  <2>1. PICK s \in Sessions : s = call[g].session /\ session[s] # Null
    BY <1>1, <1>3 DEF IInv, CallsOK, CallOK, Fits, SessionSteps
  <2>2. call[g].item \in Nat /\ call[g].item < session[s].refresh
    BY <1>1, <1>3, <2>1 DEF IInv, CallsOK, CallOK, Fits, RefreshInv
  <2>3. session[s].refresh \in Nat /\ session'[s].refresh \in Nat /\ session'[s].refresh >= session[s].refresh
    <3>1. session[s] \in SessionRows
      BY <2>1, StoreRows DEF IInv, StoreInv
    <3>2. session'[s] \in SessionRows \cup {Null} /\ session'[s] # Null
      BY <2>1 DEF StoreInv, StoreTypes, SessionTable, Persist
    <3> QED
      BY <2>1, <3>1, <3>2 DEF SessionRows, Persist
  <2> QED
    BY <1>1, <1>3, <2>1, <2>2, <2>3
<1> QED
  BY <1>2, <1>3 DEF RefreshInv

LEMMA FitsCall ==
    ASSUME NEW g \in Handlers, NEW c, call'[g] = c, Fits(c.at, c)'
    PROVE  CallOK(g)'
BY DEF CallOK, Fits

LEMMA RequestTypes ==
    ASSUME NEW c \in Calls, NEW step \in Steps
    PROVE  LET n == [c EXCEPT !.at = step] IN
           /\ n \in Calls /\ n.at = step /\ n.op = c.op /\ n.user = c.user
           /\ n.session = c.session /\ n.item = c.item /\ n.password = c.password
           /\ n.salt = c.salt /\ n.proof = c.proof
           /\ \A x \in Steps : Fits(x, c) => Fits(x, n)
<1> DEFINE n == [c EXCEPT !.at = step]
<1>1. /\ n \in Calls /\ n.at = step /\ n.op = c.op /\ n.user = c.user
      /\ n.session = c.session /\ n.item = c.item /\ n.password = c.password
      /\ n.salt = c.salt /\ n.proof = c.proof
  BY DEF Calls
<1> HIDE DEF n
<1>2. \A x \in Steps : Fits(x, c) => Fits(x, n)
  BY <1>1 DEF Fits
<1> QED
  BY <1>1, <1>2 DEF n

LEMMA IdleCall == Idle \in Calls /\ Idle.at = "idle" /\ Fits("idle", Idle) /\ Idle.op = Null
BY ServiceAssumption DEF Idle, Calls, Steps, Fits, SessionSteps, SignedIn, Administration

LEMMA IdleFields ==
    /\ Idle \in Calls
    /\ Idle.session = Null /\ Idle.item = Null /\ Idle.password = Null /\ Idle.proof = Null
BY IdleCall DEF Idle

\* A step after which handler h serves the request c.
LEMMA RequestFits ==
    ASSUME IInv, StoreMove, NEW h \in Handlers, NEW c \in Calls,
           call' = [call EXCEPT ![h] = c],
           Fits(c.at, c) \/ Fits(c.at, c)',
           \A s \in Sessions : c.at = "reply" /\ c.session = s /\ SessionActive(s)' =>
               Active(session[s].user)'
    PROVE  /\ call' \in [Handlers -> Calls] /\ call'[h] = c
           /\ \A g \in Handlers \ {h} : call'[g] = call[g]
           /\ Persist /\ StoreInv' /\ CallsOK' /\ HeldInv'
<1>0. Persist /\ StoreInv'
  BY MovesPersist, MovesKeep DEF IInv
<1>1. /\ call' \in [Handlers -> Calls] /\ call'[h] = c
      /\ \A g \in Handlers \ {h} : call'[g] = call[g]
  BY DEF IInv, CallsOK
<1>2. CallsOK'
  <2>1. ASSUME NEW g \in Handlers, g # h PROVE CallOK(g)'
    <3>1. PICK r \in Calls : r = call[g]
      BY DEF IInv, CallsOK
    <3>2. Fits(r.at, r) /\ call'[g] = r
      BY <1>1, <2>1, <3>1 DEF IInv, CallsOK, CallOK
    <3> QED
      BY <1>0, <3>2, FitsPersist, FitsCall
  <2>2. CallOK(h)'
    <3>1. Fits(c.at, c)'
      BY <1>0, FitsPersist
    <3> QED
      BY <1>1, <3>1, FitsCall
  <2> QED
    BY <1>1, <2>1, <2>2 DEF CallsOK
<1>3. HeldInv'
  <2>1. ASSUME At(h, "reply")', SessionActive(call[h].session)'
        PROVE  Active(session[call[h].session].user)'
    <3>1. PICK s \in Sessions : s = c.session
      <4>1. Fits(c.at, c)'
        BY <1>0, FitsPersist
      <4> QED
        BY <1>1, <2>1, <4>1 DEF Fits, SessionSteps, At
    <3>2. SessionActive(s)' /\ call'[h].session = s /\ c.at = "reply"
      BY <1>1, <2>1, <3>1 DEF SessionActive, At
    <3>3. Active(session[s].user)'
      BY <3>1, <3>2
    <3> QED
      BY <3>2, <3>3 DEF Active, Registered
  <2> QED
    BY <1>1, <2>1, HeldKeep DEF ReplyOK
<1> QED
  BY <1>0, <1>1, <1>2, <1>3

\* A step that opens no session, after which handler h serves the request c.
LEMMA RequestKeeps ==
    ASSUME IInv, StoreMove, NEW h \in Handlers, NEW c \in Calls,
           call' = [call EXCEPT ![h] = c],
           c.at # "record",
           Fits(c.at, c) \/ Fits(c.at, c)',
           \A s \in Sessions : c.at = "reply" /\ c.session = s /\ SessionActive(s)' =>
               Active(session[s].user)',
           c.at \in {"create", "insert"} /\ c.op = "verify_login" =>
               Passed(h) /\ c.item = call[h].item,
           c.op = "refresh" =>
               call[h].op = "refresh" /\ c.session = call[h].session /\ c.item = call[h].item
    PROVE  IInv'
<1>1. /\ call' \in [Handlers -> Calls] /\ call'[h] = c
      /\ \A g \in Handlers \ {h} : call'[g] = call[g]
      /\ Persist /\ StoreInv' /\ CallsOK' /\ HeldInv'
  BY RequestFits
<1>4. PassedInv'
  <2>1. \A s \in Sessions : session[s] = Null => session'[s] = Null
    <3>1. \A g \in Handlers : ~(At(g, "insert") /\ At(g, "record")')
      BY <1>1 DEF At
    <3> QED
      BY <3>1 DEF StoreMove, SessionsMove, SessionMove
  <2>2. Passed(h)' => Passed(h) /\ call'[h].item = call[h].item
    BY <1>1 DEF Passed
  <2> QED
    BY <1>1, <2>1, <2>2, PassedKeep
<1>5. RefreshInv'
  BY <1>1, RefreshKeep
<1> QED
  BY <1>1, <1>4, <1>5 DEF IInv

\* The handler answers its client.
LEMMA FinishKeeps ==
    ASSUME IInv, StoreMove, NEW h \in Handlers, Finish(h)
    PROVE  IInv'
<1>1. call' = [call EXCEPT ![h] = Idle]
  BY DEF Finish
<1> QED
  BY <1>1, IdleCall, RequestKeeps, ServiceAssumption

\* The handler goes on with its request.
LEMMA GoToKeeps ==
    ASSUME IInv, StoreMove, NEW h \in Handlers, NEW step \in Steps, GoTo(h, step),
           step # "record",
           Fits(step, call[h]),
           \A s \in Sessions : step = "reply" /\ call[h].session = s /\ SessionActive(s)' =>
               Active(session[s].user)',
           step \in {"create", "insert"} /\ call[h].op = "verify_login" => Passed(h)
    PROVE  IInv'
<1> DEFINE c == [call[h] EXCEPT !.at = step]
<1>1. call[h] \in Calls
  BY DEF IInv, CallsOK
<1>2. /\ c \in Calls /\ c.at = step /\ c.op = call[h].op
      /\ c.session = call[h].session /\ c.item = call[h].item /\ Fits(step, c)
  BY <1>1, RequestTypes
<1>3. call' = [call EXCEPT ![h] = c]
  BY DEF GoTo
<1> HIDE DEF c
<1> QED
  BY <1>2, <1>3, RequestKeeps

\* Nothing but the store changes.
LEMMA StoreStepKeeps ==
    ASSUME IInv, StoreMove, call' = call
    PROVE  IInv'
<1>0. Persist /\ StoreInv'
  BY MovesPersist, MovesKeep DEF IInv
<1>1. call' \in [Handlers -> Calls] /\ \A g \in Handlers : call'[g] = call[g]
  BY DEF IInv, CallsOK
<1>2. CallsOK'
  <2>1. ASSUME NEW g \in Handlers PROVE CallOK(g)'
    <3>1. PICK r \in Calls : r = call[g]
      BY DEF IInv, CallsOK
    <3>2. Fits(r.at, r) /\ call'[g] = r
      BY <1>1, <3>1 DEF IInv, CallsOK, CallOK
    <3> QED
      BY <1>0, <3>2, FitsPersist, FitsCall
  <2> QED
    BY <1>1, <2>1 DEF CallsOK
<1>3. PassedInv'
  <2>1. \A s \in Sessions : session[s] = Null => session'[s] = Null
    <3>1. \A g \in Handlers : ~(At(g, "insert") /\ At(g, "record")')
      BY <1>1 DEF At
    <3> QED
      BY <3>1 DEF StoreMove, SessionsMove, SessionMove
  <2> QED
    BY <1>0, <1>1, <2>1, PassedKeep
<1> QED
  BY <1>0, <1>1, <1>2, <1>3, HeldKeep, RefreshKeep DEF IInv

\* The store does not change at all.
LEMMA StoreStands == StoreInv /\ UNCHANGED storeVars => StoreMove
BY StillTables DEF storeVars, StoreMove

-----------------------------------------------------------------------------
(* Registration and login *)

\* A request in progress is of an account that exists.
LEMMA Standing ==
    ASSUME IInv, NEW h \in Handlers
    PROVE  /\ StoreInv /\ call[h] \in Calls /\ Fits(call[h].at, call[h])
           /\ ~At(h, "idle") => User(h) \in Users /\ account[User(h)] # Null
BY DEF IInv, CallsOK, CallOK, Fits, At, User, Registered

\* A new request.
LEMMA AcceptKeeps ==
    ASSUME IInv, StoreMove, NEW h \in Handlers, NEW c \in Calls,
           call' = [call EXCEPT ![h] = c],
           c.at \in {"verify", "factor", "principal", "token"}, c.op # "refresh", Fits(c.at, c)
    PROVE  IInv'
BY RequestKeeps

\* After a read the handler goes on or answers.
LEMMA GoToIfIs ==
    ASSUME NEW h, NEW allowed, NEW step, GoToIf(h, allowed, step)
    PROVE  (allowed /\ GoTo(h, step)) \/ (~allowed /\ Finish(h))
<1>1. CASE allowed
  BY <1>1 DEF GoToIf, GoTo
<1>2. CASE ~allowed
  BY <1>2 DEF GoToIf, Finish
<1> QED
  BY <1>1, <1>2

LEMMA RegisterKeeps ==
    ASSUME IInv, NEW h \in Handlers, Register(h)
    PROVE  StoreMove /\ IInv'
<1>1. StoreMove
  BY CreateUserMoves DEF Register, IInv
<1> QED
  BY <1>1, StoreStepKeeps DEF Register

LEMMA LoginKeeps ==
    ASSUME IInv, NEW h \in Handlers, Login(h)
    PROVE  StoreMove /\ IInv'
<1>1. PICK u \in Users : /\ ReadUser(u)
                         /\ Accept(h, "login", "verify", [Idle EXCEPT !.user = u])
  BY DEF Login
<1>2. StoreMove
  BY <1>1, ReadUserMoves DEF IInv
<1> DEFINE c == [[Idle EXCEPT !.user = u] EXCEPT !.at = "verify", !.op = "login"]
<1>3. call' = [call EXCEPT ![h] = c]
  BY <1>1 DEF Accept
<1>4. c \in Calls /\ c.at = "verify" /\ c.op = "login" /\ c.user = u /\ c.item = Null
  BY IdleFields DEF Calls, Steps
<1> HIDE DEF c
<1>5. Fits("verify", c)
  BY <1>1, <1>4 DEF Fits, ReadUser, SessionSteps, SignedIn, Administration
<1> QED
  BY <1>2, <1>3, <1>4, <1>5, AcceptKeeps

LEMMA VerifyPasswordKeeps ==
    ASSUME IInv, NEW h \in Handlers, VerifyPassword(h)
    PROVE  StoreMove /\ IInv'
<1>0. /\ StoreInv /\ call[h] \in Calls /\ Fits("verify", call[h])
      /\ User(h) \in Users /\ account[User(h)] # Null
  BY Standing DEF VerifyPassword, At
<1>1. StoreMove
  BY <1>0, ReadUserMoves DEF VerifyPassword
<1>2. CASE GoTo(h, "failed")
  <2>1. "failed" \in Steps /\ Fits("failed", call[h])
    BY <1>0 DEF Fits, SessionSteps, Steps, SignedIn, Administration
  <2> QED
    BY <1>1, <1>2, <2>1, GoToKeeps
<1>3. ASSUME NEW p \in Passwords,
             call' = [call EXCEPT ![h] = [@ EXCEPT !.at = "material", !.password = p]]
      PROVE  IInv'
  <2> DEFINE c == [call[h] EXCEPT !.at = "material", !.password = p]
  <2>1. /\ c \in Calls /\ c.at = "material" /\ c.op = call[h].op /\ c.user = call[h].user
        /\ c.item = call[h].item /\ c.password = p
    <3>1. "material" \in Steps
      BY DEF Steps
    <3>2. c \in Calls
      BY <1>0, <3>1 DEF Calls
    <3>3. /\ c.at = "material" /\ c.op = call[h].op /\ c.user = call[h].user
          /\ c.item = call[h].item /\ c.password = p
      BY <1>0 DEF Calls
    <3> QED
      BY <3>2, <3>3
  <2>2. call' = [call EXCEPT ![h] = c]
    BY <1>3
  <2> HIDE DEF c
  <2>3. Fits("material", c)
    BY <1>0, <2>1 DEF Fits, SessionSteps, SignedIn, Administration
  <2>4. c.op # "refresh"
    BY <1>0, <2>1 DEF Fits
  <2> QED
    BY <1>1, <2>1, <2>2, <2>3, <2>4, RequestKeeps
<1>4. PICK p \in Attempts :
          call' = [call EXCEPT ![h] =
              IF PasswordMatches(@.user, p)
              THEN [@ EXCEPT !.at = "material", !.password = p]
              ELSE [@ EXCEPT !.at = "failed"]]
  BY DEF VerifyPassword
<1>5. CASE PasswordMatches(call[h].user, p)
  <2>1. account[User(h)] \in AccountRows
    BY <1>0, StoreRows DEF StoreInv
  <2>2. p \in Passwords
    BY <1>5, <2>1 DEF PasswordMatches, AccountRows, User
  <2> QED
    BY <1>1, <1>3, <1>4, <1>5, <2>2
<1>6. CASE ~PasswordMatches(call[h].user, p)
  BY <1>1, <1>2, <1>4, <1>6 DEF GoTo
<1> QED
  BY <1>5, <1>6

LEMMA CountFailureKeeps ==
    ASSUME IInv, NEW h \in Handlers, CountFailure(h)
    PROVE  StoreMove /\ IInv'
<1>1. StoreMove
  BY Standing, RecordLoginFailureMoves DEF CountFailure, At
<1> QED
  BY <1>1, FinishKeeps DEF CountFailure

LEMMA ReadMaterialKeeps ==
    ASSUME IInv, NEW h \in Handlers, ReadMaterial(h)
    PROVE  StoreMove /\ IInv'
<1>0. StoreInv /\ Fits("material", call[h])
  BY Standing DEF ReadMaterial, At
<1>1. StoreMove
  BY <1>0, StoreStands DEF ReadMaterial
<1>2. Fits("challenge", call[h]) /\ Fits("create", call[h]) /\ call[h].op = "login"
  BY <1>0 DEF Fits, SessionSteps, SignedIn, Administration
<1>3. {"challenge", "create"} \subseteq Steps
  BY DEF Steps
<1> QED
  BY <1>1, <1>2, <1>3, GoToKeeps DEF ReadMaterial

LEMMA CheckChallengeKeeps ==
    ASSUME IInv, NEW h \in Handlers, CheckChallenge(h)
    PROVE  StoreMove /\ IInv'
<1>0. StoreInv /\ Fits("challenge", call[h])
  BY Standing DEF CheckChallenge, At
<1>1. StoreMove
  BY <1>0, StoreStands DEF CheckChallenge
<1>2. Fits("ask", call[h]) /\ "ask" \in Steps
  BY <1>0 DEF Fits, SessionSteps, SignedIn, Administration, Steps
<1> QED
  BY <1>1, <1>2, GoToKeeps DEF CheckChallenge

LEMMA IssueChallengeKeeps ==
    ASSUME IInv, NEW h \in Handlers, IssueChallenge(h)
    PROVE  StoreMove /\ IInv'
<1>0. StoreInv /\ Fits("ask", call[h]) /\ User(h) \in Users /\ account[User(h)] # Null
  BY Standing DEF IssueChallenge, At
<1>1. call[h].password \in Passwords
  BY <1>0 DEF Fits
<1>2. StoreMove
  BY <1>0, <1>1, InsertChallengeMoves DEF IssueChallenge
<1> QED
  BY <1>2, FinishKeeps DEF IssueChallenge

-----------------------------------------------------------------------------
(* A session is opened *)

LEMMA CheckActiveKeeps ==
    ASSUME IInv, NEW h \in Handlers, CheckActive(h)
    PROVE  StoreMove /\ IInv'
<1>0. StoreInv /\ Fits("create", call[h]) /\ User(h) \in Users
  BY Standing DEF CheckActive, At
<1>1. StoreMove
  BY <1>0, ReadUserMoves DEF CheckActive
<1>2. Fits("insert", call[h]) /\ "insert" \in Steps
  BY <1>0 DEF Fits, SessionSteps, SignedIn, Administration, Steps
<1>3. call[h].op = "verify_login" => Passed(h)
  BY DEF Passed, CheckActive, At
<1>4. GoTo(h, "insert") \/ Finish(h)
  BY GoToIfIs DEF CheckActive
<1> QED
  BY <1>1, <1>2, <1>3, <1>4, GoToKeeps, FinishKeeps

LEMMA CreateSessionKeeps ==
    ASSUME IInv, NEW h \in Handlers, CreateSession(h)
    PROVE  StoreMove /\ IInv'
<1>0. /\ StoreInv /\ call[h] \in Calls /\ Fits("insert", call[h])
      /\ User(h) \in Users /\ account[User(h)] # Null /\ At(h, "insert")
  BY Standing DEF CreateSession, At
<1>1. PICK s \in Sessions :
        /\ InsertSession(s, User(h), call[h].password, call[h].salt, call[h].item)
        /\ call' = [call EXCEPT ![h].at = "record", ![h].session = s]
  BY DEF CreateSession
<1>2. PICK c \in Calls :
        /\ c.at = "record" /\ c.op = call[h].op /\ c.user = User(h)
        /\ c.item = call[h].item /\ c.session = s
        /\ call' = [call EXCEPT ![h] = c]
  <2> DEFINE c == [call[h] EXCEPT !.at = "record", !.session = s]
  <2>1. /\ c \in Calls /\ c.at = "record" /\ c.op = call[h].op /\ c.user = User(h)
        /\ c.item = call[h].item /\ c.session = s
    BY <1>0, ZenonT(60) DEF Calls, Steps, User
  <2>2. call' = [call EXCEPT ![h] = c]
    BY <1>1
  <2> HIDE DEF c
  <2> QED
    BY <2>1, <2>2
<1> DEFINE k == call[h].item
<1>3. call' = [call EXCEPT ![h] = c]
  BY <1>2
<1>4. At(h, "record")'
  BY <1>2, <1>3 DEF IInv, CallsOK, At
<1>5. call[h].password \in Passwords /\ k \in Challenges \cup {Null} /\ call[h].salt \in Nat
  BY <1>0 DEF Fits, Calls
<1>6. /\ StoreMove
      /\ session[s] = Null /\ session'[s] # Null
      /\ session'[s].user = User(h) /\ session'[s].challenge = k
      /\ \A x \in Sessions \ {s} : session'[x] = session[x]
  BY <1>0, <1>1, <1>4, <1>5, InsertSessionMoves
<1>7. challenge' = challenge /\ account' = account
  BY <1>1 DEF InsertSession
<1>8. Fits("record", c)'
  BY <1>0, <1>2, <1>6, <1>7 DEF Fits, SessionSteps, SignedIn, Administration, Registered
<1>9. /\ call' \in [Handlers -> Calls] /\ call'[h] = c
      /\ \A g \in Handlers \ {h} : call'[g] = call[g]
      /\ Persist /\ StoreInv' /\ CallsOK' /\ HeldInv'
  BY <1>2, <1>3, <1>6, <1>8, RequestFits
<1>10. RefreshInv'
  <2>1. call'[h].op # "refresh"
    BY <1>0, <1>2, <1>9 DEF Fits
  <2> QED
    BY <1>9, <2>1, RefreshKeep
<1>11. PassedInv'
  <2>1. /\ \A x \in Sessions : session[x] # Null /\ k # Null => session[x].challenge # k
        /\ k # Null => Answered(k)
    BY <1>0 DEF Fits, Passed, At, IInv, PassedInv
  <2>2. \A g \in Handlers \ {h} : Passed(g) => call[g].item # k
    <3>1. \A g \in Handlers : Passed(g) => call[g].item # Null
      BY StoreAssumption, ServiceAssumption DEF Passed, IInv, CallsOK, CallOK, Fits
    <3> QED
      BY <1>0, <3>1 DEF Fits, Passed, At, IInv, PassedInv
  <2>3. OneSessionPerChallenge'
    BY <1>6, <2>1 DEF OneSessionPerChallenge, IInv, PassedInv
  <2>4. \A x \in Sessions : session'[x] # Null /\ session'[x].challenge # Null =>
            challenge[session'[x].challenge] # Null
            /\ challenge[session'[x].challenge].status = "consumed"
    BY <1>6, <2>1 DEF IInv, PassedInv, Answered
  <2>5. ~Passed(h)' /\ \A g \in Handlers \ {h} : Passed(g)' => Passed(g) /\ call'[g].item = call[g].item
    BY <1>2, <1>9 DEF Passed
  <2>6. ASSUME NEW g \in Handlers, Passed(g)'
        PROVE  /\ Passed(g) /\ g # h /\ call'[g].item = call[g].item
               /\ challenge[call[g].item] # Null /\ challenge[call[g].item].status = "consumed"
               /\ \A x \in Sessions : session'[x] # Null => session'[x].challenge # call[g].item
    BY <1>6, <2>2, <2>5, <2>6 DEF IInv, PassedInv, Answered
  <2>7. \A h1, h2 \in Handlers :
            Passed(h1)' /\ Passed(h2)' /\ call'[h1].item = call'[h2].item => h1 = h2
    BY <2>6 DEF IInv, PassedInv
  <2> QED
    BY <1>7, <2>3, <2>4, <2>6, <2>7 DEF PassedInv, Answered
<1> QED
  BY <1>6, <1>9, <1>10, <1>11 DEF IInv

LEMMA LoginSucceedsKeeps ==
    ASSUME IInv, NEW h \in Handlers, LoginSucceeds(h)
    PROVE  StoreMove /\ IInv'
<1>0. StoreInv /\ Fits("record", call[h]) /\ User(h) \in Users
  BY Standing DEF LoginSucceeds, At
<1>1. StoreMove
  BY <1>0, RecordLoginSuccessMoves DEF LoginSucceeds
<1>2. Fits("reply", call[h]) /\ "reply" \in Steps
  BY <1>0 DEF Fits, SessionSteps, SignedIn, Administration, Steps
<1>3. ASSUME NEW s \in Sessions, call[h].session = s, SessionActive(s)'
      PROVE  Active(session[s].user)'
  <2>1. session[s] # Null /\ session[s].user = User(h) /\ Active(User(h))
    BY <1>0, <1>3 DEF Fits, SessionSteps, User, LoginSucceeds, RecordLoginSuccess
  <2> QED
    BY <1>0, <1>1, <1>3, <2>1, MovesPersist DEF Persist
<1> QED
  BY <1>1, <1>2, <1>3, GoToKeeps DEF LoginSucceeds

LEMMA LoginFailsKeeps ==
    ASSUME IInv, NEW h \in Handlers, LoginFails(h)
    PROVE  StoreMove /\ IInv'
<1>0. StoreInv /\ Fits("record", call[h])
  BY Standing DEF LoginFails, At
<1>1. StoreMove
  BY <1>0, StoreStands DEF LoginFails
<1>2. Fits("undo", call[h]) /\ "undo" \in Steps
  BY <1>0 DEF Fits, SessionSteps, SignedIn, Administration, Steps
<1> QED
  BY <1>1, <1>2, GoToKeeps DEF LoginFails

LEMMA UndoSessionKeeps ==
    ASSUME IInv, NEW h \in Handlers, UndoSession(h)
    PROVE  StoreMove /\ IInv'
<1>0. StoreInv /\ Fits("undo", call[h])
  BY Standing DEF UndoSession, At
<1>1. call[h].session \in Sessions /\ session[call[h].session] # Null
  BY <1>0 DEF Fits, SessionSteps
<1>2. StoreMove
  BY <1>0, <1>1, RevokeSessionMoves DEF UndoSession
<1> QED
  BY <1>2, FinishKeeps DEF UndoSession

LEMMA SendTokensKeeps ==
    ASSUME IInv, NEW h \in Handlers, SendTokens(h)
    PROVE  StoreMove /\ IInv'
<1>0. StoreInv /\ Fits("reply", call[h]) /\ At(h, "reply")
  BY Standing DEF SendTokens, At
<1>1. PICK s \in Sessions : s = call[h].session /\ session[s] # Null
  BY <1>0 DEF Fits, SessionSteps
<1>2. session[s] \in SessionRows
  BY <1>0, <1>1, StoreRows DEF StoreInv
<1> DEFINE n == [session[s] EXCEPT !.held = TRUE]
<1>3. /\ n \in SessionRows /\ n.user = session[s].user /\ n.password = session[s].password
      /\ n.salt = session[s].salt /\ n.challenge = session[s].challenge
      /\ n.late = session[s].late /\ n.refresh = session[s].refresh
      /\ n.status = session[s].status /\ session[s].refresh \in Nat
  BY <1>2 DEF SessionRows
<1>4. session' = [session EXCEPT ![s] = n]
  BY <1>1 DEF SendTokens
<1> HIDE DEF n
<1>5. SessionsMove
  <2>1. n.refresh >= session[s].refresh /\ (n.status = "active" => session[s].status = "active")
    BY <1>3
  <2> QED
    BY <1>0, <1>1, <1>3, <1>4, <2>1, OneSessionMoves
<1>6. StoreMove
  BY <1>0, <1>5, OtherTables DEF SendTokens
<1> QED
  BY <1>6, FinishKeeps DEF SendTokens

LEMMA DropKeeps ==
    ASSUME IInv, NEW h \in Handlers, Drop(h)
    PROVE  StoreMove /\ IInv'
<1>1. StoreMove
  BY Standing, StoreStands DEF Drop
<1> QED
  BY <1>1, FinishKeeps DEF Drop

LEMMA LoginStepKeeps ==
    ASSUME IInv, NEW h \in Handlers, LoginStep(h)
    PROVE  StoreMove /\ IInv'
BY RegisterKeeps, LoginKeeps, VerifyPasswordKeeps, CountFailureKeeps, ReadMaterialKeeps,
   CheckChallengeKeeps, IssueChallengeKeeps, CheckActiveKeeps, CreateSessionKeeps,
   LoginSucceedsKeeps, LoginFailsKeeps, UndoSessionKeeps, SendTokensKeeps, DropKeeps
DEF LoginStep

-----------------------------------------------------------------------------
(* The second factor *)

LEMMA FindChallengeKeeps ==
    ASSUME IInv, NEW h \in Handlers, FindChallenge(h)
    PROVE  StoreMove /\ IInv'
<1>0. StoreInv /\ StoreTypes /\ Known
  BY DEF IInv, StoreInv
<1>1. PICK k \in Challenges :
        /\ challenge[k] # Null
        /\ Accept(h, "verify_login", "factor",
                  [Idle EXCEPT !.user = challenge[k].user, !.item = k,
                               !.password = challenge[k].password])
  BY DEF FindChallenge
<1>2. StoreMove
  BY <1>0, StoreStands DEF FindChallenge
<1>3. /\ challenge[k].user \in Users /\ challenge[k].password \in Passwords
      /\ account[challenge[k].user] # Null
  BY <1>0, <1>1, StoreRows DEF ChallengeRows, Known, Registered
<1> DEFINE c == [[Idle EXCEPT !.user = challenge[k].user, !.item = k,
                              !.password = challenge[k].password]
                    EXCEPT !.at = "factor", !.op = "verify_login"]
<1>4. call' = [call EXCEPT ![h] = c]
  BY <1>1 DEF Accept
<1>5. /\ c \in Calls /\ c.at = "factor" /\ c.op = "verify_login"
      /\ c.user = challenge[k].user /\ c.item = k /\ c.password = challenge[k].password
  BY <1>3, IdleFields DEF Calls, Steps
<1> HIDE DEF c
<1>6. Fits("factor", c)
  BY <1>1, <1>3, <1>5, ServiceAssumption DEF Fits, SessionSteps, SignedIn, Administration, Registered
<1> QED
  BY <1>2, <1>4, <1>5, <1>6, AcceptKeeps

LEMMA CheckFactorKeeps ==
    ASSUME IInv, NEW h \in Handlers, CheckFactor(h)
    PROVE  StoreMove /\ IInv'
<1>0. /\ StoreInv /\ StoreTypes /\ call[h] \in Calls /\ Fits("factor", call[h])
      /\ User(h) \in Users /\ account[User(h)] # Null
  BY Standing DEF CheckFactor, At, StoreInv
<1>1. StoreMove
  BY <1>0, StoreStands DEF CheckFactor
<1>2. account[User(h)].salt \in Nat /\ account[User(h)].issued \in Nat
  BY <1>0, StoreRows DEF AccountRows
<1> DEFINE login == call[h].op = "verify_login"
           step == IF login THEN "complete" ELSE "consume"
<1>3. PICK p \in [kind : {"totp"}, n : {n \in 1..MaxCounter : n > account[User(h)].counter}]
                 \cup [kind : {"code"}, n : 1..account[User(h)].issued] :
        call' = [call EXCEPT ![h].proof = p, ![h].salt = account[User(h)].salt, ![h].at = step]
  BY DEF CheckFactor
<1>4. p \in Proofs /\ p.n \in Nat
  BY <1>2, StoreAssumption DEF Proofs
<1> DEFINE c == [call[h] EXCEPT !.proof = p, !.salt = account[User(h)].salt, !.at = step]
<1>5. call' = [call EXCEPT ![h] = c]
  BY <1>3
<1>6. step \in Steps /\ step \in {"complete", "consume"}
  BY DEF Steps
<1>7. (step = "complete" => call[h].op = "verify_login") /\ (step = "consume" => call[h].op # "verify_login")
  OBVIOUS
<1> HIDE DEF step
<1>8. /\ c \in Calls /\ c.at = step /\ c.op = call[h].op /\ c.user = call[h].user
      /\ c.item = call[h].item /\ c.password = call[h].password /\ c.proof = p
  BY <1>0, <1>2, <1>4, <1>6 DEF Calls
<1> HIDE DEF c
<1>9. Fits(step, c) /\ c.op # "refresh"
  BY <1>0, <1>4, <1>6, <1>7, <1>8 DEF Fits, SessionSteps, SignedIn, Administration
<1> QED
  BY <1>1, <1>5, <1>6, <1>8, <1>9, RequestKeeps

LEMMA CompleteLoginKeeps ==
    ASSUME IInv, NEW h \in Handlers, CompleteLogin(h)
    PROVE  StoreMove /\ IInv'
<1>0. /\ StoreInv /\ StoreTypes /\ call[h] \in Calls /\ Fits("complete", call[h])
  BY Standing DEF CompleteLogin, At, StoreInv
<1>1. PICK k \in Challenges : k = call[h].item /\ challenge[k] # Null
  BY <1>0 DEF Fits
<1>2. /\ challenge[k].status = "active"
      /\ challenge' = [challenge EXCEPT ![k].status = "consumed"]
      /\ session' = session
  BY <1>1 DEF CompleteLogin, CompleteTwoFactorChallenge
<1>3. StoreMove
  BY <1>0, <1>1, CompleteTwoFactorChallengeMoves DEF CompleteLogin, Fits
<1>4. PICK c \in Calls :
        /\ c.at = "create" /\ c.op = call[h].op /\ c.item = k /\ Fits("create", c)
        /\ call' = [call EXCEPT ![h] = c]
  <2> DEFINE c == [call[h] EXCEPT !.at = "create"]
  <2>1. "create" \in Steps /\ Fits("create", call[h])
    BY <1>0 DEF Fits, Steps, SessionSteps, SignedIn, Administration
  <2>2. /\ c \in Calls /\ c.at = "create" /\ c.op = call[h].op /\ c.item = call[h].item
        /\ Fits("create", c)
    BY <1>0, <2>1, RequestTypes
  <2>3. call' = [call EXCEPT ![h] = c]
    BY DEF CompleteLogin, GoTo
  <2> HIDE DEF c
  <2> QED
    BY <1>1, <2>2, <2>3
<1>5. /\ call' \in [Handlers -> Calls] /\ call'[h] = c
      /\ \A g \in Handlers \ {h} : call'[g] = call[g]
      /\ Persist /\ StoreInv' /\ CallsOK' /\ HeldInv'
  BY <1>3, <1>4, RequestFits
<1>6. RefreshInv'
  <2>1. call'[h].op # "refresh"
    BY <1>0, <1>4, <1>5 DEF Fits
  <2> QED
    BY <1>5, <2>1, RefreshKeep
<1>7. PassedInv'
  <2>1. challenge[k] \in ChallengeRows
    BY <1>0, <1>1, StoreRows
  <2>2. Answered(k)'
    <3>1. challenge'[k] = [challenge[k] EXCEPT !.status = "consumed"]
      BY <1>0, <1>2 DEF StoreTypes, ChallengeTable
    <3>2. challenge'[k].status = "consumed"
      BY <2>1, <3>1 DEF ChallengeRows
    <3> QED
      BY <1>1, <1>5, <3>2 DEF Answered, Persist
  <2>3. ~Answered(k)
    BY <1>2 DEF Answered
  <2>4. \A x \in Challenges : Answered(x) => Answered(x)'
    BY <1>5 DEF Answered, Persist
  <2>5. \A s \in Sessions : session[s] # Null => session[s].challenge # k
    BY <1>1, <2>3, StoreAssumption DEF IInv, PassedInv
  <2>6. \A g \in Handlers \ {h} : Passed(g)' => Passed(g) /\ call'[g] = call[g] /\ call[g].item # k
    BY <1>5, <2>3 DEF Passed, IInv, PassedInv
  <2>7. OneSessionPerChallenge'
    BY <1>2 DEF OneSessionPerChallenge, IInv, PassedInv
  <2>8. ASSUME NEW s \in Sessions, session[s] # Null, session[s].challenge # Null
        PROVE  challenge'[session[s].challenge] # Null
               /\ challenge'[session[s].challenge].status = "consumed"
    <3>1. PICK x \in Challenges : x = session[s].challenge
      BY <1>0, <2>8, StoreRows DEF SessionRows
    <3>2. Answered(x)
      BY <2>8, <3>1 DEF IInv, PassedInv
    <3> QED
      BY <2>4, <3>1, <3>2 DEF Answered
  <2>9. ASSUME NEW g \in Handlers, Passed(g)'
        PROVE  /\ challenge'[call'[g].item] # Null
               /\ challenge'[call'[g].item].status = "consumed"
               /\ \A s \in Sessions : session'[s] # Null => session'[s].challenge # call'[g].item
    <3>1. CASE g = h
      BY <1>2, <1>4, <1>5, <2>2, <2>5, <3>1 DEF Answered
    <3>2. CASE g # h
      <4>1. PICK x \in Challenges : x = call[g].item
        BY <2>6, <2>9, <3>2, ServiceAssumption DEF Passed, IInv, CallsOK, CallOK, Fits
      <4>2. Answered(x) /\ \A s \in Sessions : session[s] # Null => session[s].challenge # x
        BY <2>6, <2>9, <3>2, <4>1 DEF IInv, PassedInv
      <4>3. call'[g].item = x
        BY <2>6, <2>9, <3>2, <4>1
      <4> QED
        BY <1>2, <2>4, <4>2, <4>3 DEF Answered
    <3> QED
      BY <3>1, <3>2
  <2>10. \A h1, h2 \in Handlers :
             Passed(h1)' /\ Passed(h2)' /\ call'[h1].item = call'[h2].item => h1 = h2
    BY <1>4, <1>5, <2>6 DEF IInv, PassedInv
  <2> QED
    BY <1>2, <2>7, <2>8, <2>9, <2>10 DEF PassedInv, Answered
<1> QED
  BY <1>3, <1>5, <1>6, <1>7 DEF IInv

LEMMA ConsumeProofKeeps ==
    ASSUME IInv, NEW h \in Handlers, ConsumeProof(h)
    PROVE  StoreMove /\ IInv'
<1>0. StoreInv /\ Fits("consume", call[h]) /\ User(h) \in Users
  BY Standing DEF ConsumeProof, At
<1>1. StoreMove
  BY <1>0, ConsumeTwoFactorProofMoves DEF ConsumeProof, Fits
<1>2. Fits("apply", call[h]) /\ "apply" \in Steps
  BY <1>0 DEF Fits, SessionSteps, SignedIn, Administration, Steps
<1> QED
  BY <1>1, <1>2, GoToKeeps DEF ConsumeProof

LEMMA ApplyProtectedChangeKeeps ==
    ASSUME IInv, NEW h \in Handlers, ApplyProtectedChange(h)
    PROVE  StoreMove /\ IInv'
<1>0. StoreInv /\ User(h) \in Users
  BY Standing DEF ApplyProtectedChange, At
<1>1. StoreMove
  BY <1>0, DisableTwoFactorMoves, ReplaceRecoveryCodesMoves DEF ApplyProtectedChange
<1> QED
  BY <1>1, FinishKeeps DEF ApplyProtectedChange

LEMMA SetUpTwoFactorKeeps ==
    ASSUME IInv, NEW h \in Handlers, SetUpTwoFactor(h)
    PROVE  StoreMove /\ IInv'
<1>1. StoreMove
  BY Standing, StartTwoFactorSetupMoves DEF SetUpTwoFactor, At
<1> QED
  BY <1>1, FinishKeeps DEF SetUpTwoFactor

LEMMA ReadPendingSaltKeeps ==
    ASSUME IInv, NEW h \in Handlers, ReadPendingSalt(h)
    PROVE  StoreMove /\ IInv'
<1>0. /\ StoreInv /\ StoreTypes /\ call[h] \in Calls /\ Fits("enable_2fa", call[h])
      /\ User(h) \in Users /\ account[User(h)] # Null
  BY Standing DEF ReadPendingSalt, At, StoreInv
<1>1. StoreMove
  BY <1>0, StoreStands DEF ReadPendingSalt
<1>2. account[User(h)].pending \in Nat
  BY <1>0, StoreRows DEF AccountRows
<1>3. PICK n \in 1..MaxCounter :
        call' = [call EXCEPT ![h].salt = account[User(h)].pending,
                             ![h].proof = [kind |-> "totp", n |-> n], ![h].at = "enable"]
  BY DEF ReadPendingSalt
<1> DEFINE p == [kind |-> "totp", n |-> n]
           c == [call[h] EXCEPT !.salt = account[User(h)].pending, !.proof = p, !.at = "enable"]
<1>4. p \in Proofs /\ p.n \in Nat
  BY StoreAssumption DEF Proofs
<1>5. call' = [call EXCEPT ![h] = c]
  BY <1>3
<1> HIDE DEF p
<1>6. /\ c \in Calls /\ c.at = "enable" /\ c.op = call[h].op /\ c.user = call[h].user
      /\ c.proof = p
  <2>1. "enable" \in Steps
    BY DEF Steps
  <2> QED
    BY <1>0, <1>2, <1>4, <2>1 DEF Calls
<1> HIDE DEF c
<1>7. Fits("enable", c) /\ c.op # "refresh"
  BY <1>0, <1>4, <1>6 DEF Fits, SessionSteps, SignedIn, Administration
<1> QED
  BY <1>1, <1>5, <1>6, <1>7, RequestKeeps

LEMMA ConfirmTwoFactorKeeps ==
    ASSUME IInv, NEW h \in Handlers, ConfirmTwoFactor(h)
    PROVE  StoreMove /\ IInv'
<1>0. /\ StoreInv /\ call[h] \in Calls /\ Fits("enable", call[h]) /\ User(h) \in Users
  BY Standing DEF ConfirmTwoFactor, At
<1>1. call[h].salt \in Nat /\ call[h].proof.n \in Nat
  BY <1>0 DEF Calls, Fits
<1>2. StoreMove
  BY <1>0, <1>1, EnableTwoFactorMoves DEF ConfirmTwoFactor
<1> QED
  BY <1>2, FinishKeeps DEF ConfirmTwoFactor

LEMMA FactorStepKeeps ==
    ASSUME IInv, NEW h \in Handlers, FactorStep(h)
    PROVE  StoreMove /\ IInv'
BY FindChallengeKeeps, CheckFactorKeeps, CompleteLoginKeeps, ConsumeProofKeeps,
   ApplyProtectedChangeKeeps, SetUpTwoFactorKeeps, ReadPendingSaltKeeps, ConfirmTwoFactorKeeps
DEF FactorStep

-----------------------------------------------------------------------------
(* Refresh and the operations of a signed-in account *)

LEMMA RefreshKeeps ==
    ASSUME IInv, NEW h \in Handlers, Refresh(h)
    PROVE  StoreMove /\ IInv'
<1>0. StoreInv /\ StoreTypes /\ Known
  BY DEF IInv, StoreInv
<1>1. PICK s \in Sessions, current \in Nat :
        /\ session[s] # Null /\ session[s].refresh = current
        /\ RotateRefreshToken(s, current)
        /\ Accept(h, "refresh", "refreshed",
                  [Idle EXCEPT !.user = session[s].user, !.session = s, !.item = current])
  <2>1. PICK s \in Sessions :
          /\ session[s] # Null
          /\ \E current \in 0..session[s].refresh :
                /\ RotateRefreshToken(s, current)
                /\ Accept(h, "refresh", "refreshed",
                          [Idle EXCEPT !.user = session[s].user, !.session = s, !.item = current])
    BY DEF Refresh
  <2>2. session[s].refresh \in Nat
    BY <1>0, <2>1, StoreRows DEF SessionRows
  <2> QED
    BY <2>1, <2>2 DEF RotateRefreshToken
<1>2. StoreMove /\ session'[s].refresh = current + 1
  BY <1>0, <1>1, RotateRefreshTokenMoves
<1>3. session[s].user \in Users /\ account[session[s].user] # Null
  BY <1>0, <1>1, StoreRows DEF Known, Registered
<1>4. PICK c \in Calls :
        /\ c.at = "refreshed" /\ c.op = "refresh" /\ c.user = session[s].user
        /\ c.session = s /\ c.item = current
        /\ call' = [call EXCEPT ![h] = c]
  <2> DEFINE c == [[Idle EXCEPT !.user = session[s].user, !.session = s, !.item = current]
                      EXCEPT !.at = "refreshed", !.op = "refresh"]
  <2>1. call' = [call EXCEPT ![h] = c]
    BY <1>1 DEF Accept
  <2>2. /\ c \in Calls /\ c.at = "refreshed" /\ c.op = "refresh" /\ c.user = session[s].user
        /\ c.session = s /\ c.item = current
    BY <1>3, IdleFields DEF Calls, Steps
  <2> HIDE DEF c
  <2> QED
    BY <2>1, <2>2
<1>5. Fits("refreshed", c)
  BY <1>1, <1>3, <1>4, ServiceAssumption DEF Fits, SessionSteps, SignedIn, Administration, Registered
<1>6. /\ call' \in [Handlers -> Calls] /\ call'[h] = c
      /\ \A g \in Handlers \ {h} : call'[g] = call[g]
      /\ Persist /\ StoreInv' /\ CallsOK' /\ HeldInv'
  BY <1>2, <1>4, <1>5, RequestFits
<1>7. PassedInv'
  <2>1. \A x \in Sessions : session[x] = Null => session'[x] = Null
    <3>1. \A g \in Handlers : ~(At(g, "insert") /\ At(g, "record")')
      BY <1>4, <1>6 DEF At
    <3> QED
      BY <1>2, <3>1 DEF StoreMove, SessionsMove, SessionMove
  <2>2. ~Passed(h)'
    BY <1>4, <1>6 DEF Passed
  <2> QED
    BY <1>6, <2>1, <2>2, PassedKeep
<1>8. ASSUME NEW g \in Handlers, g # h, call[g].op = "refresh"
      PROVE  /\ call[g].item < session'[call[g].session].refresh
             /\ call[g].session = s => call[g].item # current
  <2>1. PICK x \in Sessions : x = call[g].session /\ session[x] # Null
    BY <1>8 DEF IInv, CallsOK, CallOK, Fits, SessionSteps
  <2>2. call[g].item \in Nat /\ call[g].item < session[x].refresh
    BY <1>8, <2>1 DEF IInv, CallsOK, CallOK, Fits, RefreshInv
  <2>3. session[x].refresh \in Nat /\ session'[x].refresh \in Nat
        /\ session'[x].refresh >= session[x].refresh
    <3>1. session[x] \in SessionRows
      BY <1>0, <2>1, StoreRows
    <3>2. session'[x] \in SessionRows \cup {Null} /\ session'[x] # Null
      BY <1>6, <2>1 DEF StoreInv, StoreTypes, SessionTable, Persist
    <3> QED
      BY <1>6, <2>1, <3>1, <3>2 DEF SessionRows, Persist
  <2> QED
    BY <1>1, <2>1, <2>2, <2>3
<1>9. RefreshInv'
  <2>1. RefreshTokenUsedOnce'
    BY <1>4, <1>6, <1>8 DEF RefreshTokenUsedOnce, IInv, RefreshInv
  <2>2. ASSUME NEW g \in Handlers, call'[g].op = "refresh"
        PROVE  call'[g].item < session'[call'[g].session].refresh
    BY <1>2, <1>4, <1>6, <1>8, <2>2
  <2> QED
    BY <2>1, <2>2 DEF RefreshInv
<1> QED
  BY <1>2, <1>6, <1>7, <1>9 DEF IInv

LEMMA RefreshChecksUserKeeps ==
    ASSUME IInv, NEW h \in Handlers, RefreshChecksUser(h)
    PROVE  StoreMove /\ IInv'
<1>0. /\ StoreInv /\ StoreTypes /\ Fits("refreshed", call[h])
      /\ User(h) \in Users /\ account[User(h)] # Null
  BY Standing DEF RefreshChecksUser, At, StoreInv
<1>1. StoreMove
  BY <1>0, ReadUserMoves DEF RefreshChecksUser
<1>2. /\ Fits("reply", call[h]) /\ Fits("undo", call[h])
      /\ {"reply", "undo"} \subseteq Steps
  BY <1>0 DEF Fits, SessionSteps, SignedIn, Administration, Steps
<1>3. CASE Unlocked(account[User(h)]).status = "active"
  <2>1. GoTo(h, "reply")
    BY <1>3 DEF RefreshChecksUser
  <2>2. ASSUME NEW s \in Sessions, call[h].session = s PROVE Active(session[s].user)'
    <3>1. session[s] # Null /\ session[s].user = User(h)
      BY <1>0, <2>2 DEF Fits, SessionSteps, User
    <3>2. session'[s].user = User(h)
      BY <3>1 DEF RefreshChecksUser, ReadUser
    <3>3. account'[User(h)] = Unlocked(account[User(h)])
      BY <1>0 DEF RefreshChecksUser, ReadUser, StoreTypes, AccountTable
    <3>4. account'[User(h)] # Null
      BY <1>0, <3>3, UnlockedRow, StoreRows, StoreAssumption
    <3> QED
      BY <1>3, <3>2, <3>3, <3>4 DEF Active, Registered
  <2> QED
    BY <1>1, <1>2, <2>1, <2>2, GoToKeeps
<1>4. CASE Unlocked(account[User(h)]).status # "active"
  BY <1>1, <1>2, <1>4, GoToKeeps DEF RefreshChecksUser
<1> QED
  BY <1>3, <1>4

LEMMA AuthenticateKeeps ==
    ASSUME IInv, NEW h \in Handlers, Authenticate(h)
    PROVE  StoreMove /\ IInv'
<1>0. StoreInv /\ StoreTypes /\ Known
  BY DEF IInv, StoreInv
<1>1. StoreMove
  BY <1>0, StoreStands DEF Authenticate
<1>2. PICK s \in Sessions, op \in SignedIn \cup Administration :
        /\ session[s] # Null
        /\ Accept(h, op, "principal", [Idle EXCEPT !.user = session[s].user, !.session = s])
  BY DEF Authenticate, SessionActive
<1>3. session[s].user \in Users /\ account[session[s].user] # Null
  BY <1>0, <1>2, StoreRows DEF Known, Registered
<1> DEFINE c == [[Idle EXCEPT !.user = session[s].user, !.session = s]
                    EXCEPT !.at = "principal", !.op = op]
<1>4. call' = [call EXCEPT ![h] = c]
  BY <1>2 DEF Accept
<1>5. /\ c \in Calls /\ c.at = "principal" /\ c.op = op /\ c.user = session[s].user
      /\ c.session = s
  <2>1. "principal" \in Steps
    BY DEF Steps
  <2> QED
    BY <1>3, <2>1, IdleFields DEF Calls
<1> HIDE DEF c
<1>6. op # "refresh"
  BY DEF SignedIn, Administration
<1>7. Fits("principal", c)
  BY <1>2, <1>3, <1>5, <1>6 DEF Fits, SessionSteps, Registered
<1> QED
  BY <1>1, <1>4, <1>5, <1>6, <1>7, AcceptKeeps

LEMMA ReadPrincipalKeeps ==
    ASSUME IInv, NEW h \in Handlers, ReadPrincipal(h)
    PROVE  StoreMove /\ IInv'
<1>0. StoreInv /\ Fits("principal", call[h]) /\ User(h) \in Users
  BY Standing DEF ReadPrincipal, At
<1>1. StoreMove
  BY <1>0, ReadUserMoves DEF ReadPrincipal
<1> DEFINE step == IF call[h].op \in {"setup_2fa", "disable_2fa", "regenerate"}
                   THEN "confirm" ELSE call[h].op
<1>2. call[h].op \in SignedIn \cup Administration
  BY <1>0 DEF Fits
<1>3. step \in {"confirm"} \cup SignedIn \cup Administration
  BY <1>2
<1>4. step = "confirm" => call[h].op \in {"setup_2fa", "disable_2fa", "regenerate"}
  BY <1>2 DEF SignedIn, Administration
<1>5. GoTo(h, step) \/ Finish(h)
  BY GoToIfIs DEF ReadPrincipal
<1> HIDE DEF step
<1>6. Fits(step, call[h])
  BY <1>0, <1>2, <1>3, <1>4 DEF Fits, SessionSteps, SignedIn, Administration
<1>7. step \in Steps /\ step \notin {"record", "reply", "create", "insert"}
  BY <1>3 DEF Steps, SignedIn, Administration
<1> QED
  BY <1>1, <1>5, <1>6, <1>7, GoToKeeps, FinishKeeps

LEMMA ConfirmPasswordKeeps ==
    ASSUME IInv, NEW h \in Handlers, ConfirmPassword(h)
    PROVE  StoreMove /\ IInv'
<1>0. StoreInv /\ Fits("confirm", call[h]) /\ User(h) \in Users
  BY Standing DEF ConfirmPassword, At
<1>1. StoreMove
  BY <1>0, ReadUserMoves DEF ConfirmPassword
<1> DEFINE step == IF call[h].op = "setup_2fa" THEN "setup_2fa" ELSE "factor"
<1>2. step \in {"setup_2fa", "factor"} /\ (step = "factor" => call[h].op # "setup_2fa")
  OBVIOUS
<1>3. GoTo(h, step) \/ Finish(h)
  BY GoToIfIs DEF ConfirmPassword
<1> HIDE DEF step
<1>4. Fits(step, call[h])
  BY <1>0, <1>2 DEF Fits, SessionSteps, SignedIn, Administration
<1>5. step \in Steps /\ step \notin {"record", "reply", "create", "insert"}
  BY <1>2 DEF Steps, SignedIn
<1> QED
  BY <1>1, <1>3, <1>4, <1>5, GoToKeeps, FinishKeeps

LEMMA LogoutKeeps ==
    ASSUME IInv, NEW h \in Handlers, Logout(h)
    PROVE  StoreMove /\ IInv'
<1>0. StoreInv /\ Fits("logout", call[h])
  BY Standing DEF Logout, At
<1>1. call[h].session \in Sessions /\ session[call[h].session] # Null
  BY <1>0 DEF Fits, SessionSteps, SignedIn
<1>2. StoreMove
  BY <1>0, <1>1, RevokeSessionMoves DEF Logout
<1> QED
  BY <1>2, FinishKeeps DEF Logout

LEMMA RevokeOneSessionKeeps ==
    ASSUME IInv, NEW h \in Handlers, RevokeOneSession(h)
    PROVE  StoreMove /\ IInv'
<1>1. StoreMove
  BY RevokeSessionMoves DEF RevokeOneSession, RevokeUserSession, IInv
<1> QED
  BY <1>1, FinishKeeps DEF RevokeOneSession

LEMMA LogoutAllKeeps ==
    ASSUME IInv, NEW h \in Handlers, LogoutAll(h)
    PROVE  StoreMove /\ IInv'
<1>1. StoreMove
  BY Standing, RevokeAllSessionsMoves DEF LogoutAll, At
<1> QED
  BY <1>1, FinishKeeps DEF LogoutAll

LEMMA ChangesPasswordKeeps ==
    ASSUME IInv, NEW h \in Handlers, ChangesPassword(h)
    PROVE  StoreMove /\ IInv'
<1>1. StoreMove
  BY Standing, ChangePasswordMoves DEF ChangesPassword, At
<1> QED
  BY <1>1, FinishKeeps DEF ChangesPassword

LEMMA SessionStepKeeps ==
    ASSUME IInv, NEW h \in Handlers, SessionStep(h)
    PROVE  StoreMove /\ IInv'
BY RefreshKeeps, RefreshChecksUserKeeps, AuthenticateKeeps, ReadPrincipalKeeps,
   ConfirmPasswordKeeps, LogoutKeeps, RevokeOneSessionKeeps, LogoutAllKeeps,
   ChangesPasswordKeeps
DEF SessionStep

-----------------------------------------------------------------------------
(* Mailed tokens *)

LEMMA ReadUnverifiedKeeps ==
    ASSUME IInv, NEW h \in Handlers, ReadUnverified(h)
    PROVE  StoreMove /\ IInv'
<1>0. StoreInv /\ Fits("request_verification", call[h]) /\ User(h) \in Users
  BY Standing DEF ReadUnverified, At
<1>1. StoreMove
  BY <1>0, ReadUserMoves DEF ReadUnverified
<1>2. Fits("token", call[h]) /\ "token" \in Steps
  BY <1>0 DEF Fits, SessionSteps, SignedIn, Administration, Steps
<1>3. GoTo(h, "token") \/ Finish(h)
  BY GoToIfIs DEF ReadUnverified
<1> QED
  BY <1>1, <1>2, <1>3, GoToKeeps, FinishKeeps

LEMMA ForgotPasswordKeeps ==
    ASSUME IInv, NEW h \in Handlers, ForgotPassword(h)
    PROVE  StoreMove /\ IInv'
<1>1. PICK u \in Users : /\ ReadUser(u)
                         /\ Accept(h, "forgot", "token", [Idle EXCEPT !.user = u])
  BY DEF ForgotPassword
<1>2. StoreMove
  BY <1>1, ReadUserMoves DEF IInv
<1> DEFINE c == [[Idle EXCEPT !.user = u] EXCEPT !.at = "token", !.op = "forgot"]
<1>3. call' = [call EXCEPT ![h] = c]
  BY <1>1 DEF Accept
<1>4. c \in Calls /\ c.at = "token" /\ c.op = "forgot" /\ c.user = u
  BY IdleFields DEF Calls, Steps
<1> HIDE DEF c
<1>5. Fits("token", c)
  BY <1>1, <1>4 DEF Fits, ReadUser, SessionSteps, SignedIn, Administration
<1> QED
  BY <1>2, <1>3, <1>4, <1>5, AcceptKeeps

LEMMA CheckTokenKeeps ==
    ASSUME IInv, NEW h \in Handlers, CheckToken(h)
    PROVE  StoreMove /\ IInv'
<1>0. StoreInv /\ Fits("token", call[h]) /\ User(h) \in Users
  BY Standing DEF CheckToken, At
<1>1. StoreMove
  BY <1>0, ReadUserMoves DEF CheckToken
<1>2. Fits("issue", call[h]) /\ "issue" \in Steps
  BY <1>0 DEF Fits, SessionSteps, SignedIn, Administration, Steps
<1>3. GoTo(h, "issue") \/ Finish(h)
  BY GoToIfIs DEF CheckToken
<1> QED
  BY <1>1, <1>2, <1>3, GoToKeeps, FinishKeeps

LEMMA IssueTokenKeeps ==
    ASSUME IInv, NEW h \in Handlers, IssueToken(h)
    PROVE  StoreMove /\ IInv'
<1>0. /\ StoreInv /\ call[h] \in Calls /\ Fits("issue", call[h])
      /\ User(h) \in Users /\ account[User(h)] # Null
  BY Standing DEF IssueToken, At
<1>1. PICK t \in Tokens :
        /\ InsertToken(t, User(h), Purpose(h))
        /\ call' = [call EXCEPT ![h].at = "mail", ![h].item = t]
  BY DEF IssueToken
<1>2. StoreMove /\ token'[t] # Null
  BY <1>0, <1>1, InsertTokenMoves DEF Purpose, Purposes
<1>3. PICK c \in Calls :
        /\ c.at = "mail" /\ c.op = call[h].op /\ c.user = User(h) /\ c.item = t
        /\ call' = [call EXCEPT ![h] = c]
  <2> DEFINE c == [call[h] EXCEPT !.at = "mail", !.item = t]
  <2>1. /\ c \in Calls /\ c.at = "mail" /\ c.op = call[h].op /\ c.user = User(h) /\ c.item = t
    BY <1>0 DEF Calls, Steps, User
  <2>2. call' = [call EXCEPT ![h] = c]
    BY <1>1
  <2> HIDE DEF c
  <2> QED
    BY <2>1, <2>2
<1>4. c.op # "refresh"
  BY <1>0, <1>3 DEF Fits
<1>5. account'[c.user] # Null
  BY <1>0, <1>1, <1>3 DEF InsertToken
<1>6. Fits("mail", c)'
  BY <1>0, <1>2, <1>3, <1>4, <1>5 DEF Fits, SessionSteps, SignedIn, Administration, Registered
<1>7. Fits(c.at, c)'
  BY <1>3, <1>6
<1> QED
  BY <1>2, <1>3, <1>4, <1>7, RequestKeeps

LEMMA MailTokenKeeps ==
    ASSUME IInv, NEW h \in Handlers, MailToken(h)
    PROVE  StoreMove /\ IInv'
<1>0. StoreInv /\ StoreTypes /\ Fits("mail", call[h])
  BY Standing DEF MailToken, At, StoreInv
<1>1. PICK t \in Tokens : t = call[h].item /\ token[t] # Null
  BY <1>0 DEF Fits
<1>2. CASE /\ token' = [token EXCEPT ![call[h].item].sent = TRUE]
           /\ Finish(h)
           /\ UNCHANGED <<account, session, challenge>>
  <2>1. token[t] \in TokenRows
    BY <1>0, <1>1, StoreRows
  <2> DEFINE n == [token[t] EXCEPT !.sent = TRUE]
  <2>2. /\ n \in TokenRows /\ n.user = token[t].user /\ n.purpose = token[t].purpose
        /\ n.status = token[t].status
    BY <2>1 DEF TokenRows
  <2>3. token' = [token EXCEPT ![t] = n]
    BY <1>1, <1>2
  <2> HIDE DEF n
  <2>4. UNCHANGED <<account, session, challenge>> /\ (n.status = "active" => token[t].status = "active")
    BY <1>2, <2>2
  <2>5. StoreMove
    BY <1>0, <1>1, <2>2, <2>3, <2>4, OneTokenMoves
  <2> QED
    BY <1>2, <2>5, FinishKeeps
<1>3. CASE GoTo(h, "unsent") /\ UNCHANGED storeVars
  <2>1. StoreMove
    BY <1>0, <1>3, StoreStands
  <2>2. Fits("unsent", call[h]) /\ "unsent" \in Steps
    BY <1>0 DEF Fits, SessionSteps, SignedIn, Administration, Steps
  <2> QED
    BY <1>3, <2>1, <2>2, GoToKeeps
<1> QED
  BY <1>2, <1>3 DEF MailToken

LEMMA WithdrawTokenKeeps ==
    ASSUME IInv, NEW h \in Handlers, WithdrawToken(h)
    PROVE  StoreMove /\ IInv'
<1>0. StoreInv /\ Fits("unsent", call[h])
  BY Standing DEF WithdrawToken, At
<1>1. call[h].item \in Tokens /\ token[call[h].item] # Null
  BY <1>0 DEF Fits
<1>2. StoreMove
  BY <1>0, <1>1, RevokeTokenMoves DEF WithdrawToken
<1> QED
  BY <1>2, FinishKeeps DEF WithdrawToken

LEMMA TokenStepKeeps ==
    ASSUME IInv, NEW h \in Handlers, TokenStep(h)
    PROVE  StoreMove /\ IInv'
<1>1. ASSUME ConfirmsEmail(h) PROVE StoreMove /\ IInv'
  <2>1. StoreMove
    BY <1>1, ConfirmEmailMoves DEF ConfirmsEmail, IInv
  <2> QED
    BY <1>1, <2>1, StoreStepKeeps DEF ConfirmsEmail
<1>2. ASSUME ResetsPassword(h) PROVE StoreMove /\ IInv'
  <2>1. StoreMove
    BY <1>2, ResetPasswordMoves DEF ResetsPassword, IInv
  <2> QED
    BY <1>2, <2>1, StoreStepKeeps DEF ResetsPassword
<1> QED
  BY <1>1, <1>2, ReadUnverifiedKeeps, ForgotPasswordKeeps, CheckTokenKeeps, IssueTokenKeeps,
     MailTokenKeeps, WithdrawTokenKeeps
  DEF TokenStep

-----------------------------------------------------------------------------
(* Administration *)

LEMMA AdminStepKeeps ==
    ASSUME IInv, NEW h \in Handlers, AdminStep(h)
    PROVE  StoreMove /\ IInv'
<1>0. StoreInv
  BY DEF IInv
<1>1. Finish(h)
  BY DEF AdminStep, EnableAccount, DisableAccount, UnlockAccount, AssignRole, RemoveRole
<1>2. StoreMove
  <2>1. CASE EnableAccount(h)
    BY <1>0, <2>1, SetUserStatusMoves DEF EnableAccount
  <2>2. CASE DisableAccount(h)
    BY <1>0, <2>2, SetUserStatusMoves DEF DisableAccount
  <2>3. CASE UnlockAccount(h)
    BY <1>0, <2>3, SetUserStatusMoves DEF UnlockAccount
  <2>4. CASE AssignRole(h)
    BY <1>0, <2>4, AssignAdminRoleMoves DEF AssignRole
  <2>5. CASE RemoveRole(h)
    BY <1>0, <2>5, RemoveAdminRoleMoves DEF RemoveRole
  <2> QED
    BY <2>1, <2>2, <2>3, <2>4, <2>5 DEF AdminStep
<1> QED
  BY <1>1, <1>2, FinishKeeps

-----------------------------------------------------------------------------
(* The specification *)

LEMMA FirstAccounts ==
    ASSUME NEW admin \in BOOLEAN
    PROVE  /\ NewAccount(InitialPassword, admin) \in AccountRows
           /\ NewAccount(InitialPassword, admin).failures = 0
           /\ EnrolledAccount \in AccountRows /\ EnrolledAccount.failures = 0
<1>1. \A a \in BOOLEAN : /\ NewAccount(InitialPassword, a) \in AccountRows
                         /\ NewAccount(InitialPassword, a).failures = 0
  BY StoreAssumption DEF NewAccount, AccountRows, Statuses
<1> DEFINE r == NewAccount(InitialPassword, TRUE)
<1>2. r \in AccountRows /\ r.failures = 0
  BY <1>1
<1>3. EnrolledAccount = [r EXCEPT !.salt = 1, !.salts = 1, !.counter = 1,
                                  !.codes = 1..RecoveryCodeCount, !.issued = RecoveryCodeCount]
  BY DEF EnrolledAccount
<1>4. RecoveryCodeCount \in Nat /\ 1..RecoveryCodeCount \subseteq Nat
  BY StoreAssumption
<1> HIDE DEF r
<1> QED
  BY <1>1, <1>2, <1>3, <1>4, ZenonT(60) DEF AccountRows

LEMMA FirstState == ServiceInit => IInv
<1> SUFFICES ASSUME ServiceInit PROVE IInv
  OBVIOUS
<1>1. /\ \A u \in Users : account[u] # Null => account[u] \in AccountRows /\ account[u].failures = 0
      /\ account \in AccountTable
  <2>1. account = [u \in Users |->
            IF u \in Enrolled THEN EnrolledAccount
            ELSE IF u \in Administrators THEN NewAccount(InitialPassword, TRUE)
            ELSE Null]
    BY DEF ServiceInit, Init
  <2>2. /\ NewAccount(InitialPassword, TRUE) \in AccountRows
        /\ NewAccount(InitialPassword, TRUE).failures = 0
        /\ EnrolledAccount \in AccountRows /\ EnrolledAccount.failures = 0
    BY FirstAccounts
  <2>3. \A u \in Users : account[u] # Null => account[u] \in AccountRows /\ account[u].failures = 0
    BY <2>1, <2>2
  <2> QED
    BY <2>1, <2>2, <2>3 DEF AccountTable
<1>2. /\ session = [s \in Sessions |-> Null] /\ challenge = [c \in Challenges |-> Null]
      /\ token = [t \in Tokens |-> Null] /\ call = [h \in Handlers |-> Idle]
  BY DEF ServiceInit, Init
<1>3. StoreInv
  <2>1. StoreTypes /\ Known
    BY <1>1, <1>2 DEF StoreTypes, SessionTable, ChallengeTable, TokenTable, Known
  <2>2. SessionsMatchAccount /\ OneTokenPerPurpose
    BY <1>2 DEF SessionsMatchAccount, SessionActive, OneTokenPerPurpose
  <2>3. NoActiveAccountAtLimit
    BY <1>1, StoreAssumption DEF NoActiveAccountAtLimit, Active, Registered
  <2> QED
    BY <2>1, <2>2, <2>3 DEF StoreInv
<1>4. CallsOK
  BY <1>2, IdleCall DEF CallsOK, CallOK
<1>5. HeldInv
  BY <1>2, IdleCall DEF HeldInv, HeldSessionsFollowStatus, ReplyOK, At, SessionActive
<1>6. PassedInv
  BY <1>2, IdleCall DEF PassedInv, OneSessionPerChallenge, Passed
<1>7. RefreshInv
  BY <1>2, IdleCall, ServiceAssumption DEF RefreshInv, RefreshTokenUsedOnce
<1> QED
  BY <1>3, <1>4, <1>5, <1>6, <1>7 DEF IInv

LEMMA StepKeeps == IInv /\ [Next]_vars => StoreMove /\ IInv'
<1> SUFFICES ASSUME IInv, [Next]_vars PROVE StoreMove /\ IInv'
  OBVIOUS
<1>1. ASSUME NEW h \in Handlers,
             LoginStep(h) \/ FactorStep(h) \/ SessionStep(h) \/ TokenStep(h) \/ AdminStep(h)
      PROVE  StoreMove /\ IInv'
  BY <1>1, LoginStepKeeps, FactorStepKeeps, SessionStepKeeps, TokenStepKeeps, AdminStepKeeps
<1>2. CASE Deadline
  <2>1. StoreMove
    BY <1>2, DeadlineMoves DEF IInv
  <2> QED
    BY <1>2, <2>1, StoreStepKeeps DEF Deadline
<1>3. CASE UNCHANGED vars
  <2>1. StoreMove
    BY <1>3, StoreStands DEF vars, storeVars, IInv
  <2> QED
    BY <1>3, <2>1, StoreStepKeeps DEF vars
<1> QED
  BY <1>1, <1>2, <1>3 DEF Next

\* What the account handlers rely on between two transactions holds, for any
\* number of them, whatever the others do in between (api/auth.py on
\* auth_db.py, one SQLite transaction at a time).
THEOREM Invariance == Spec => []IInv
<1>1. IInv /\ [Next]_vars => IInv'
  BY StepKeeps
<1> QED
  BY FirstState, <1>1, PTL DEF Spec

\* Every row of every table only ever moves along the edges of the second
\* part: the transactions of auth_db.py have no other effect.
THEOREM OnlyMoves == Spec => [][StoreMove]_vars
<1>1. IInv /\ [Next]_vars => [StoreMove]_vars
  BY StepKeeps
<1> QED
  BY Invariance, <1>1, PTL DEF Spec

-----------------------------------------------------------------------------
(* The properties that the runs check *)

\* Rows and requests stay well formed, and a live session goes with the
\* password and the second factor of its account (change_password,
\* reset_password_with_token, enable_two_factor revoke what no longer does).
THEOREM SessionsInvHolds == Spec => []SessionsInv
<1>1. IInv => SessionsInv
  BY DEF IInv, StoreInv, StoreTypes, CallsOK, SessionsInv, TypeOK,
         AccountTable, SessionTable, ChallengeTable, TokenTable
<1> QED
  BY Invariance, <1>1, PTL

\* A challenge opens one session, however many requests answer it together
\* (complete_two_factor_challenge).
THEOREM OneSessionPerChallengeHolds == Spec => []OneSessionPerChallenge
<1>1. IInv => OneSessionPerChallenge
  BY DEF IInv, PassedInv
<1> QED
  BY Invariance, <1>1, PTL

\* No client holds a live session of a locked or disabled account, and the
\* failure that reaches the limit locks (record_login_failure,
\* _create_session_bundle).
THEOREM LockoutAlwaysHolds == Spec => []LockoutHolds
<1>1. IInv => LockoutHolds
  BY DEF IInv, StoreInv, HeldInv, LockoutHolds
<1> QED
  BY Invariance, <1>1, PTL

\* A refresh token works once and a purpose has one usable token
\* (rotate_refresh_token, create_account_action_token).
THEOREM TokensAlwaysWorkOnce == Spec => []TokensWorkOnce
<1>1. IInv => TokensWorkOnce
  BY DEF IInv, StoreInv, RefreshInv, TokensWorkOnce
<1> QED
  BY Invariance, <1>1, PTL

\* A challenge costs a proof nobody can use again, and a second factor is
\* switched on with the secret that was checked (_consume_two_factor_proof,
\* enable_two_factor).
THEOREM FactorAlwaysChecked == Spec => FactorIsChecked
<1>1. StoreMove =>
        \A c \in Challenges :
            challenge[c] # Null /\ challenge[c].status = "active" /\ challenge'[c].status = "consumed" =>
                Spends(challenge[c].user)
  BY DEF StoreMove, ChallengesMove, ChallengeMove
<1>2. StoreMove =>
        \A u \in Users : Registered(u) /\ ~SecondFactor(u) /\ SecondFactor(u)' => CheckedSalt(u)
  BY DEF StoreMove, AccountsMove, AccountMove, Registered, SecondFactor
<1>3. [StoreMove]_vars =>
        [\A c \in Challenges :
            challenge[c] # Null /\ challenge[c].status = "active" /\ challenge'[c].status = "consumed" =>
                LET u == challenge[c].user
                IN  \/ account'[u].counter > account[u].counter
                    \/ account'[u].codes \subseteq account[u].codes
                       /\ account'[u].codes # account[u].codes]_vars
  BY <1>1 DEF Spends
<1>4. [StoreMove]_vars =>
        [\A u \in Users :
            Registered(u) /\ ~SecondFactor(u) /\ SecondFactor(u)' =>
                \E h \in Handlers : /\ At(h, "enable") /\ User(h) = u
                                   /\ call[h].salt = account'[u].salt]_vars
  BY <1>2 DEF CheckedSalt
<1> QED
  BY OnlyMoves, <1>3, <1>4, PTL DEF FactorIsChecked, FactorIsSpent, EnabledSaltWasChecked

\* Only a lockout takes the last active administrator away
\* (remove_role_from_user, set_user_status_by_administrator).
THEOREM LastAdminAlwaysStays == Spec => LastAdminStays
<1>1. [StoreMove]_vars =>
        [ActiveAdmins # {} /\ ActiveAdmins' = {} =>
            \E u \in ActiveAdmins : account'[u].status = "locked"]_vars
  BY DEF StoreMove, AdminsMove
<1> QED
  BY OnlyMoves, <1>1, PTL DEF LastAdminStays

=============================================================================
