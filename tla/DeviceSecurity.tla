--------------------------- MODULE DeviceSecurity ---------------------------
(***************************************************************************)
(* Devices and API keys of one account (core/device_security_service.py on *)
(* database/device_security_db.py, api/device_security.py), beside the     *)
(* login, password and account operations of AuthService that they meet.   *)
(* Every statement names the user, so the rows of other accounts stay out. *)
(*                                                                         *)
(* A handler confirms the password in one transaction and makes its change *)
(* in another.  SQLite opens a transaction at the first write only: what   *)
(* register_session_device and revoke_device select before it may be out   *)
(* of date when they write.  A refusal leaves the tables alone and the     *)
(* handler idle (Drop); so does the end of the process.                    *)
(***************************************************************************)
EXTENDS Integers, FiniteSets

CONSTANTS
    Devices,        \* client references: a device row has one of its own
    Sessions, Keys, \* row identifiers
    Handlers,       \* threads that serve requests
    Passwords, InitialPassword,
    MaxActiveKeys,  \* setting: active API keys of an account
    Null

KeyRows == [status : {"active", "revoked", "expired"}, from : Keys \cup {Null},
            password : Passwords \cup {Null}, excused : BOOLEAN]

ASSUME DeviceAssumption ==
    /\ InitialPassword \in Passwords
    /\ MaxActiveKeys \in Nat \ {0}
    /\ Null \notin Keys \cup Devices \cup Sessions \cup Passwords \cup KeyRows
    /\ Null \notin {"active", "locked", "disabled", "revoked", "expired",
                    "untrusted", "trusted"}

VARIABLES
    account,  \* password and status
    session,  \* session[s]: status in the sessions table, Null: not yet
    link,     \* link[s]: the device a session was opened from
    device,   \* device[d]: status of the device, Null: never seen
    key,      \* key[k]: row of the API key table, Null: not yet
    call      \* call[h]: the request a handler serves

vars == <<account, session, link, device, key, call>>
tables == <<account, session, link, device, key>>

Idle == [at |-> "idle", password |-> Null, session |-> Null, device |-> Null,
         seen |-> Null, linked |-> {}]

Init ==
    /\ account = [password |-> InitialPassword, status |-> "active"]
    /\ session = [s \in Sessions |-> Null]
    /\ link = [s \in Sessions |-> Null]
    /\ device = [d \in Devices |-> Null]
    /\ key = [k \in Keys |-> Null]
    /\ call = [h \in Handlers |-> Idle]

At(h, step) == call[h].at = step

Begin(h, request) == At(h, "idle") /\ call' = [call EXCEPT ![h] = request]

Finish(h) == call' = [call EXCEPT ![h] = Idle]

Drop(h) ==
    /\ call[h].at \notin {"idle", "revoke_keys"}
    /\ Finish(h)
    /\ UNCHANGED tables

AllRevoked == [s \in Sessions |-> IF session[s] = "active" THEN "revoked" ELSE session[s]]

-----------------------------------------------------------------------------
(* A login and the device it comes from *)

Login(h) == \E s \in Sessions, d \in Devices :
    /\ account.status = "active"
    /\ session[s] = Null
    /\ session' = [session EXCEPT ![s] = "active"]
    /\ Begin(h, [Idle EXCEPT !.at = "track", !.session = s, !.device = d])
    /\ UNCHANGED <<account, link, device, key>>

\* The two selects of register_session_device.  The session is not read
\* again, so they may as well be one step.
FindDevice(h) ==
    /\ At(h, "track")
    /\ session[call[h].session] = "active"
    /\ call' = [call EXCEPT ![h].at = "link", ![h].seen = device[call[h].device]]
    /\ UNCHANGED tables

\* A revocation that has read the sessions of device d and will miss s.
Missed(d, s) == \E g \in Handlers :
    At(g, "revoke") /\ call[g].device = d /\ s \notin call[g].linked

\* The insert or update of the device and of the link; the unique index
\* refuses a second insert.
LinkDevice(h) ==
    LET d == call[h].device
        s == call[h].session
    IN  /\ At(h, "link")
        /\ call[h].seen = Null => device[d] = Null
        /\ device' = [device EXCEPT ![d] =
               IF call[h].seen = "trusted" THEN "trusted" ELSE "untrusted"]
        /\ link' = [link EXCEPT ![s] = [device |-> d, missed |-> Missed(d, s)]]
        /\ Finish(h)
        /\ UNCHANGED <<account, session, key>>

-----------------------------------------------------------------------------
(* Changes confirmed with the password *)

Confirmed == {"trust", "untrust", "revoke_device",
              "create_key", "rotate_key", "revoke_key"}

\* A live session's request; _require_current_password.
ConfirmPassword(h) == \E op \in Confirmed :
    /\ \E s \in Sessions : session[s] = "active"
    /\ account.status = "active"
    /\ Begin(h, [Idle EXCEPT !.at = op, !.password = account.password])
    /\ UNCHANGED tables

SetDeviceTrust(h) ==
    /\ call[h].at \in {"trust", "untrust"}
    /\ \E d \in Devices :
          /\ device[d] # Null
          /\ device' = [device EXCEPT ![d] =
                 IF At(h, "trust") THEN "trusted" ELSE "untrusted"]
    /\ Finish(h)
    /\ UNCHANGED <<account, session, link, key>>

LinkedSessions(d) == {s \in Sessions : link[s] # Null /\ link[s].device = d}

\* The selects of revoke_device ...
FindSessions(h) ==
    /\ At(h, "revoke_device")
    /\ \E d \in Devices :
          /\ device[d] # Null
          /\ call' = [call EXCEPT ![h].at = "revoke", ![h].device = d,
                                  ![h].linked = LinkedSessions(d)]
    /\ UNCHANGED tables

RevokeDeviceOnly(h) ==              \* mutant: its sessions go on
    /\ At(h, "revoke")
    /\ device' = [device EXCEPT ![call[h].device] = "revoked"]
    /\ Finish(h)
    /\ UNCHANGED <<account, session, link, key>>

\* ... and its updates.
RevokeDevice(h) ==
    /\ At(h, "revoke")
    /\ session' = [s \in Sessions |->
           IF s \in call[h].linked /\ session[s] = "active" THEN "revoked" ELSE session[s]]
    /\ device' = [device EXCEPT ![call[h].device] = "revoked"]
    /\ Finish(h)
    /\ UNCHANGED <<account, link, key>>

-----------------------------------------------------------------------------
(* API keys.  Of an active key, password is the one its request was          *)
(* confirmed with, and excused says that this was out of date when the key  *)
(* was inserted or that a revocation of all keys failed since.              *)

KeyActive(k) == key[k] # Null /\ key[k].status = "active"

ActiveKeys == {k \in Keys : KeyActive(k)}

NewKey(h, from) ==
    [status |-> "active", from |-> from, password |-> call[h].password,
     excused |-> account # [password |-> call[h].password, status |-> "active"]]

Ended(k, status) ==
    [key[k] EXCEPT !.status = status, !.password = Null, !.excused = FALSE]

CreateKey(h) ==
    /\ At(h, "create_key")
    /\ account.status = "active"
    /\ Cardinality(ActiveKeys) < MaxActiveKeys
    /\ \E k \in Keys :
          /\ key[k] = Null
          /\ key' = [key EXCEPT ![k] = NewKey(h, Null)]
    /\ Finish(h)
    /\ UNCHANGED <<account, session, link, device>>

RotateAgain(h) ==                   \* mutant: a key that is gone is rotated again
    /\ At(h, "rotate_key")
    /\ \E old, new \in Keys :
          /\ key[old] # Null
          /\ key[new] = Null
          /\ key' = [key EXCEPT ![old] = Ended(old, "revoked"), ![new] = NewKey(h, old)]
    /\ Finish(h)
    /\ UNCHANGED <<account, session, link, device>>

RotateKey(h) ==
    /\ At(h, "rotate_key")
    /\ \E old \in ActiveKeys, new \in Keys :
          /\ key[new] = Null
          /\ key' = [key EXCEPT ![old] = Ended(old, "revoked"), ![new] = NewKey(h, old)]
    /\ Finish(h)
    /\ UNCHANGED <<account, session, link, device>>

RevokeKey(h) ==
    /\ At(h, "revoke_key")
    /\ \E k \in ActiveKeys : key' = [key EXCEPT ![k] = Ended(k, "revoked")]
    /\ Finish(h)
    /\ UNCHANGED <<account, session, link, device>>

ExpireKey(k) ==
    /\ KeyActive(k)
    /\ key' = [key EXCEPT ![k] = Ended(k, "expired")]
    /\ UNCHANGED <<account, session, link, device, call>>

-----------------------------------------------------------------------------
(* The account.  A new password and a disabled account end the sessions in  *)
(* their own transaction; the handler revokes the API keys afterwards, and  *)
(* answers with success even if that fails.                                 *)

ChangePassword(h) == \E p \in Passwords \ {account.password} :
    /\ account.status = "active"
    /\ \E s \in Sessions : session[s] = "active"
    /\ account' = [account EXCEPT !.password = p]
    /\ session' = AllRevoked
    /\ Begin(h, [Idle EXCEPT !.at = "revoke_keys"])
    /\ UNCHANGED <<link, device, key>>

ResetPassword(h) == \E p \in Passwords :
    /\ account.status # "disabled"
    /\ account' = [password |-> p, status |-> "active"]
    /\ session' = AllRevoked
    /\ Begin(h, [Idle EXCEPT !.at = "revoke_keys"])
    /\ UNCHANGED <<link, device, key>>

DisableKeepsKeys(h) ==              \* mutant: the API keys are forgotten
    /\ account.status # "disabled"
    /\ account' = [account EXCEPT !.status = "disabled"]
    /\ session' = AllRevoked
    /\ Begin(h, Idle)
    /\ UNCHANGED <<link, device, key>>

DisableAccount(h) ==
    /\ account.status # "disabled"
    /\ account' = [account EXCEPT !.status = "disabled"]
    /\ session' = AllRevoked
    /\ Begin(h, [Idle EXCEPT !.at = "revoke_keys"])
    /\ UNCHANGED <<link, device, key>>

RevokeAllKeys(h) ==
    /\ At(h, "revoke_keys")
    /\ key' = [k \in Keys |->
           IF KeyActive(k) THEN Ended(k, "revoked") ELSE key[k]]
    /\ Finish(h)
    /\ UNCHANGED <<account, session, link, device>>

LeaveKeys(h) ==
    /\ At(h, "revoke_keys")
    /\ key' = [k \in Keys |->
           IF KeyActive(k) THEN [key[k] EXCEPT !.excused = TRUE] ELSE key[k]]
    /\ Finish(h)
    /\ UNCHANGED <<account, session, link, device>>

\* Too many failed logins: the sessions end, the API keys stay.
LockAccount ==
    /\ account.status = "active"
    /\ account' = [account EXCEPT !.status = "locked"]
    /\ session' = AllRevoked
    /\ UNCHANGED <<link, device, key, call>>

\* The lock is over or lifted, or the account is enabled again.
ReopenAccount ==
    /\ account.status # "active"
    /\ account' = [account EXCEPT !.status = "active"]
    /\ UNCHANGED <<session, link, device, key, call>>

\* Logout, expiry.
EndSession(s) ==
    /\ session[s] = "active"
    /\ session' = [session EXCEPT ![s] = "revoked"]
    /\ UNCHANGED <<account, link, device, key, call>>

Next ==
    \/ \E h \in Handlers :
          \/ Login(h) \/ FindDevice(h) \/ LinkDevice(h)
          \/ ConfirmPassword(h) \/ SetDeviceTrust(h) \/ FindSessions(h) \/ RevokeDevice(h)
          \/ CreateKey(h) \/ RotateKey(h) \/ RevokeKey(h)
          \/ ChangePassword(h) \/ ResetPassword(h) \/ DisableAccount(h)
          \/ RevokeAllKeys(h) \/ LeaveKeys(h) \/ Drop(h)
    \/ \E k \in Keys : ExpireKey(k)
    \/ \E s \in Sessions : EndSession(s)
    \/ LockAccount
    \/ ReopenAccount

Spec == Init /\ [][Next]_vars

-----------------------------------------------------------------------------

DeviceStatuses == {"untrusted", "trusted", "revoked"}

Calls ==
    [at : {"idle", "track", "link", "revoke", "revoke_keys"} \cup Confirmed,
     password : Passwords \cup {Null},
     session : Sessions \cup {Null}, device : Devices \cup {Null},
     seen : DeviceStatuses \cup {Null}, linked : SUBSET Sessions]

\* Rows and calls are well formed (the schema of device_security_db.initialize).
TypeOK ==
    /\ account \in [password : Passwords, status : {"active", "locked", "disabled"}]
    /\ session \in [Sessions -> {Null, "active", "revoked"}]
    /\ link \in [Sessions -> [device : Devices, missed : BOOLEAN] \cup {Null}]
    /\ device \in [Devices -> DeviceStatuses \cup {Null}]
    /\ key \in [Keys -> KeyRows \cup {Null}]
    /\ call \in [Handlers -> Calls]

\* No session opened from a revoked device is alive, although the device and
\* its sessions are read before they are written; the exception is a login
\* that linked its session between the two halves of revoke_device.
NoLiveSessionOnRevokedDevice == \A s \in Sessions :
    /\ link[s] # Null
    /\ session[s] = "active"
    /\ device[link[s].device] = "revoked"
    => link[s].missed

\* An account never has more active keys than the setting allows, whatever
\* creations, rotations and deadlines overlap (create_api_key counts in its
\* transaction, rotate_api_key replaces one for one).
ActiveKeysWithinLimit == Cardinality(ActiveKeys) <= MaxActiveKeys

\* Of the rotations of one key that overlap, one succeeds: a key has at most
\* one successor (rotate_api_key).
RotatedOnce == \A k1, k2 \in Keys :
    /\ key[k1] # Null /\ key[k2] # Null
    /\ key[k1].from = key[k2].from /\ key[k1].from # Null
    => k1 = k2

\* An active key was made with the password of now, for an account that is
\* not disabled, up to what the code leaves open: the request was confirmed
\* before the change and inserted its key after it, or the revocation that
\* follows the change is still to come or has failed (api/auth.py,
\* api/admin.py swallow its errors).
KeysFollowAccount == \A k \in ActiveKeys :
    \/ key[k].excused
    \/ \E h \in Handlers : At(h, "revoke_keys")
    \/ key[k].password = account.password /\ account.status # "disabled"

\* Well-formed rows, and keys that stay within the limit although they are
\* counted, rotated and expire in transactions of several requests.
KeysInv == TypeOK /\ ActiveKeysWithinLimit /\ RotatedOnce

=============================================================================
