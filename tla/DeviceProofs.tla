---------------------------- MODULE DeviceProofs ----------------------------
(***************************************************************************)
(* Theorems about devices and API keys, for any sets of devices, sessions, *)
(* keys, handlers and passwords and any limit of active keys.              *)
(*                                                                         *)
(* Three inductive invariants over the same rows: KeysIInv (the limit and  *)
(* the successors of a key), LinkIInv (what a revocation of a device that  *)
(* has read its sessions will miss) and KeysFollowAccount, which is        *)
(* inductive as it stands because a due revocation of all keys stays due   *)
(* until it is made or fails.                                              *)
(***************************************************************************)
EXTENDS DeviceSecurity, FiniteSetTheorems, TLAPS

\* A handler that links or revokes knows its device and session.
CallOK(h) ==
    /\ call[h].at \in {"track", "link"} => call[h].session \in Sessions
    /\ call[h].at \in {"track", "link", "revoke"} => call[h].device \in Devices

\* A key that has a successor is on file and will not be active again.
Replaced == \A k \in Keys :
    key[k] # Null /\ key[k].from # Null =>
        key[key[k].from] # Null /\ ~KeyActive(key[k].from)

\* Well-formed rows and calls, what all three invariants rest on.
Rows == TypeOK /\ \A h \in Handlers : CallOK(h)

\* The inductive invariant of the keys.
KeysIInv ==
    /\ Rows /\ RotatedOnce /\ Replaced
    /\ IsFiniteSet(ActiveKeys) /\ ActiveKeysWithinLimit

-----------------------------------------------------------------------------
(* Types *)

LEMMA IdleTyped == Idle \in Calls
BY DEF Idle, Calls, Confirmed

LEMMA NewKeyTyped ==
    ASSUME TypeOK, NEW h \in Handlers, NEW from \in Keys \cup {Null}
    PROVE  NewKey(h, from) \in KeyRows
BY DEF TypeOK, NewKey, KeyRows, Calls

LEMMA EndedTyped ==
    ASSUME TypeOK, NEW k \in Keys, key[k] # Null, NEW status \in {"revoked", "expired"}
    PROVE  /\ Ended(k, status) \in KeyRows
           /\ Ended(k, status).status = status /\ Ended(k, status).from = key[k].from
<1>1. key[k] \in KeyRows
  BY DEF TypeOK
<1> QED
  BY <1>1 DEF Ended, KeyRows

LEMMA RevokedTyped ==
    ASSUME TypeOK PROVE AllRevoked \in [Sessions -> {Null, "active", "revoked"}]
BY DEF TypeOK, AllRevoked

LEMMA InitRows == Init => Rows
BY IdleTyped, DeviceAssumption DEF Init, Rows, TypeOK, CallOK, Idle

\* Every step keeps the rows and calls well formed.
LEMMA NextRows == Rows /\ [Next]_vars => Rows'
<1> SUFFICES ASSUME Rows, [Next]_vars PROVE Rows'
  OBVIOUS
<1> USE DEF Rows
<1>1. ASSUME NEW h \in Handlers, Login(h) PROVE Rows'
  <2>1. PICK s \in Sessions, d \in Devices :
            /\ session' = [session EXCEPT ![s] = "active"]
            /\ call' = [call EXCEPT ![h] =
                           [Idle EXCEPT !.at = "track", !.session = s, !.device = d]]
    BY <1>1 DEF Login, Begin
  <2> DEFINE c == [Idle EXCEPT !.at = "track", !.session = s, !.device = d]
  <2>2. c \in Calls /\ c.at = "track" /\ c.session = s /\ c.device = d
    BY DEF Idle, Calls, Confirmed
  <2> HIDE DEF c
  <2>3. call' \in [Handlers -> Calls] /\ \A g \in Handlers : CallOK(g)'
    BY <2>1, <2>2 DEF TypeOK, CallOK, c
  <2> QED
    BY <1>1, <2>1, <2>3 DEF Login, TypeOK
<1>2. ASSUME NEW h \in Handlers, FindDevice(h) PROVE Rows'
  <2> DEFINE c == [call[h] EXCEPT !.at = "link", !.seen = device[call[h].device]]
  <2>1. call[h].session \in Sessions /\ call[h].device \in Devices /\ call[h] \in Calls
    BY <1>2 DEF FindDevice, At, CallOK, TypeOK
  <2>2. /\ c \in Calls /\ c.at = "link"
        /\ c.session = call[h].session /\ c.device = call[h].device
    BY <2>1 DEF TypeOK, Calls
  <2>3. call' = [call EXCEPT ![h] = c]
    BY <1>2 DEF FindDevice, TypeOK
  <2> HIDE DEF c
  <2>4. call' \in [Handlers -> Calls] /\ \A g \in Handlers : CallOK(g)'
    BY <2>1, <2>2, <2>3 DEF TypeOK, CallOK
  <2> QED
    BY <1>2, <2>4 DEF FindDevice, tables, TypeOK
<1>3. ASSUME NEW h \in Handlers, LinkDevice(h) PROVE Rows'
  <2>1. call' \in [Handlers -> Calls] /\ \A g \in Handlers : CallOK(g)'
    BY <1>3, IdleTyped DEF LinkDevice, Finish, TypeOK, CallOK, Idle
  <2>2. call[h].device \in Devices /\ call[h].session \in Sessions
    BY <1>3 DEF LinkDevice, At, CallOK
  <2>3. Missed(call[h].device, call[h].session) \in BOOLEAN
    BY DEF Missed
  <2>4. link' \in [Sessions -> [device : Devices, missed : BOOLEAN] \cup {Null}]
    BY <1>3, <2>2, <2>3 DEF LinkDevice, TypeOK
  <2>5. device' \in [Devices -> DeviceStatuses \cup {Null}]
    BY <1>3, <2>2 DEF LinkDevice, TypeOK, DeviceStatuses
  <2> QED
    BY <1>3, <2>1, <2>4, <2>5 DEF LinkDevice, TypeOK
<1>4. ASSUME NEW h \in Handlers, ConfirmPassword(h) PROVE Rows'
  <2>1. PICK op \in Confirmed :
            call' = [call EXCEPT ![h] = [Idle EXCEPT !.at = op, !.password = account.password]]
    BY <1>4 DEF ConfirmPassword, Begin
  <2>2. [Idle EXCEPT !.at = op, !.password = account.password] \in Calls
    BY DEF Idle, Calls, TypeOK
  <2>3. call' \in [Handlers -> Calls] /\ \A g \in Handlers : CallOK(g)'
    BY <2>1, <2>2 DEF TypeOK, CallOK, Idle, Confirmed
  <2> QED
    BY <1>4, <2>3 DEF ConfirmPassword, tables, TypeOK
<1>5. ASSUME NEW h \in Handlers, SetDeviceTrust(h) PROVE Rows'
  BY <1>5, IdleTyped DEF SetDeviceTrust, Finish, TypeOK, CallOK, Idle, DeviceStatuses
<1>6. ASSUME NEW h \in Handlers, FindSessions(h) PROVE Rows'
  <2>1. PICK d \in Devices :
            call' = [call EXCEPT ![h].at = "revoke", ![h].device = d,
                                 ![h].linked = LinkedSessions(d)]
    BY <1>6 DEF FindSessions
  <2>2. LinkedSessions(d) \in SUBSET Sessions
    BY DEF LinkedSessions
  <2> HIDE DEF LinkedSessions
  <2> DEFINE c == [call[h] EXCEPT !.at = "revoke", !.device = d, !.linked = LinkedSessions(d)]
  <2> HIDE DEF Rows
  <2>7. call[h] \in Calls
    BY DEF Rows, TypeOK
  <2>3. c \in Calls /\ c.at = "revoke" /\ c.device = d
    BY <2>2, <2>7 DEF Calls
  <2> USE DEF Rows
  <2>4. call' = [call EXCEPT ![h] = c]
    BY <2>1 DEF TypeOK
  <2> HIDE DEF c
  <2>5. call' \in [Handlers -> Calls] /\ \A g \in Handlers : CallOK(g)'
    BY <2>3, <2>4 DEF TypeOK, CallOK
  <2> QED
    BY <1>6, <2>5 DEF FindSessions, tables, TypeOK
<1>7. ASSUME NEW h \in Handlers, RevokeDevice(h) PROVE Rows'
  BY <1>7, IdleTyped DEF RevokeDevice, Finish, TypeOK, CallOK, Idle, DeviceStatuses
<1>8. ASSUME NEW h \in Handlers, Finish(h) PROVE call' \in [Handlers -> Calls] /\ \A g \in Handlers : CallOK(g)'
  BY <1>8, IdleTyped DEF Finish, TypeOK, CallOK, Idle
<1>9. ASSUME NEW h \in Handlers, CreateKey(h) PROVE Rows'
  BY <1>9, <1>8, NewKeyTyped DEF CreateKey, TypeOK
<1>10. ASSUME NEW h \in Handlers, RotateKey(h) PROVE Rows'
  <2>1. PICK old \in ActiveKeys, new \in Keys :
            key' = [key EXCEPT ![old] = Ended(old, "revoked"), ![new] = NewKey(h, old)]
    BY <1>10 DEF RotateKey
  <2>2. old \in Keys /\ key[old] # Null
    BY DEF ActiveKeys, KeyActive
  <2>3. key' \in [Keys -> KeyRows \cup {Null}]
    BY <2>1, <2>2, NewKeyTyped, EndedTyped DEF TypeOK
  <2> QED
    BY <1>10, <1>8, <2>3 DEF RotateKey, TypeOK
<1>11. ASSUME NEW h \in Handlers, RevokeKey(h) PROVE Rows'
  BY <1>11, <1>8, EndedTyped DEF RevokeKey, TypeOK, ActiveKeys, KeyActive
<1>12. ASSUME NEW h \in Handlers, ChangePassword(h) \/ ResetPassword(h) \/ DisableAccount(h)
       PROVE  Rows'
  <2>1. [Idle EXCEPT !.at = "revoke_keys"] \in Calls
    BY DEF Idle, Calls
  <2>2. call' = [call EXCEPT ![h] = [Idle EXCEPT !.at = "revoke_keys"]]
    BY <1>12 DEF ChangePassword, ResetPassword, DisableAccount, Begin
  <2>3. call' \in [Handlers -> Calls] /\ \A g \in Handlers : CallOK(g)'
    BY <2>1, <2>2 DEF TypeOK, CallOK, Idle
  <2>4. account' \in [password : Passwords, status : {"active", "locked", "disabled"}]
    BY <1>12 DEF ChangePassword, ResetPassword, DisableAccount, TypeOK
  <2> QED
    BY <1>12, <2>3, <2>4, RevokedTyped
    DEF ChangePassword, ResetPassword, DisableAccount, TypeOK
<1>13. ASSUME NEW h \in Handlers, RevokeAllKeys(h) PROVE Rows'
  BY <1>13, <1>8, EndedTyped DEF RevokeAllKeys, TypeOK, KeyActive
<1>14. ASSUME NEW h \in Handlers, LeaveKeys(h) PROVE Rows'
  <2>1. ASSUME NEW k \in Keys, KeyActive(k) PROVE [key[k] EXCEPT !.excused = TRUE] \in KeyRows
    <3>1. key[k] \in KeyRows
      BY <2>1 DEF TypeOK, KeyActive
    <3> QED
      BY <3>1 DEF KeyRows
  <2> QED
    BY <1>14, <1>8, <2>1 DEF LeaveKeys, TypeOK
<1>15. ASSUME NEW h \in Handlers, Drop(h) PROVE Rows'
  BY <1>15, <1>8 DEF Drop, tables, TypeOK
<1>16. ASSUME NEW k \in Keys, ExpireKey(k) PROVE Rows'
  BY <1>16, EndedTyped DEF ExpireKey, TypeOK, CallOK, KeyActive
<1>17. ASSUME NEW s \in Sessions, EndSession(s) PROVE Rows'
  BY <1>17 DEF EndSession, TypeOK, CallOK
<1>18. CASE LockAccount \/ ReopenAccount
  BY <1>18, RevokedTyped DEF LockAccount, ReopenAccount, TypeOK, CallOK
<1>19. CASE UNCHANGED vars
  BY <1>19 DEF vars, TypeOK, CallOK
<1> QED
  BY <1>1, <1>2, <1>3, <1>4, <1>5, <1>6, <1>7, <1>9, <1>10, <1>11, <1>12, <1>13, <1>14,
     <1>15, <1>16, <1>17, <1>18, <1>19 DEF Next

-----------------------------------------------------------------------------
(* Keys.  A step inserts a key below the limit, replaces an active one, or   *)
(* only ends or marks active ones.                                          *)

Inserted(new) ==
    /\ key[new] = Null /\ Cardinality(ActiveKeys) < MaxActiveKeys
    /\ key'[new] # Null /\ key'[new].from = Null
    /\ \A k \in Keys \ {new} : key'[k] = key[k]

Rotated(old, new) ==
    /\ KeyActive(old) /\ key[new] = Null
    /\ key'[new] # Null /\ key'[new].from = old
    /\ key'[old] # Null /\ key'[old].from = key[old].from /\ key'[old].status = "revoked"
    /\ \A k \in Keys \ {old, new} : key'[k] = key[k]

Faded == \A k \in Keys :
    \/ key'[k] = key[k]
    \/ KeyActive(k) /\ key'[k] # Null /\ key'[k].from = key[k].from

\* Every step is one of these three for the keys.
LEMMA KeyStep ==
    ASSUME Rows, [Next]_vars
    PROVE  \/ \E k \in Keys : Inserted(k)
           \/ \E old, new \in Keys : Rotated(old, new)
           \/ Faded
<1> USE DEF Rows
<1>1. ASSUME NEW h \in Handlers, CreateKey(h) PROVE \E k \in Keys : Inserted(k)
  <2>1. PICK k \in Keys : key[k] = Null /\ key' = [key EXCEPT ![k] = NewKey(h, Null)]
    BY <1>1 DEF CreateKey
  <2>2. NewKey(h, Null) \in KeyRows /\ NewKey(h, Null).from = Null
    BY NewKeyTyped DEF NewKey
  <2>3. key'[k] = NewKey(h, Null) /\ \A x \in Keys \ {k} : key'[x] = key[x]
    BY <2>1 DEF TypeOK
  <2> QED
    BY <1>1, <2>1, <2>2, <2>3, DeviceAssumption DEF CreateKey, Inserted
<1>2. ASSUME NEW h \in Handlers, RotateKey(h) PROVE \E old, new \in Keys : Rotated(old, new)
  <2>1. PICK old \in ActiveKeys, new \in Keys :
            /\ key[new] = Null
            /\ key' = [key EXCEPT ![old] = Ended(old, "revoked"), ![new] = NewKey(h, old)]
    BY <1>2 DEF RotateKey
  <2>2. old \in Keys /\ KeyActive(old) /\ key[old] # Null /\ old # new
    BY <2>1 DEF ActiveKeys, KeyActive
  <2>3. /\ Ended(old, "revoked") \in KeyRows /\ Ended(old, "revoked").from = key[old].from
        /\ Ended(old, "revoked").status = "revoked"
    BY <2>2, EndedTyped
  <2>4. NewKey(h, old) \in KeyRows /\ NewKey(h, old).from = old
    BY <2>2, NewKeyTyped DEF NewKey
  <2>5. /\ key'[new] = NewKey(h, old) /\ key'[old] = Ended(old, "revoked")
        /\ \A x \in Keys \ {old, new} : key'[x] = key[x]
    BY <2>1, <2>2 DEF TypeOK
  <2> QED
    BY <2>1, <2>2, <2>3, <2>4, <2>5, DeviceAssumption DEF Rotated
<1>3. ASSUME NEW h \in Handlers, RevokeKey(h) PROVE Faded
  <2>1. PICK k \in ActiveKeys : key' = [key EXCEPT ![k] = Ended(k, "revoked")]
    BY <1>3 DEF RevokeKey
  <2> QED
    BY <2>1, EndedTyped, DeviceAssumption DEF Faded, ActiveKeys, KeyActive, TypeOK
<1>4. ASSUME NEW k \in Keys, ExpireKey(k) PROVE Faded
  BY <1>4, EndedTyped, DeviceAssumption DEF Faded, ExpireKey, KeyActive, TypeOK
<1>5. ASSUME NEW h \in Handlers, RevokeAllKeys(h) PROVE Faded
  BY <1>5, EndedTyped, DeviceAssumption DEF Faded, RevokeAllKeys, KeyActive, TypeOK
<1>6. ASSUME NEW h \in Handlers, LeaveKeys(h) PROVE Faded
  <2>1. ASSUME NEW k \in Keys, KeyActive(k)
        PROVE  /\ [key[k] EXCEPT !.excused = TRUE] # Null
               /\ [key[k] EXCEPT !.excused = TRUE].from = key[k].from
    <3>1. key[k] \in KeyRows
      BY <2>1 DEF TypeOK, KeyActive
    <3>2. [key[k] EXCEPT !.excused = TRUE] \in KeyRows
      BY <3>1 DEF KeyRows
    <3> QED
      BY <3>1, <3>2, DeviceAssumption DEF KeyRows
  <2> QED
    BY <1>6, <2>1 DEF Faded, LeaveKeys
<1>7. key' = key => Faded
  BY DEF Faded
<1> QED
  BY <1>1, <1>2, <1>3, <1>4, <1>5, <1>6, <1>7
  DEF Next, vars, tables, Login, FindDevice, LinkDevice, ConfirmPassword, SetDeviceTrust,
      FindSessions, RevokeDevice, ChangePassword, ResetPassword, DisableAccount, Drop,
      EndSession, LockAccount, ReopenAccount

LEMMA InitKeys == Init => KeysIInv
<1> SUFFICES ASSUME Init PROVE KeysIInv
  OBVIOUS
<1>1. ActiveKeys = {}
  BY DEF Init, ActiveKeys, KeyActive
<1>2. IsFiniteSet({}) /\ Cardinality({}) = 0
  BY FS_EmptySet
<1> QED
  BY <1>1, <1>2, InitRows, DeviceAssumption
  DEF Init, KeysIInv, RotatedOnce, Replaced, ActiveKeysWithinLimit

LEMMA NextKeys == KeysIInv /\ [Next]_vars => KeysIInv'
<1> SUFFICES ASSUME KeysIInv, [Next]_vars PROVE KeysIInv'
  OBVIOUS
<1>1. Rows /\ Rows'
  BY NextRows DEF KeysIInv
<1>2. RotatedOnce /\ Replaced /\ IsFiniteSet(ActiveKeys) /\ Cardinality(ActiveKeys) <= MaxActiveKeys
  BY DEF KeysIInv, ActiveKeysWithinLimit
<1>3. Cardinality(ActiveKeys) \in Nat /\ MaxActiveKeys \in Nat
  BY <1>2, FS_CardinalityType, DeviceAssumption
<1>4. \A k \in Keys : /\ key[k] # Null => key[k].from \in Keys \cup {Null}
                      /\ key'[k] # Null => key'[k].from \in Keys \cup {Null}
  BY <1>1 DEF Rows, TypeOK, KeyRows
<1>5. ASSUME NEW new \in Keys, Inserted(new) PROVE KeysIInv'
  <2>1. RotatedOnce' /\ Replaced'
    BY <1>2, <1>4, <1>5 DEF Inserted, RotatedOnce, Replaced, KeyActive
  <2>2. ActiveKeys' \subseteq ActiveKeys \cup {new}
    BY <1>5 DEF Inserted, ActiveKeys, KeyActive
  <2>3. IsFiniteSet(ActiveKeys \cup {new}) /\ Cardinality(ActiveKeys \cup {new}) <= Cardinality(ActiveKeys) + 1
    BY <1>2, <1>3, FS_AddElement
  <2>4. IsFiniteSet(ActiveKeys') /\ Cardinality(ActiveKeys') <= Cardinality(ActiveKeys \cup {new})
    BY <2>2, <2>3, FS_Subset
  <2>5. Cardinality(ActiveKeys') \in Nat /\ Cardinality(ActiveKeys \cup {new}) \in Nat
    BY <2>3, <2>4, FS_CardinalityType
  <2>6. Cardinality(ActiveKeys') <= MaxActiveKeys
    BY <1>3, <1>5, <2>3, <2>4, <2>5 DEF Inserted
  <2> QED
    BY <1>1, <2>1, <2>4, <2>6 DEF KeysIInv, ActiveKeysWithinLimit
<1>6. ASSUME NEW old \in Keys, NEW new \in Keys, Rotated(old, new) PROVE KeysIInv'
  <2>1. RotatedOnce' /\ Replaced'
    <3>1. \A k \in Keys : key[k] # Null => key[k].from # old
      BY <1>2, <1>6, DeviceAssumption DEF Rotated, Replaced, KeyActive
    <3>2. old # new /\ old # Null
      BY <1>6, DeviceAssumption DEF Rotated, KeyActive
    <3>3. RotatedOnce'
      BY <1>2, <1>4, <1>6, <3>1, <3>2 DEF Rotated, RotatedOnce, KeyActive
    <3>4. ASSUME NEW k \in Keys, key'[k] # Null, key'[k].from # Null
          PROVE  key'[key'[k].from] # Null /\ key'[key'[k].from].status # "active"
      <4>1. CASE k = new
        BY <1>6, <3>2, <4>1 DEF Rotated, KeyActive
      <4>2. CASE k # new
        <5>1. key[k] # Null /\ key'[k].from = key[k].from
          BY <1>6, <3>4, <4>2 DEF Rotated, KeyActive
        <5>2. /\ key[key[k].from] # Null /\ ~KeyActive(key[k].from)
              /\ key[k].from \in Keys
          BY <1>2, <1>4, <3>4, <5>1 DEF Replaced
        <5>3. key[k].from # new /\ key[k].from # old
          BY <1>6, <5>2 DEF Rotated
        <5> QED
          BY <1>6, <5>1, <5>2, <5>3 DEF Rotated, KeyActive
      <4> QED
        BY <4>1, <4>2
    <3> QED
      BY <3>3, <3>4 DEF Replaced, KeyActive
  <2>2. ActiveKeys' \subseteq (ActiveKeys \ {old}) \cup {new} /\ old \in ActiveKeys
    BY <1>6 DEF Rotated, ActiveKeys, KeyActive
  <2>3. /\ IsFiniteSet(ActiveKeys \ {old})
        /\ Cardinality(ActiveKeys \ {old}) = Cardinality(ActiveKeys) - 1
    BY <1>2, <2>2, FS_RemoveElement
  <2>4. /\ IsFiniteSet((ActiveKeys \ {old}) \cup {new})
        /\ Cardinality((ActiveKeys \ {old}) \cup {new}) <= Cardinality(ActiveKeys)
    BY <1>3, <2>3, FS_AddElement
  <2>5. /\ IsFiniteSet(ActiveKeys')
        /\ Cardinality(ActiveKeys') <= Cardinality((ActiveKeys \ {old}) \cup {new})
    BY <2>2, <2>4, FS_Subset
  <2>6. Cardinality(ActiveKeys') \in Nat /\ Cardinality((ActiveKeys \ {old}) \cup {new}) \in Nat
    BY <2>4, <2>5, FS_CardinalityType
  <2>7. Cardinality(ActiveKeys') <= MaxActiveKeys
    BY <1>2, <1>3, <2>4, <2>5, <2>6
  <2> QED
    BY <1>1, <2>1, <2>5, <2>7 DEF KeysIInv, ActiveKeysWithinLimit
<1>7. CASE Faded
  <2>1. \A k \in Keys : /\ key'[k] # Null <=> key[k] # Null
                        /\ key[k] # Null => key'[k].from = key[k].from
                        /\ KeyActive(k)' => KeyActive(k)
    BY <1>7 DEF Faded, KeyActive
  <2>2. RotatedOnce'
    BY <1>2, <2>1 DEF RotatedOnce
  <2>3. Replaced'
    BY <1>2, <1>4, <2>1 DEF Replaced
  <2>4. ActiveKeys' \subseteq ActiveKeys
    BY <2>1 DEF ActiveKeys
  <2>5. IsFiniteSet(ActiveKeys') /\ Cardinality(ActiveKeys') <= Cardinality(ActiveKeys)
    BY <1>2, <2>4, FS_Subset
  <2>6. Cardinality(ActiveKeys') \in Nat
    BY <2>5, FS_CardinalityType
  <2>7. Cardinality(ActiveKeys') <= MaxActiveKeys
    BY <1>2, <1>3, <2>5, <2>6
  <2> QED
    BY <1>1, <2>2, <2>3, <2>5, <2>7 DEF KeysIInv, ActiveKeysWithinLimit
<1> QED
  BY <1>1, <1>5, <1>6, <1>7, KeyStep

\* The limit of active keys holds and a key is rotated at most once, for any
\* number of requests that create, rotate, revoke and outlive keys together
\* (device_security_db.create_api_key, rotate_api_key).
THEOREM KeysInvHolds == Spec => []KeysInv
<1>1. Spec => []KeysIInv
  BY InitKeys, NextKeys, PTL DEF Spec
<1>2. KeysIInv => KeysInv
  BY DEF KeysIInv, KeysInv, Rows
<1> QED
  BY <1>1, <1>2, PTL

-----------------------------------------------------------------------------
(* Sessions of a revoked device *)

\* Whatever was linked to a device since its revocation read the sessions is
\* known to be missed.
MissedKnown == \A g \in Handlers, s \in Sessions :
    /\ At(g, "revoke")
    /\ link[s] # Null /\ link[s].device = call[g].device
    /\ s \notin call[g].linked
    => link[s].missed

\* A session is on file before it is linked.
LinkedOnFile ==
    /\ \A s \in Sessions : link[s] # Null => session[s] # Null
    /\ \A h \in Handlers : call[h].at \in {"track", "link"} => session[call[h].session] # Null

LinkIInv == Rows /\ LinkedOnFile /\ MissedKnown /\ NoLiveSessionOnRevokedDevice

LEMMA InitLinks == Init => LinkIInv
BY InitRows DEF Init, LinkIInv, LinkedOnFile, MissedKnown, NoLiveSessionOnRevokedDevice, Idle, At

\* A step that leaves links and devices alone and opens only a new session.
LEMMA LinksStay ==
    ASSUME LinkIInv, Rows', link' = link, device' = device,
           \A s \in Sessions : /\ session[s] # Null => session'[s] # Null
                               /\ session'[s] = "active" => session[s] \in {"active", Null},
           \A g \in Handlers :
               \/ call'[g] = call[g]
               \/ call'[g].at \notin {"track", "link", "revoke"}
               \/ call'[g].at = "track" /\ session'[call'[g].session] # Null
    PROVE  LinkIInv'
<1>1. \A g \in Handlers : call[g].at \in {"track", "link"} => call[g].session \in Sessions
  BY DEF LinkIInv, Rows, CallOK
<1>2. LinkedOnFile'
  BY <1>1 DEF LinkIInv, LinkedOnFile
<1>3. MissedKnown'
  BY DEF LinkIInv, MissedKnown, At
<1>4. NoLiveSessionOnRevokedDevice'
  BY DEF LinkIInv, LinkedOnFile, NoLiveSessionOnRevokedDevice
<1> QED
  BY <1>2, <1>3, <1>4 DEF LinkIInv

\* A step of a handler that ends its call, or asks for something else.
LEMMA OthersWait ==
    ASSUME Rows, NEW h \in Handlers, NEW c, call' = [call EXCEPT ![h] = c]
    PROVE  call'[h] = c /\ \A g \in Handlers \ {h} : call'[g] = call[g]
BY DEF Rows, TypeOK

LEMMA NextLinks == LinkIInv /\ [Next]_vars => LinkIInv'
<1> SUFFICES ASSUME LinkIInv, [Next]_vars PROVE LinkIInv'
  OBVIOUS
<1>0. Rows /\ Rows'
  BY NextRows DEF LinkIInv
<1>a. \A s \in Sessions : session[s] \in {Null, "active", "revoked"}
  BY <1>0 DEF Rows, TypeOK
<1>b. /\ Idle.at = "idle"
      /\ \A op \in Confirmed \cup {"revoke_keys"} : \A p :
            [Idle EXCEPT !.at = op, !.password = p].at \notin {"track", "link", "revoke"}
      /\ [Idle EXCEPT !.at = "revoke_keys"].at = "revoke_keys"
  BY DEF Idle, Confirmed
<1>1. ASSUME NEW h \in Handlers, Login(h) PROVE LinkIInv'
  <2>1. PICK s \in Sessions, d \in Devices :
            /\ session[s] = Null
            /\ session' = [session EXCEPT ![s] = "active"]
            /\ call' = [call EXCEPT ![h] =
                           [Idle EXCEPT !.at = "track", !.session = s, !.device = d]]
    BY <1>1 DEF Login, Begin
  <2> DEFINE c == [Idle EXCEPT !.at = "track", !.session = s, !.device = d]
  <2>2. c.at = "track" /\ c.session = s
    BY DEF Idle
  <2> HIDE DEF c
  <2>3. call'[h] = c /\ \A g \in Handlers \ {h} : call'[g] = call[g]
    BY <1>0, <2>1, OthersWait DEF c
  <2>4. session'[s] = "active" /\ \A x \in Sessions \ {s} : session'[x] = session[x]
    BY <1>0, <2>1 DEF Rows, TypeOK
  <2> QED
    BY <1>0, <1>1, <2>1, <2>2, <2>3, <2>4, LinksStay, DeviceAssumption DEF Login
<1>2. ASSUME NEW h \in Handlers, FindDevice(h) PROVE LinkIInv'
  <2>1. /\ call'[h].at = "link" /\ call'[h].session = call[h].session
        /\ \A g \in Handlers \ {h} : call'[g] = call[g]
    <3>1. call[h] \in Calls
      BY <1>0 DEF Rows, TypeOK
    <3> QED
      BY <1>0, <1>2, <3>1 DEF FindDevice, Rows, TypeOK, Calls
  <2>2. session[call[h].session] # Null /\ UNCHANGED tables
    BY <1>2, DeviceAssumption DEF FindDevice
  <2>3. LinkedOnFile'
    BY <2>1, <2>2 DEF LinkIInv, LinkedOnFile, tables
  <2>4. MissedKnown' /\ NoLiveSessionOnRevokedDevice'
    BY <2>1, <2>2 DEF LinkIInv, MissedKnown, NoLiveSessionOnRevokedDevice, At, tables
  <2> QED
    BY <1>0, <2>3, <2>4 DEF LinkIInv
<1>3. ASSUME NEW h \in Handlers, LinkDevice(h) PROVE LinkIInv'
  <2> DEFINE d == call[h].device
             s == call[h].session
  <2>1. d \in Devices /\ s \in Sessions /\ session[s] # Null
    BY <1>0, <1>3 DEF LinkDevice, At, Rows, CallOK, LinkIInv, LinkedOnFile
  <2>2. call'[h] = Idle /\ \A g \in Handlers \ {h} : call'[g] = call[g]
    BY <1>0, <1>3, OthersWait DEF LinkDevice, Finish
  <2>3. /\ link'[s].device = d /\ link'[s].missed = Missed(d, s)
        /\ \A x \in Sessions \ {s} : link'[x] = link[x]
        /\ device'[d] \in {"trusted", "untrusted"}
        /\ \A x \in Devices \ {d} : device'[x] = device[x]
        /\ session' = session
    BY <1>0, <1>3, <2>1 DEF LinkDevice, Rows, TypeOK
  <2> HIDE DEF d, s
  <2>4. LinkedOnFile'
    BY <1>b, <2>1, <2>2, <2>3 DEF LinkIInv, LinkedOnFile
  <2>5. ASSUME NEW g \in Handlers, NEW x \in Sessions, At(g, "revoke")',
               link'[x] # Null, link'[x].device = call'[g].device, x \notin call'[g].linked
        PROVE  link'[x].missed
    <3>1. call'[g] = call[g] /\ At(g, "revoke")
      BY <1>b, <2>2, <2>5 DEF At
    <3>2. CASE x = s
      BY <2>3, <2>5, <3>1, <3>2 DEF Missed
    <3>3. CASE x # s
      BY <2>3, <2>5, <3>1, <3>3 DEF LinkIInv, MissedKnown
    <3> QED
      BY <3>2, <3>3
  <2>6. ASSUME NEW x \in Sessions, link'[x] # Null, session'[x] = "active",
               device'[link'[x].device] = "revoked"
        PROVE  link'[x].missed
    <3>1. x # s
      BY <2>3, <2>6
    <3>2. link[x].device \in Devices \ {d}
      BY <1>0, <2>3, <2>6, <3>1 DEF Rows, TypeOK
    <3> QED
      BY <2>3, <2>6, <3>1, <3>2 DEF LinkIInv, NoLiveSessionOnRevokedDevice
  <2> QED
    BY <1>0, <2>4, <2>5, <2>6 DEF LinkIInv, MissedKnown, NoLiveSessionOnRevokedDevice
<1>4. ASSUME NEW h \in Handlers, ConfirmPassword(h) PROVE LinkIInv'
  <2>1. PICK op \in Confirmed :
            call' = [call EXCEPT ![h] = [Idle EXCEPT !.at = op, !.password = account.password]]
    BY <1>4 DEF ConfirmPassword, Begin
  <2>2. /\ call'[h] = [Idle EXCEPT !.at = op, !.password = account.password]
        /\ \A g \in Handlers \ {h} : call'[g] = call[g]
    BY <1>0, <2>1, OthersWait
  <2>3. call'[h].at \notin {"track", "link", "revoke"}
    BY <1>b, <2>2
  <2> QED
    BY <1>0, <1>4, <2>2, <2>3, LinksStay DEF ConfirmPassword, tables
<1>5. ASSUME NEW h \in Handlers, SetDeviceTrust(h) PROVE LinkIInv'
  <2>1. call'[h] = Idle /\ \A g \in Handlers \ {h} : call'[g] = call[g]
    BY <1>0, <1>5, OthersWait DEF SetDeviceTrust, Finish
  <2>2. \A x \in Devices : device'[x] = "revoked" => device[x] = "revoked"
    BY <1>0, <1>5 DEF SetDeviceTrust, Rows, TypeOK
  <2>3. link' = link /\ session' = session
    BY <1>5 DEF SetDeviceTrust
  <2>4. LinkedOnFile' /\ MissedKnown'
    BY <1>b, <2>1, <2>3 DEF LinkIInv, LinkedOnFile, MissedKnown, At
  <2>5. \A x \in Sessions : link[x] # Null => link[x].device \in Devices
    BY <1>0 DEF Rows, TypeOK
  <2>6. NoLiveSessionOnRevokedDevice'
    BY <2>2, <2>3, <2>5 DEF LinkIInv, NoLiveSessionOnRevokedDevice
  <2> QED
    BY <1>0, <2>4, <2>6 DEF LinkIInv
<1>6. ASSUME NEW h \in Handlers, FindSessions(h) PROVE LinkIInv'
  <2>1. PICK d \in Devices :
            call' = [call EXCEPT ![h].at = "revoke", ![h].device = d,
                                 ![h].linked = LinkedSessions(d)]
    BY <1>6 DEF FindSessions
  <2> DEFINE L == LinkedSessions(d)
  <2>2. \A x \in Sessions : link[x] # Null /\ link[x].device = d => x \in L
    BY DEF LinkedSessions
  <2> HIDE DEF L
  <2>3. /\ call'[h].at = "revoke" /\ call'[h].device = d /\ call'[h].linked = L
        /\ \A g \in Handlers \ {h} : call'[g] = call[g]
    <3>1. call[h] \in Calls
      BY <1>0 DEF Rows, TypeOK
    <3> QED
      BY <1>0, <2>1, <3>1 DEF L, Rows, TypeOK, Calls
  <2>4. UNCHANGED tables
    BY <1>6 DEF FindSessions
  <2>5. LinkedOnFile' /\ NoLiveSessionOnRevokedDevice'
    BY <2>3, <2>4 DEF LinkIInv, LinkedOnFile, NoLiveSessionOnRevokedDevice, tables
  <2>6. MissedKnown'
    BY <2>2, <2>3, <2>4 DEF LinkIInv, MissedKnown, At, tables
  <2> QED
    BY <1>0, <2>5, <2>6 DEF LinkIInv
<1>7. ASSUME NEW h \in Handlers, RevokeDevice(h) PROVE LinkIInv'
  <2> DEFINE d == call[h].device
  <2>1. d \in Devices
    BY <1>0, <1>7 DEF RevokeDevice, At, Rows, CallOK
  <2>2. call'[h] = Idle /\ \A g \in Handlers \ {h} : call'[g] = call[g]
    BY <1>0, <1>7, OthersWait DEF RevokeDevice, Finish
  <2>3. /\ link' = link
        /\ \A x \in Devices \ {d} : device'[x] = device[x]
        /\ \A x \in Sessions : /\ session[x] # Null => session'[x] # Null
                               /\ session'[x] = "active" =>
                                     session[x] = "active" /\ x \notin call[h].linked
    BY <1>0, <1>7, DeviceAssumption DEF RevokeDevice, Rows, TypeOK
  <2>4. LinkedOnFile' /\ MissedKnown'
    <3>1. LinkedOnFile'
      <4>1. \A g \in Handlers : call[g].at \in {"track", "link"} => call[g].session \in Sessions
        BY <1>0 DEF Rows, CallOK
      <4> QED
        BY <1>b, <2>2, <2>3, <4>1 DEF LinkIInv, LinkedOnFile
    <3>2. MissedKnown'
      BY <1>b, <2>2, <2>3 DEF LinkIInv, MissedKnown, At
    <3> QED
      BY <3>1, <3>2
  <2>5. ASSUME NEW x \in Sessions, link'[x] # Null, session'[x] = "active",
               device'[link'[x].device] = "revoked"
        PROVE  link'[x].missed
    <3>1. CASE link[x].device = d
      BY <1>7, <2>3, <2>5, <3>1 DEF LinkIInv, MissedKnown, RevokeDevice
    <3>2. CASE link[x].device # d
      <4>1. link[x].device \in Devices \ {d}
        BY <1>0, <2>3, <2>5, <3>2 DEF Rows, TypeOK
      <4> QED
        BY <2>3, <2>5, <4>1 DEF LinkIInv, NoLiveSessionOnRevokedDevice
    <3> QED
      BY <3>1, <3>2
  <2> QED
    BY <1>0, <2>4, <2>5 DEF LinkIInv, NoLiveSessionOnRevokedDevice
<1>8. ASSUME NEW h \in Handlers,
             \/ CreateKey(h) \/ RotateKey(h) \/ RevokeKey(h) \/ RevokeAllKeys(h)
             \/ LeaveKeys(h) \/ Drop(h)
      PROVE  LinkIInv'
  <2>1. Finish(h) /\ UNCHANGED <<session, link, device>>
    BY <1>8 DEF CreateKey, RotateKey, RevokeKey, RevokeAllKeys, LeaveKeys, Drop, tables
  <2>2. call'[h] = Idle /\ \A g \in Handlers \ {h} : call'[g] = call[g]
    BY <1>0, <2>1, OthersWait DEF Finish
  <2> QED
    BY <1>0, <1>b, <2>1, <2>2, LinksStay
<1>9. AllRevoked \in [Sessions -> {Null, "active", "revoked"}]
      /\ \A x \in Sessions : /\ session[x] # Null => AllRevoked[x] # Null
                             /\ AllRevoked[x] # "active"
  BY <1>0, DeviceAssumption DEF AllRevoked, Rows, TypeOK
<1>10. ASSUME NEW h \in Handlers, ChangePassword(h) \/ ResetPassword(h) \/ DisableAccount(h)
       PROVE  LinkIInv'
  <2>1. /\ call' = [call EXCEPT ![h] = [Idle EXCEPT !.at = "revoke_keys"]]
        /\ session' = AllRevoked /\ UNCHANGED <<link, device>>
    BY <1>10 DEF ChangePassword, ResetPassword, DisableAccount, Begin
  <2>2. /\ call'[h] = [Idle EXCEPT !.at = "revoke_keys"]
        /\ \A g \in Handlers \ {h} : call'[g] = call[g]
    BY <1>0, <2>1, OthersWait
  <2> QED
    BY <1>0, <1>b, <1>9, <2>1, <2>2, LinksStay
<1>11. CASE LockAccount \/ ReopenAccount
  BY <1>0, <1>9, <1>a, <1>11, LinksStay DEF LockAccount, ReopenAccount
<1>12. ASSUME NEW k \in Keys, ExpireKey(k) PROVE LinkIInv'
  BY <1>0, <1>12, LinksStay DEF ExpireKey
<1>13. ASSUME NEW s \in Sessions, EndSession(s) PROVE LinkIInv'
  BY <1>0, <1>13, LinksStay, DeviceAssumption DEF EndSession, Rows, TypeOK
<1>14. CASE UNCHANGED vars
  BY <1>0, <1>14, LinksStay DEF vars
<1> QED
  BY <1>1, <1>2, <1>3, <1>4, <1>5, <1>6, <1>7, <1>8, <1>10, <1>11, <1>12, <1>13, <1>14 DEF Next

\* No session opened from a revoked device is alive, except one that was
\* linked between the two halves of the revocation, for any number of logins
\* and revocations at once (device_security_service.revoke_device,
\* device_security_db.register_session_device).
THEOREM NoLiveSessionHolds == Spec => []NoLiveSessionOnRevokedDevice
<1>1. LinkIInv => NoLiveSessionOnRevokedDevice
  BY DEF LinkIInv
<1> QED
  BY <1>1, InitLinks, NextLinks, PTL DEF Spec

-----------------------------------------------------------------------------
(* Keys and the account *)

\* What KeysFollowAccount asks of one key, with a revocation of all keys
\* still to come for every key.
Due == \E h \in Handlers : At(h, "revoke_keys")

Follows(k) ==
    key[k].excused \/ (key[k].password = account.password /\ account.status # "disabled")

LEMMA KeysFollowDef == KeysFollowAccount <=> \A k \in ActiveKeys : Due \/ Follows(k)
BY DEF KeysFollowAccount, Due, Follows

\* A step that does not serve a due revocation leaves it due.
LEMMA StaysDue ==
    ASSUME Rows, [Next]_vars, Due,
           \A h \in Handlers : ~RevokeAllKeys(h) /\ ~LeaveKeys(h)
    PROVE  Due'
<1> PICK h \in Handlers : At(h, "revoke_keys")
  BY DEF Due
<1>1. call'[h] = call[h]
  <2> SUFFICES ASSUME call'[h] # call[h] PROVE FALSE
    OBVIOUS
  <2>1. ASSUME NEW g \in Handlers, g # h, NEW c, call' = [call EXCEPT ![g] = c] PROVE FALSE
    BY <2>1, OthersWait
  <2>2. ASSUME NEW g \in Handlers,
               \/ Login(g) \/ ConfirmPassword(g) \/ ChangePassword(g) \/ ResetPassword(g)
               \/ DisableAccount(g)
        PROVE  FALSE
    <3>1. PICK c : Begin(g, c)
      BY <2>2 DEF Login, ConfirmPassword, ChangePassword, ResetPassword, DisableAccount
    <3> QED
      BY <2>1, <3>1 DEF Begin, At
  <2>3. ASSUME NEW g \in Handlers,
               \/ LinkDevice(g) \/ SetDeviceTrust(g) \/ RevokeDevice(g) \/ CreateKey(g)
               \/ RotateKey(g) \/ RevokeKey(g) \/ Drop(g)
        PROVE  FALSE
    <3>1. Finish(g) /\ ~At(g, "revoke_keys")
      BY <2>3 DEF LinkDevice, SetDeviceTrust, RevokeDevice, CreateKey, RotateKey, RevokeKey, Drop, At
    <3> QED
      BY <2>1, <3>1 DEF Finish
  <2>4. ASSUME NEW g \in Handlers, FindDevice(g) \/ FindSessions(g) PROVE FALSE
    <3>1. g # h
      BY <2>4 DEF FindDevice, FindSessions, At
    <3>2. \A x \in Handlers \ {g} : call'[x] = call[x]
      BY <2>4 DEF FindDevice, FindSessions, Rows, TypeOK
    <3> QED
      BY <3>1, <3>2
  <2> QED
    BY <2>2, <2>3, <2>4
    DEF Next, vars, ExpireKey, EndSession, LockAccount, ReopenAccount
<1> QED
  BY <1>1 DEF Due, At

LEMMA InitFollow == Init => KeysFollowAccount
BY DEF Init, KeysFollowAccount, ActiveKeys, KeyActive

LEMMA NextFollow == Rows /\ KeysFollowAccount /\ [Next]_vars => KeysFollowAccount'
<1> SUFFICES ASSUME Rows, KeysFollowAccount, [Next]_vars, NEW k \in Keys, KeyActive(k)'
             PROVE  Due' \/ Follows(k)'
  BY KeysFollowDef DEF ActiveKeys, KeysFollowAccount, Due, Follows
<1>0. KeyActive(k) => Due \/ Follows(k)
  BY KeysFollowDef DEF ActiveKeys
<1>1. ASSUME NEW h \in Handlers, RevokeAllKeys(h) PROVE FALSE
  BY <1>1, EndedTyped DEF RevokeAllKeys, KeyActive, Rows
<1>2. ASSUME NEW h \in Handlers, LeaveKeys(h) PROVE Follows(k)'
  <2>1. key[k] \in KeyRows \cup {Null} /\ KeyActive(k)
    BY <1>2 DEF LeaveKeys, Rows, TypeOK, KeyActive
  <2>2. key'[k] = [key[k] EXCEPT !.excused = TRUE] /\ key[k] \in KeyRows
    BY <1>2, <2>1 DEF LeaveKeys, KeyActive
  <2> QED
    BY <2>2 DEF Follows, KeyRows
<1>3. ASSUME \A h \in Handlers : ~RevokeAllKeys(h) /\ ~LeaveKeys(h), ~Due' PROVE Follows(k)'
  <2>0. ~Due
    BY <1>3, StaysDue
  <2>1. ASSUME NEW h \in Handlers, NEW from, NewKey(h, from) = key'[k], account' = account
        PROVE  Follows(k)'
    <3> DEFINE now == [password |-> call[h].password, status |-> "active"]
               n == NewKey(h, from)
    <3>1. n.excused = (account # now) /\ n.password = call[h].password
      BY DEF NewKey
    <3>2. now.password = call[h].password /\ now.status # "disabled"
      OBVIOUS
    <3> HIDE DEF now, n
    <3>3. CASE account = now
      BY <2>1, <3>1, <3>2, <3>3 DEF Follows, n
    <3>4. CASE account # now
      <4>1. n.excused = TRUE
        BY <3>1, <3>4
      <4> QED
        BY <2>1, <4>1 DEF Follows, n
    <3> QED
      BY <3>3, <3>4
  <2>2. ASSUME NEW h \in Handlers, CreateKey(h) PROVE Follows(k)'
    <3>1. PICK new \in Keys : key' = [key EXCEPT ![new] = NewKey(h, Null)]
      BY <2>2 DEF CreateKey
    <3>2. account' = account
      BY <2>2 DEF CreateKey
    <3>3. CASE k = new
      BY <2>1, <3>1, <3>2, <3>3 DEF Rows, TypeOK
    <3>4. CASE k # new
      <4>1. key'[k] = key[k]
        BY <3>1, <3>4 DEF Rows, TypeOK
      <4> QED
        BY <1>0, <2>0, <3>2, <4>1 DEF Follows, KeyActive
    <3> QED
      BY <3>3, <3>4
  <2>3. ASSUME NEW h \in Handlers, RotateKey(h) PROVE Follows(k)'
    <3>1. PICK old \in ActiveKeys, new \in Keys :
              key' = [key EXCEPT ![old] = Ended(old, "revoked"), ![new] = NewKey(h, old)]
      BY <2>3 DEF RotateKey
    <3>2. account' = account
      BY <2>3 DEF RotateKey
    <3>3. old \in Keys /\ key[old] # Null
      BY DEF ActiveKeys, KeyActive
    <3>4. CASE k = new
      BY <2>1, <3>1, <3>2, <3>4 DEF Rows, TypeOK
    <3>5. CASE k = old /\ k # new
      BY <3>1, <3>3, <3>5, EndedTyped DEF Rows, TypeOK, KeyActive
    <3>6. CASE k # old /\ k # new
      <4>1. key'[k] = key[k]
        BY <3>1, <3>6 DEF Rows, TypeOK
      <4> QED
        BY <1>0, <2>0, <3>2, <4>1 DEF Follows, KeyActive
    <3> QED
      BY <3>4, <3>5, <3>6
  <2>4. ASSUME NEW old \in Keys, KeyActive(old), NEW status \in {"revoked", "expired"},
               key' = [key EXCEPT ![old] = Ended(old, status)], account' = account
        PROVE  Follows(k)'
    <3>1. k # old
      BY <2>4, EndedTyped DEF Rows, TypeOK, KeyActive
    <3>2. key'[k] = key[k]
      BY <2>4, <3>1 DEF Rows, TypeOK
    <3> QED
      BY <1>0, <2>0, <2>4, <3>2 DEF Follows, KeyActive
  <2>5. ASSUME NEW h \in Handlers, RevokeKey(h) PROVE Follows(k)'
    BY <2>4, <2>5 DEF RevokeKey, ActiveKeys
  <2>6. ASSUME NEW old \in Keys, ExpireKey(old) PROVE Follows(k)'
    BY <2>4, <2>6 DEF ExpireKey
  <2>7. ASSUME NEW h \in Handlers, ChangePassword(h) \/ ResetPassword(h) \/ DisableAccount(h)
        PROVE  FALSE
    <3>1. call' = [call EXCEPT ![h] = [Idle EXCEPT !.at = "revoke_keys"]]
      BY <2>7 DEF ChangePassword, ResetPassword, DisableAccount, Begin
    <3>2. call'[h] = [Idle EXCEPT !.at = "revoke_keys"]
      BY <3>1, OthersWait
    <3>3. call'[h].at = "revoke_keys"
      BY <3>2 DEF Idle
    <3> QED
      BY <1>3, <3>3 DEF Due, At
  <2>8. ASSUME key' = key, account'.password = account.password,
               account.status # "disabled" => account'.status # "disabled"
        PROVE  Follows(k)'
    BY <1>0, <2>0, <2>8 DEF Follows, KeyActive
  <2>9. CASE LockAccount \/ ReopenAccount
    <3>1. /\ key' = key /\ account'.password = account.password
          /\ account.status # "disabled" => account'.status # "disabled"
      BY <2>9 DEF LockAccount, ReopenAccount, Rows, TypeOK
    <3> QED
      BY <2>8, <3>1
  <2>10. CASE key' = key /\ account' = account
    BY <2>8, <2>10
  <2> QED
    BY <1>3, <2>2, <2>3, <2>5, <2>6, <2>7, <2>9, <2>10
    DEF Next, vars, tables, Login, FindDevice, LinkDevice, ConfirmPassword, SetDeviceTrust,
        FindSessions, RevokeDevice, Drop, EndSession
<1> QED
  BY <1>1, <1>2, <1>3

\* An active key was made with the password of now, for an account that is
\* not disabled, up to what the code leaves open, whatever changes of the
\* account overlap with requests for keys (api/auth.py, api/admin.py).
THEOREM KeysFollowHolds == Spec => []KeysFollowAccount
<1>1. Spec => []Rows
  BY InitRows, NextRows, PTL DEF Spec
<1> QED
  BY <1>1, InitFollow, NextFollow, PTL DEF Spec

=============================================================================
