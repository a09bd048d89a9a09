---------------------------- MODULE Idempotency ----------------------------
(***************************************************************************)
(* Idempotency keys of the API (app/database/idempotency_db.py), as the    *)
(* handlers use them (api/idempotency.py for approve, reject, retry and    *)
(* cancel; api/chat.py for POST /chat): reserve the key, perform the       *)
(* action, store the answer; a repeated request gets the stored answer.    *)
(* A key stands for one row: owner, method, path and key fingerprint.      *)
(* Each store operation is one write transaction.                          *)
(*                                                                         *)
(* Times are relative to now and clipped below -BusyTimeout, and a clock   *)
(* is read `wait' before the write lock is there, as in TaskQueue.  A      *)
(* request may be in flight for longer than its key lives, and is then     *)
(* called late: nothing in the code prevents it.                           *)
(*                                                                         *)
(* A reservation that is refused (the key serves another request, or the   *)
(* request is still processing) answers 409 and changes nothing: no step.  *)
(***************************************************************************)
EXTENDS Integers, FiniteSets

CONSTANTS
    Keys,           \* keys
    Requests,       \* request fingerprints
    Handlers,       \* request threads
    Null,
    Expiry,         \* life of a key (86400 s)
    BusyTimeout,    \* longest wait for the SQLite write lock (30 s)
    BatchSize       \* rows one maintenance pass deletes at most (1000)

Waits == 0..BusyTimeout

Answers == [request : Requests, outcome : {"completed", "failed"}, late : BOOLEAN]

Rows == [request : Requests, answer : Answers \cup {Null}, exp : -BusyTimeout..Expiry]

Calls == [key : Keys, request : Requests, own : BOOLEAN, answer : Answers \cup {Null}]

ASSUME IdempotencyAssumption ==
    /\ BusyTimeout \in Nat
    /\ Expiry \in Nat /\ Expiry > BusyTimeout      \* at least 60 s
    /\ BatchSize \in Nat \ {0}
    /\ Null \notin Answers
    /\ Null \notin Rows
    /\ Null \notin Calls

VARIABLES
    row,        \* row[k]: the row of key k: processing while its answer is Null
    older,      \* older[k]: the keys whose row has a smaller sequence_id
    at,         \* at[h]: what handler h does next
    on,         \* on[h]: its key, request and answer; own: the row it reserved
                \* is still there
    cover       \* cover[k]: how long the action performed under k is covered
                \* by its key (history; 0: no longer, or not performed)

vars == <<row, older, at, on, cover>>

Init ==
    /\ row = [k \in Keys |-> Null]
    /\ older = [k \in Keys |-> {}]
    /\ at = [h \in Handlers |-> "idle"]
    /\ on = [h \in Handlers |-> Null]
    /\ cover = [k \in Keys |-> 0]

Present == {k \in Keys : row[k] # Null}

Final(k) == row[k] # Null /\ row[k].answer # Null

\* expires_at <= now, as a clock read `wait' ago sees it.
Expired(k, wait) == row[k] # Null /\ row[k].exp <= -wait

\* The rows of the keys in D are gone: whoever reserved one does not know.
Disowned(D) == [h \in Handlers |->
    IF on[h] # Null /\ on[h].key \in D THEN [on[h] EXCEPT !.own = FALSE] ELSE on[h]]

End(h) ==
    /\ at' = [at EXCEPT ![h] = "idle"]
    /\ on' = [on EXCEPT ![h] = Null]

-----------------------------------------------------------------------------
(* reserve. *)

FreeIfFailed(k, wait) ==            \* mutant: a failed request starts over
    row[k] = Null \/ Expired(k, wait) \/ (Final(k) /\ row[k].answer.outcome = "failed")

Free(k, wait) == row[k] = Null \/ Expired(k, wait)

ReplaysAny(k, r, wait) == ~Free(k, wait) /\ Final(k)            \* mutant

Replays(k, r, wait) == ~Free(k, wait) /\ Final(k) /\ row[k].request = r

Reserve(h, k, r, wait) ==
    /\ at[h] = "idle"
    /\ Free(k, wait)
    /\ row' = [row EXCEPT ![k] = [request |-> r, answer |-> Null, exp |-> Expiry - wait]]
    /\ older' = [j \in Keys |-> IF j = k THEN Present \ {k} ELSE older[j] \ {k}]
    /\ at' = [at EXCEPT ![h] = "act"]
    /\ on' = [Disowned({k}) EXCEPT ![h] =
                [key |-> k, request |-> r, own |-> TRUE, answer |-> Null]]
    /\ UNCHANGED cover

Replay(h, k, r, wait) ==
    /\ at[h] = "idle"
    /\ Replays(k, r, wait)
    /\ at' = [at EXCEPT ![h] = "reply"]
    /\ on' = [on EXCEPT ![h] =
                [key |-> k, request |-> r, own |-> FALSE, answer |-> row[k].answer]]
    /\ UNCHANGED <<row, older, cover>>

-----------------------------------------------------------------------------
(* The action of the request, and what is stored of it. *)

Longer(a, b) == IF a > b THEN a ELSE b

\* The action succeeds, is refused (an HTTPException, or one that the chat
\* handler turns into one), or raises what nobody finalizes.
Perform(h) ==
    /\ at[h] = "act"
    /\ LET k == on[h].key IN
       cover' = IF on[h].own THEN [cover EXCEPT ![k] = Longer(@, row[k].exp)] ELSE cover
    /\ \/ \E outcome \in {"completed", "failed"} :
             /\ at' = [at EXCEPT ![h] = "store"]
             /\ on' = [on EXCEPT ![h].answer =
                          [request |-> on[h].request, outcome |-> outcome, late |-> FALSE]]
       \/ End(h)
    /\ UNCHANGED <<row, older>>

FinishOverwrites(h) ==              \* mutant: a stored answer is replaced
    /\ at[h] = "store"
    /\ LET k == on[h].key IN
       /\ row[k] # Null
       /\ row' = [row EXCEPT ![k].answer = [on[h].answer EXCEPT !.late = ~on[h].own]]
    /\ at' = [at EXCEPT ![h] = "reply"]
    /\ UNCHANGED <<older, on, cover>>

\* _finish looks the row up by its key, whoever reserved it, and leaves an
\* answer that is already there; the client gets the answer in hand.
Finish(h) ==
    /\ at[h] = "store"
    /\ LET k == on[h].key IN
       /\ row[k] # Null
       /\ row' = IF Final(k) THEN row
                 ELSE [row EXCEPT ![k].answer = [on[h].answer EXCEPT !.late = ~on[h].own]]
    /\ at' = [at EXCEPT ![h] = "reply"]
    /\ UNCHANGED <<older, on, cover>>

\* _finish raises, because the row is gone or the write failed: nothing is
\* stored, and the client gets an error that does not end the reservation.
FinishFails(h) ==
    /\ at[h] = "store"
    /\ End(h)
    /\ UNCHANGED <<row, older, cover>>

Reply(h) ==
    /\ at[h] = "reply"
    /\ End(h)
    /\ UNCHANGED <<row, older, cover>>

-----------------------------------------------------------------------------
(* The maintenance thread, the end of the process, and time. *)

\* Mutant: the newest rows are deleted first.
SweepNewest(wait) ==
    LET expired == {k \in Keys : Expired(k, wait)} IN
    \E D \in (SUBSET expired) \ {{}} :
        /\ IF Cardinality(expired) <= BatchSize THEN D = expired ELSE Cardinality(D) = BatchSize
        /\ \A k \in D : \A j \in expired \ D : j \in older[k]
        /\ row' = [k \in Keys |-> IF k \in D THEN Null ELSE row[k]]
        /\ on' = Disowned(D)
        /\ UNCHANGED <<older, at, cover>>

\* delete_expired: the rows with the smallest sequence_id, up to the limit.
Sweep(wait) ==
    LET expired == {k \in Keys : Expired(k, wait)} IN
    \E D \in (SUBSET expired) \ {{}} :
        /\ IF Cardinality(expired) <= BatchSize THEN D = expired ELSE Cardinality(D) = BatchSize
        /\ \A k \in D : older[k] \cap expired \subseteq D
        /\ row' = [k \in Keys |-> IF k \in D THEN Null ELSE row[k]]
        /\ on' = Disowned(D)
        /\ UNCHANGED <<older, at, cover>>

\* The requests in flight are lost, their reservations stay.
Crash ==
    /\ \E h \in Handlers : at[h] # "idle"
    /\ at' = [h \in Handlers |-> "idle"]
    /\ on' = [h \in Handlers |-> Null]
    /\ UNCHANGED <<row, older, cover>>

Tick ==
    /\ row' = [k \in Keys |->
          IF row[k] # Null /\ row[k].exp > -BusyTimeout
          THEN [row[k] EXCEPT !.exp = @ - 1] ELSE row[k]]
    /\ cover' = [k \in Keys |-> IF cover[k] > 0 THEN cover[k] - 1 ELSE 0]
    /\ UNCHANGED <<older, at, on>>

-----------------------------------------------------------------------------

Request(h) ==
    \E k \in Keys, r \in Requests, wait \in Waits :
        Reserve(h, k, r, wait) \/ Replay(h, k, r, wait)

Progress(h) == Perform(h) \/ Finish(h) \/ FinishFails(h) \/ Reply(h)

Maintain == \E wait \in Waits : Sweep(wait)

Next ==
    \/ \E h \in Handlers : Request(h) \/ Progress(h)
    \/ Maintain
    \/ Crash
    \/ Tick

Spec == Init /\ [][Next]_vars

\* Time passes and the maintenance thread, which survives every failed pass
\* and is started with the process (when enabled, the default), goes on.
Fairness == WF_vars(Tick) /\ WF_vars(Maintain)

FairSpec == Spec /\ Fairness

-----------------------------------------------------------------------------
(* Properties. *)

\* Every row, call and history value keeps its type.
TypeOK ==
    /\ row \in [Keys -> Rows \cup {Null}]
    /\ older \in [Keys -> SUBSET Keys]
    /\ at \in [Handlers -> {"idle", "act", "store", "reply"}]
    /\ on \in [Handlers -> Calls \cup {Null}]
    /\ \A h \in Handlers : (at[h] = "idle") <=> (on[h] = Null)
    /\ cover \in [Keys -> 0..Expiry]

Owns(h, k) == on[h] # Null /\ on[h].own /\ on[h].key = k

\* A handler goes to work under a key it reserved only if the action was not
\* performed under this key within its life, and never beside another one:
\* not after a retry, a crash, a failed write, an expiry or a late finisher.
WorkIsReserved ==
    \A k \in Keys, h \in Handlers : Owns(h, k) =>
        /\ at[h] = "act" => cover[k] = 0
        /\ \A g \in Handlers : Owns(g, k) => g = h

\* A client gets an answer to its own request, and the one on file, unless a
\* request outlived its key and finished under the row of another.
AnswersMatch ==
    \A h \in Handlers : at[h] = "reply" =>
        /\ on[h].answer.late \/ on[h].answer.request = on[h].request
        /\ on[h].own => Final(on[h].key) /\
             (row[on[h].key].answer = on[h].answer \/ row[on[h].key].answer.late)

\* A stored answer never changes while its row lives, even when a request that
\* outlived an earlier row of the key finishes now.
FinalIsStable ==
    [][\A k \in Keys : Final(k) /\ Final(k)' => row'[k].answer = row[k].answer]_vars

\* An expired row does not stay for ever: the client reserves its key anew, or
\* maintenance deletes it, however small its batches are and however fast
\* other keys come and expire.
ExpiredGoes == \A k \in Keys : Expired(k, 0) ~> ~Expired(k, 0)
=============================================================================
