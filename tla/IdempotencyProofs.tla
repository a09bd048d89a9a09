------------------------- MODULE IdempotencyProofs -------------------------
(***************************************************************************)
(* Idempotency: that the keys do their work, for any numbers of keys,      *)
(* requests and handlers and any expiry, lock wait and batch size.         *)
(***************************************************************************)
EXTENDS Idempotency, TLAPS

\* A handler that owns a row reserved it for its request, is the only one, and
\* any answer already on file came from a request that outlived its own key.
Reservations ==
    \A k \in Keys, h \in Handlers : Owns(h, k) =>
        /\ row[k] # Null /\ row[k].request = on[h].request
        /\ at[h] = "act" => cover[k] = 0
        /\ at[h] \in {"act", "store"} /\ Final(k) => row[k].answer.late
        /\ \A g \in Handlers : Owns(g, k) => g = h

\* What was performed under a key stays covered no longer than its row lives.
Coverage == \A k \in Keys : cover[k] > 0 => row[k] # Null /\ cover[k] <= row[k].exp

\* The answer a handler is about to store is the one to its own request.
InHand ==
    \A h \in Handlers : at[h] = "store" =>
        /\ on[h].answer \in Answers
        /\ ~on[h].answer.late /\ on[h].answer.request = on[h].request

\* A row has the answer to its own request unless a late one came first.
OnFile == \A k \in Keys : Final(k) => row[k].answer.late \/ row[k].answer.request = row[k].request

IInv == TypeOK /\ Reservations /\ Coverage /\ InHand /\ OnFile /\ AnswersMatch

LEMMA InitEstablishes == Init => IInv
BY IdempotencyAssumption
   DEF Init, IInv, TypeOK, Reservations, Coverage, InHand, OnFile, AnswersMatch, Owns, Final

\* Disowning keys changes no more than who owns their rows.
LEMMA DisownedFacts ==
    ASSUME TypeOK, NEW D \in SUBSET Keys
    PROVE  /\ Disowned(D) \in [Handlers -> Calls \cup {Null}]
           /\ \A h \in Handlers :
                 /\ (Disowned(D)[h] = Null) <=> (on[h] = Null)
                 /\ on[h] # Null =>
                       /\ Disowned(D)[h].key = on[h].key
                       /\ Disowned(D)[h].request = on[h].request
                       /\ Disowned(D)[h].answer = on[h].answer
                       /\ Disowned(D)[h].own <=> (on[h].own /\ on[h].key \notin D)
<1>1. ASSUME NEW h \in Handlers, on[h] # Null
      PROVE  on[h] \in Calls
  BY <1>1 DEF TypeOK
<1>2. ASSUME NEW h \in Handlers, on[h] # Null, on[h].key \in D
      PROVE  /\ Disowned(D)[h] = [on[h] EXCEPT !.own = FALSE]
             /\ Disowned(D)[h] \in Calls
  BY <1>1, <1>2 DEF Disowned, Calls
<1>3. ASSUME NEW h \in Handlers, ~(on[h] # Null /\ on[h].key \in D)
      PROVE  Disowned(D)[h] = on[h]
  BY <1>3 DEF Disowned
<1>4. \A h \in Handlers : Disowned(D)[h] \in Calls \cup {Null}
  BY <1>1, <1>2, <1>3
<1>5. Disowned(D) \in [Handlers -> Calls \cup {Null}]
  BY <1>4 DEF Disowned
<1> QED
  BY <1>1, <1>2, <1>3, <1>5, IdempotencyAssumption DEF Calls

\* A new reservation.
LEMMA ReserveKeeps ==
    ASSUME IInv, NEW h \in Handlers, NEW k \in Keys, NEW r \in Requests,
           NEW wait \in Waits, Reserve(h, k, r, wait)
    PROVE  IInv'
<1> DEFINE new == [request |-> r, answer |-> Null, exp |-> Expiry - wait]
           call == [key |-> k, request |-> r, own |-> TRUE, answer |-> Null]
<1> USE DEF IInv
<1>1. new \in Rows /\ new # Null /\ call \in Calls /\ call # Null
  <2>1. Expiry - wait \in -BusyTimeout..Expiry
    BY IdempotencyAssumption DEF Waits
  <2>2. new \in Rows
    BY <2>1 DEF Rows
  <2>3. call \in Calls
    BY DEF Calls
  <2> QED
    BY <2>2, <2>3, IdempotencyAssumption
<1>2. /\ row' \in [Keys -> Rows \cup {Null}]
      /\ row'[k] = new
      /\ \A j \in Keys \ {k} : row'[j] = row[j]
  BY <1>1 DEF Reserve, TypeOK
<1>3. /\ on' \in [Handlers -> Calls \cup {Null}]
      /\ on'[h] = call
      /\ \A g \in Handlers \ {h} : on'[g] = Disowned({k})[g]
  BY <1>1, DisownedFacts DEF Reserve
<1>4. /\ at' = [at EXCEPT ![h] = "act"]
      /\ at'[h] = "act" /\ cover' = cover
      /\ \A g \in Handlers \ {h} : at'[g] = at[g]
      /\ at \in [Handlers -> {"idle", "act", "store", "reply"}]
  BY DEF Reserve, TypeOK
<1>5. \A g \in Handlers \ {h}, j \in Keys : Owns(g, j)' <=> Owns(g, j) /\ j # k
  BY <1>3, DisownedFacts DEF Owns
<1>6. \A j \in Keys : Owns(h, j)' <=> j = k
  BY <1>3, <1>1 DEF Owns
<1>7. cover[k] = 0
  BY IdempotencyAssumption DEF Reserve, Free, Expired, Coverage, TypeOK, Rows, Waits
<1>8. \A j \in Keys : Final(j)' <=> Final(j) /\ j # k
  BY <1>2, <1>1 DEF Final
<1>9. TypeOK'
  <2>1. older' \in [Keys -> SUBSET Keys]
    BY DEF Reserve, TypeOK, Present
  <2>2. \A g \in Handlers : (at'[g] = "idle") <=> (on'[g] = Null)
    BY <1>1, <1>3, <1>4, DisownedFacts DEF TypeOK
  <2> QED
    BY <1>2, <1>3, <1>4, <2>1, <2>2 DEF TypeOK
<1>10. Reservations'
  <2>1. ASSUME NEW j \in Keys, j # k, NEW g \in Handlers, Owns(g, j)'
        PROVE  /\ row'[j] # Null /\ row'[j].request = on'[g].request
               /\ at'[g] = "act" => cover'[j] = 0
               /\ at'[g] \in {"act", "store"} /\ Final(j)' => row'[j].answer.late
               /\ \A i \in Handlers : Owns(i, j)' => i = g
    <3>1. g # h /\ Owns(g, j)
      BY <2>1, <1>5, <1>6
    <3>2. on'[g].request = on[g].request
      BY <3>1, <1>3, DisownedFacts DEF Owns
    <3> QED
      BY <2>1, <3>1, <3>2, <1>2, <1>4, <1>5, <1>6, <1>8 DEF Reservations
  <2>2. ASSUME NEW g \in Handlers, Owns(g, k)'
        PROVE  /\ row'[k] # Null /\ row'[k].request = on'[g].request
               /\ at'[g] = "act" => cover'[k] = 0
               /\ ~Final(k)'
               /\ \A i \in Handlers : Owns(i, k)' => i = g
    BY <2>2, <1>1, <1>2, <1>3, <1>4, <1>5, <1>6, <1>7, <1>8
  <2> QED
    BY <2>1, <2>2 DEF Reservations
<1>11. Coverage'
  BY <1>2, <1>4, <1>7 DEF Coverage
<1>12. InHand'
  BY <1>3, <1>4, DisownedFacts DEF InHand, TypeOK
<1>13. OnFile'
  BY <1>2, <1>8 DEF OnFile
<1>14. AnswersMatch'
  <2>1. ASSUME NEW g \in Handlers, at'[g] = "reply"
        PROVE  /\ on'[g].answer.late \/ on'[g].answer.request = on'[g].request
               /\ on'[g].own => /\ row'[on'[g].key] # Null /\ row'[on'[g].key].answer # Null
                                /\ \/ row'[on'[g].key].answer = on'[g].answer
                                   \/ row'[on'[g].key].answer.late
    <3>1. g # h /\ at[g] = "reply" /\ on[g] # Null /\ on[g] \in Calls
      BY <2>1, <1>4 DEF TypeOK
    <3>2. /\ on'[g].answer = on[g].answer /\ on'[g].request = on[g].request
          /\ on'[g].key = on[g].key /\ (on'[g].own <=> on[g].own /\ on[g].key # k)
      BY <3>1, <1>3, DisownedFacts
    <3>3. ASSUME on'[g].own
          PROVE  /\ row'[on[g].key] # Null /\ row'[on[g].key].answer # Null
                 /\ \/ row'[on[g].key].answer = on[g].answer
                    \/ row'[on[g].key].answer.late
      <4>1. on[g].own /\ on[g].key \in Keys \ {k}
        BY <3>1, <3>2, <3>3 DEF Calls
      <4>2. /\ Final(on[g].key)
            /\ row[on[g].key].answer = on[g].answer \/ row[on[g].key].answer.late
        BY <3>1, <4>1 DEF AnswersMatch
      <4> QED
        BY <4>1, <4>2, <1>2 DEF Final
    <3>4. on[g].answer.late \/ on[g].answer.request = on[g].request
      BY <3>1 DEF AnswersMatch
    <3> QED
      BY <3>2, <3>3, <3>4
  <2> QED
    BY <2>1 DEF AnswersMatch, Final
<1> QED
  BY <1>9, <1>10, <1>11, <1>12, <1>13, <1>14

\* A stored answer is handed out.
LEMMA ReplayKeeps ==
    ASSUME IInv, NEW h \in Handlers, NEW k \in Keys, NEW r \in Requests,
           NEW wait \in Waits, Replay(h, k, r, wait)
    PROVE  IInv'
<1> DEFINE call == [key |-> k, request |-> r, own |-> FALSE, answer |-> row[k].answer]
<1> USE DEF IInv
<1>1. /\ row[k] \in Rows /\ row[k].answer \in Answers /\ row[k].request = r
      /\ call \in Calls /\ call # Null
  <2>1. row[k] # Null /\ row[k].answer # Null /\ row[k].request = r
    BY DEF Replay, Replays, Final
  <2>2. row[k] \in Rows
    BY <2>1 DEF TypeOK
  <2>3. row[k].answer \in Answers
    BY <2>1, <2>2 DEF Rows
  <2>4. call \in Calls
    BY <2>3 DEF Calls
  <2> QED
    BY <2>1, <2>2, <2>3, <2>4, IdempotencyAssumption
<1>2. /\ on' \in [Handlers -> Calls \cup {Null}]
      /\ on'[h] = call
      /\ \A g \in Handlers \ {h} : on'[g] = on[g]
      /\ at' \in [Handlers -> {"idle", "act", "store", "reply"}]
      /\ at'[h] = "reply"
      /\ \A g \in Handlers \ {h} : at'[g] = at[g]
      /\ UNCHANGED <<row, older, cover>>
  BY <1>1 DEF Replay, TypeOK
<1>3. \A g \in Handlers, j \in Keys : Owns(g, j)' => g # h /\ Owns(g, j)
  BY <1>1, <1>2 DEF Owns
<1>4. call.answer.late \/ call.answer.request = call.request
  BY <1>1 DEF OnFile, Replay, Replays
<1>5. TypeOK'
  BY <1>1, <1>2 DEF TypeOK
<1>6. Reservations'
  BY <1>2, <1>3 DEF Reservations, Final
<1>7. Coverage' /\ InHand' /\ OnFile'
  BY <1>2 DEF Coverage, InHand, OnFile, Final
<1>8. AnswersMatch'
  BY <1>1, <1>2, <1>4 DEF AnswersMatch, Final
<1> QED
  BY <1>5, <1>6, <1>7, <1>8

\* A call ends, or all of them do: nothing else changes.
LEMMA EndKeeps ==
    ASSUME IInv, UNCHANGED <<row, older, cover>>,
           at' \in [Handlers -> {"idle", "act", "store", "reply"}],
           on' \in [Handlers -> Calls \cup {Null}],
           \A h \in Handlers :
               \/ at'[h] = "idle" /\ on'[h] = Null
               \/ at'[h] = at[h] /\ on'[h] = on[h]
    PROVE  IInv'
<1> USE DEF IInv
<1>1. TypeOK'
  BY DEF TypeOK
<1>2. Reservations'
  BY DEF Reservations, Owns, Final
<1>3. Coverage' /\ InHand' /\ OnFile' /\ AnswersMatch'
  BY DEF Coverage, InHand, OnFile, AnswersMatch, Final
<1> QED
  BY <1>1, <1>2, <1>3

LEMMA EndsKeep ==
    ASSUME IInv, \/ Crash
                 \/ \E h \in Handlers : FinishFails(h) \/ Reply(h)
    PROVE  IInv'
<1>1. CASE Crash
  BY <1>1, EndKeeps DEF Crash
<1>2. ASSUME NEW h \in Handlers, FinishFails(h) \/ Reply(h)
      PROVE  IInv'
  BY <1>2, EndKeeps DEF FinishFails, Reply, End, IInv, TypeOK
<1> QED
  BY <1>1, <1>2

\* The action of a request is performed.
LEMMA PerformKeeps ==
    ASSUME IInv, NEW h \in Handlers, Perform(h)
    PROVE  IInv'
<1> DEFINE k == on[h].key
<1> USE DEF IInv
<1>1. on[h] \in Calls /\ on[h] # Null /\ k \in Keys /\ at[h] = "act"
  BY DEF Perform, TypeOK, Calls
<1>2. on[h].own => Owns(h, k) /\ row[k] \in Rows /\ cover[k] = 0
  BY <1>1 DEF Owns, Reservations, TypeOK
<1>3. /\ cover' \in [Keys -> 0..Expiry]
      /\ \A j \in Keys \ {k} : cover'[j] = cover[j]
      /\ cover'[k] = cover[k] \/ (on[h].own /\ cover'[k] = Longer(0, row[k].exp))
      /\ UNCHANGED <<row, older>>
  <2>1. CASE on[h].own
    <3>1. row[k].exp \in -BusyTimeout..Expiry /\ Expiry \in Nat /\ BusyTimeout \in Nat
      BY <1>2, <2>1, IdempotencyAssumption DEF Rows
    <3>2. Longer(0, row[k].exp) \in 0..Expiry
      BY <3>1 DEF Longer
    <3> QED
      BY <1>1, <1>2, <2>1, <3>2 DEF Perform, TypeOK
  <2>2. CASE ~on[h].own
    BY <2>2 DEF Perform, TypeOK
  <2> QED
    BY <2>1, <2>2
<1>4. /\ at' \in [Handlers -> {"idle", "act", "store", "reply"}]
      /\ on' \in [Handlers -> Calls \cup {Null}]
      /\ \A g \in Handlers \ {h} : at'[g] = at[g] /\ on'[g] = on[g]
      /\ \/ at'[h] = "idle" /\ on'[h] = Null
         \/ /\ at'[h] = "store" /\ on'[h] \in Calls /\ on'[h] # Null
            /\ on'[h].key = k /\ on'[h].request = on[h].request /\ on'[h].own = on[h].own
            /\ on'[h].answer \in Answers /\ ~on'[h].answer.late
            /\ on'[h].answer.request = on[h].request
  <2>1. CASE End(h)
    BY <2>1 DEF End, TypeOK
  <2>2. ASSUME NEW outcome \in {"completed", "failed"},
               at' = [at EXCEPT ![h] = "store"],
               on' = [on EXCEPT ![h].answer =
                   [request |-> on[h].request, outcome |-> outcome, late |-> FALSE]]
        PROVE  /\ at' \in [Handlers -> {"idle", "act", "store", "reply"}]
               /\ on' \in [Handlers -> Calls \cup {Null}]
               /\ \A g \in Handlers \ {h} : at'[g] = at[g] /\ on'[g] = on[g]
               /\ at'[h] = "store" /\ on'[h] \in Calls /\ on'[h] # Null
               /\ on'[h].key = k /\ on'[h].request = on[h].request
               /\ on'[h].own = on[h].own
               /\ on'[h].answer \in Answers /\ ~on'[h].answer.late
               /\ on'[h].answer.request = on[h].request
    <3> DEFINE a == [request |-> on[h].request, outcome |-> outcome, late |-> FALSE]
               c == [on[h] EXCEPT !.answer = a]
    <3>1. a \in Answers /\ ~a.late /\ a.request = on[h].request
      BY <1>1 DEF Answers, Calls
    <3>2. on' = [on EXCEPT ![h] = c]
      BY <2>2
    <3> HIDE DEF a
    <3>3. c \in Calls /\ c.key = k /\ c.request = on[h].request
          /\ c.own = on[h].own /\ c.answer = a
      BY <1>1, <3>1 DEF Calls
    <3>4. c # Null
      BY <3>3, IdempotencyAssumption
    <3> HIDE DEF c
    <3>5. on' \in [Handlers -> Calls \cup {Null}] /\ on'[h] = c
          /\ \A g \in Handlers \ {h} : on'[g] = on[g]
      BY <3>2, <3>3 DEF TypeOK
    <3>6. at' \in [Handlers -> {"idle", "act", "store", "reply"}] /\ at'[h] = "store"
          /\ \A g \in Handlers \ {h} : at'[g] = at[g]
      BY <2>2 DEF TypeOK
    <3> QED
      BY <3>1, <3>3, <3>4, <3>5, <3>6
  <2> QED
    BY <2>1, <2>2 DEF Perform
<1>5. \A g \in Handlers, j \in Keys : Owns(g, j)' => Owns(g, j) /\ (at'[g] = "act" => g # h)
  BY <1>1, <1>4 DEF Owns
<1>6. TypeOK'
  BY <1>1, <1>3, <1>4 DEF TypeOK
<1>7. Reservations'
  <2>1. ASSUME NEW j \in Keys, NEW g \in Handlers, Owns(g, j)'
        PROVE  /\ row'[j] # Null /\ row'[j].request = on'[g].request
               /\ at'[g] = "act" => cover'[j] = 0
               /\ at'[g] \in {"act", "store"} /\ Final(j)' => row'[j].answer.late
               /\ \A i \in Handlers : Owns(i, j)' => i = g
    <3>1. Owns(g, j) /\ row' = row /\ on'[g].request = on[g].request
      BY <1>3, <1>4, <1>5, <2>1 DEF Owns
    <3>2. at'[g] = "act" => cover'[j] = 0
      <4>1. ASSUME at'[g] = "act"
            PROVE  g # h /\ at[g] = "act" /\ cover[j] = 0
        BY <4>1, <1>5, <1>4, <2>1, <3>1 DEF Reservations
      <4>2. ASSUME at'[g] = "act", j = k, on[h].own
            PROVE  FALSE
        BY <4>1, <4>2, <3>1, <1>2 DEF Reservations
      <4> QED
        BY <4>1, <4>2, <1>3
    <3>3. at'[g] \in {"act", "store"} => at[g] \in {"act", "store"}
      BY <1>1, <1>4
    <3> QED
      BY <3>1, <3>2, <3>3, <1>5 DEF Reservations, Final
  <2> QED
    BY <2>1 DEF Reservations
<1>8. Coverage'
  BY <1>2, <1>3 DEF Coverage, Longer, Reservations
<1>9. InHand' /\ OnFile'
  BY <1>3, <1>4 DEF InHand, OnFile, Final
<1>10. AnswersMatch'
  BY <1>3, <1>4 DEF AnswersMatch, Final
<1> QED
  BY <1>6, <1>7, <1>8, <1>9, <1>10

\* An answer is stored, or one is found.
LEMMA FinishKeeps ==
    ASSUME IInv, NEW h \in Handlers, Finish(h)
    PROVE  IInv'
<1> DEFINE k == on[h].key
           a == [on[h].answer EXCEPT !.late = ~on[h].own]
<1> USE DEF IInv
<1>1. /\ on[h] \in Calls /\ on[h] # Null /\ k \in Keys /\ at[h] = "store"
      /\ row[k] \in Rows /\ row[k] # Null
  BY DEF Finish, TypeOK, Calls
<1>2. /\ on[h].answer \in Answers /\ ~on[h].answer.late
      /\ on[h].answer.request = on[h].request
  BY <1>1 DEF InHand
<1>3. /\ a \in Answers /\ a # Null /\ (a.late <=> ~on[h].own)
      /\ a.request = on[h].request
      /\ on[h].own => a = on[h].answer
  BY <1>1, <1>2, IdempotencyAssumption DEF Answers, Calls
<1> HIDE DEF a
<1>4. /\ row' \in [Keys -> Rows \cup {Null}]
      /\ \A j \in Keys \ {k} : row'[j] = row[j]
      /\ row'[k] # Null /\ row'[k].request = row[k].request /\ row'[k].exp = row[k].exp
      /\ IF Final(k) THEN row'[k] = row[k] ELSE row'[k].answer = a
  <2>1. CASE Final(k)
    BY <1>1, <2>1 DEF Finish, TypeOK
  <2>2. CASE ~Final(k)
    <3> DEFINE new == [row[k] EXCEPT !.answer = a]
    <3>1. /\ new \in Rows /\ new # Null /\ new.request = row[k].request
          /\ new.exp = row[k].exp /\ new.answer = a
      BY <1>1, <1>3, IdempotencyAssumption DEF Rows
    <3>2. row' = [row EXCEPT ![k] = new]
      BY <2>2 DEF Finish, a
    <3> HIDE DEF new
    <3> QED
      BY <2>2, <3>1, <3>2, <1>1 DEF TypeOK
  <2> QED
    BY <2>1, <2>2
<1>5. /\ at' \in [Handlers -> {"idle", "act", "store", "reply"}]
      /\ at'[h] = "reply"
      /\ \A g \in Handlers \ {h} : at'[g] = at[g]
      /\ UNCHANGED <<older, on, cover>>
  BY DEF Finish, TypeOK
<1>6. \A g \in Handlers, j \in Keys : Owns(g, j)' <=> Owns(g, j)
  BY <1>5 DEF Owns
<1>7. TypeOK'
  BY <1>1, <1>4, <1>5 DEF TypeOK
<1>8. Reservations'
  <2>1. ASSUME NEW j \in Keys, NEW g \in Handlers, Owns(g, j)'
        PROVE  /\ row'[j] # Null /\ row'[j].request = on'[g].request
               /\ at'[g] = "act" => cover'[j] = 0
               /\ at'[g] \in {"act", "store"} /\ Final(j)' => row'[j].answer.late
               /\ \A i \in Handlers : Owns(i, j)' => i = g
    <3>1. /\ Owns(g, j) /\ row[j] # Null /\ row[j].request = on[g].request
          /\ \A i \in Handlers : Owns(i, j) => i = g
      BY <2>1, <1>6 DEF Reservations
    <3>2. ASSUME at'[g] \in {"act", "store"}, row'[j].answer # Null
          PROVE  row'[j].answer.late
      <4>1. g # h /\ at[g] \in {"act", "store"}
        BY <3>2, <1>5
      <4>2. CASE Final(j)
        BY <4>1, <4>2, <3>1, <1>4 DEF Reservations
      <4>3. CASE ~Final(j)
        <5>1. j = k
          BY <4>3, <3>1, <3>2, <1>4 DEF Final
        <5>2. ~on[h].own
          BY <5>1, <4>1, <3>1, <1>1 DEF Owns
        <5> QED
          BY <5>1, <5>2, <4>3, <1>3, <1>4
      <4> QED
        BY <4>2, <4>3
    <3>3. at'[g] = "act" => at[g] = "act"
      BY <1>5
    <3> QED
      BY <2>1, <3>1, <3>2, <3>3, <1>4, <1>5, <1>6 DEF Final, Reservations
  <2> QED
    BY <2>1 DEF Reservations
<1>9. Coverage'
  BY <1>1, <1>4, <1>5 DEF Coverage
<1>10. InHand'
  BY <1>5 DEF InHand
<1>11. OnFile'
  <2>1. ASSUME NEW j \in Keys, row'[j].answer # Null, row'[j] # Null
        PROVE  row'[j].answer.late \/ row'[j].answer.request = row'[j].request
    <3>1. CASE j = k /\ ~Final(k)
      <4>1. on[h].own => Owns(h, k) /\ row[k].request = on[h].request
        BY <1>1 DEF Owns, Reservations
      <4> QED
        BY <3>1, <4>1, <1>1, <1>3, <1>4 DEF Calls
    <3>2. CASE ~(j = k /\ ~Final(k))
      BY <2>1, <3>2, <1>4 DEF OnFile, Final
    <3> QED
      BY <3>1, <3>2
  <2> QED
    BY <2>1 DEF OnFile, Final
<1>12. AnswersMatch'
  <2>1. ASSUME NEW g \in Handlers, at'[g] = "reply"
        PROVE  /\ on[g].answer.late \/ on[g].answer.request = on[g].request
               /\ on[g].own => /\ row'[on[g].key] # Null /\ row'[on[g].key].answer # Null
                               /\ \/ row'[on[g].key].answer = on[g].answer
                                  \/ row'[on[g].key].answer.late
    <3>1. CASE g = h
      <4>1. on[h].own /\ Final(k) => row[k].answer.late
        BY <1>1 DEF Owns, Reservations
      <4> QED
        BY <3>1, <4>1, <1>1, <1>2, <1>3, <1>4 DEF Final
    <3>2. CASE g # h
      <4>1. at[g] = "reply" /\ on[g] \in Calls
        BY <2>1, <3>2, <1>5 DEF TypeOK
      <4>2. on[g].own => Final(on[g].key) /\ on[g].key \in Keys
        BY <4>1 DEF AnswersMatch, Calls
      <4> QED
        BY <4>1, <4>2, <1>4 DEF AnswersMatch, Final
    <3> QED
      BY <3>1, <3>2
  <2> QED
    BY <2>1, <1>5 DEF AnswersMatch, Final
<1> QED
  BY <1>7, <1>8, <1>9, <1>10, <1>11, <1>12

\* Expired rows are deleted.
LEMMA SweepKeeps ==
    ASSUME IInv, NEW wait \in Waits, Sweep(wait)
    PROVE  IInv'
<1> USE DEF IInv
<1> DEFINE expired == {j \in Keys : Expired(j, wait)}
<1>1. PICK D \in SUBSET expired :
          /\ row' = [j \in Keys |-> IF j \in D THEN Null ELSE row[j]]
          /\ on' = Disowned(D)
          /\ UNCHANGED <<older, at, cover>>
  BY DEF Sweep
<1>2. \A j \in D : j \in Keys /\ Expired(j, wait) /\ row'[j] = Null
  BY <1>1
<1>3. D \in SUBSET Keys
  BY <1>2
<1>4. \A j \in Keys \ D : row'[j] = row[j]
  BY <1>1
<1>5. \A g \in Handlers, j \in Keys : Owns(g, j)' <=> Owns(g, j) /\ j \notin D
  BY <1>1, <1>3, DisownedFacts DEF Owns
<1>6. \A j \in D : cover[j] = 0
  BY <1>2, IdempotencyAssumption DEF Expired, Coverage, TypeOK, Rows, Waits
<1>7. TypeOK'
  BY <1>1, <1>3, <1>2, <1>4, DisownedFacts DEF TypeOK
<1>8. Reservations'
  <2>1. ASSUME NEW j \in Keys, NEW g \in Handlers, Owns(g, j)'
        PROVE  /\ row'[j] # Null /\ row'[j].request = on'[g].request
               /\ at'[g] = "act" => cover'[j] = 0
               /\ at'[g] \in {"act", "store"} /\ Final(j)' => row'[j].answer.late
               /\ \A i \in Handlers : Owns(i, j)' => i = g
    <3>1. Owns(g, j) /\ j \notin D /\ row'[j] = row[j]
      BY <2>1, <1>4, <1>5
    <3>2. on'[g].request = on[g].request
      BY <3>1, <1>1, <1>3, DisownedFacts DEF Owns
    <3> QED
      BY <2>1, <3>1, <3>2, <1>1, <1>5 DEF Reservations, Final
  <2> QED
    BY <2>1 DEF Reservations
<1>9. Coverage'
  BY <1>1, <1>2, <1>4, <1>6 DEF Coverage
<1>10. InHand'
  BY <1>1, <1>3, DisownedFacts DEF InHand, TypeOK
<1>11. OnFile'
  BY <1>2, <1>4 DEF OnFile, Final
<1>12. AnswersMatch'
  <2>1. ASSUME NEW g \in Handlers, at'[g] = "reply"
        PROVE  /\ on'[g].answer.late \/ on'[g].answer.request = on'[g].request
               /\ on'[g].own => /\ row'[on'[g].key] # Null /\ row'[on'[g].key].answer # Null
                                /\ \/ row'[on'[g].key].answer = on'[g].answer
                                   \/ row'[on'[g].key].answer.late
    <3>1. at[g] = "reply" /\ on[g] # Null /\ on[g] \in Calls
      BY <2>1, <1>1 DEF TypeOK
    <3>2. /\ on'[g].answer = on[g].answer /\ on'[g].request = on[g].request
          /\ on'[g].key = on[g].key /\ (on'[g].own <=> on[g].own /\ on[g].key \notin D)
      BY <3>1, <1>1, <1>3, DisownedFacts
    <3>3. on'[g].own => on[g].own /\ row'[on[g].key] = row[on[g].key]
      BY <3>1, <3>2, <1>4 DEF Calls
    <3> QED
      BY <3>1, <3>2, <3>3 DEF AnswersMatch, Final
  <2> QED
    BY <2>1 DEF AnswersMatch, Final
<1> QED
  BY <1>7, <1>8, <1>9, <1>10, <1>11, <1>12

\* Time passes.
LEMMA TickKeeps ==
    ASSUME IInv, Tick
    PROVE  IInv'
<1> USE DEF IInv
<1>1. ASSUME NEW k \in Keys
      PROVE  /\ row'[k] \in Rows \cup {Null} /\ (row'[k] = Null <=> row[k] = Null)
             /\ row[k] # Null => /\ row'[k].request = row[k].request
                                 /\ row'[k].answer = row[k].answer
                                 /\ row'[k].exp = row[k].exp \/ row'[k].exp = row[k].exp - 1
  <2>1. CASE row[k] # Null /\ row[k].exp > -BusyTimeout
    <3> DEFINE new == [row[k] EXCEPT !.exp = @ - 1]
    <3>1. row[k] \in Rows /\ row'[k] = new
      BY <2>1 DEF TypeOK, Tick
    <3>2. row[k].exp - 1 \in -BusyTimeout..Expiry
      BY <2>1, <3>1, IdempotencyAssumption DEF Rows
    <3>3. /\ new \in Rows /\ new # Null /\ new.request = row[k].request
          /\ new.answer = row[k].answer /\ new.exp = row[k].exp - 1
      BY <3>1, <3>2, IdempotencyAssumption DEF Rows
    <3> QED
      BY <2>1, <3>1, <3>3
  <2>2. CASE ~(row[k] # Null /\ row[k].exp > -BusyTimeout)
    BY <2>2 DEF Tick, TypeOK
  <2> QED
    BY <2>1, <2>2
<1>2. row' \in [Keys -> Rows \cup {Null}]
  <2>1. row' = [k \in Keys |-> row'[k]]
    BY DEF Tick
  <2> QED
    BY <1>1, <2>1
<1>3. /\ cover' \in [Keys -> 0..Expiry]
      /\ \A k \in Keys : cover'[k] = IF cover[k] > 0 THEN cover[k] - 1 ELSE 0
  BY IdempotencyAssumption DEF Tick, TypeOK
<1>4. UNCHANGED <<older, at, on>> /\ \A k \in Keys : Final(k)' <=> Final(k)
  BY <1>1 DEF Tick, Final
<1>5. TypeOK'
  BY <1>2, <1>3, <1>4 DEF TypeOK
<1>6. Reservations'
  <2>1. \A k \in Keys : cover[k] = 0 => cover'[k] = 0
    BY <1>3
  <2> QED
    BY <1>1, <1>4, <2>1 DEF Reservations, Owns
<1>7. Coverage'
  <2>1. ASSUME NEW k \in Keys, cover'[k] > 0
        PROVE  row'[k] # Null /\ cover'[k] <= row'[k].exp
    <3>1. cover[k] \in 0..Expiry /\ cover[k] > 0 /\ cover'[k] = cover[k] - 1
      BY <2>1, <1>3 DEF TypeOK
    <3>2. row[k] # Null /\ row[k].exp \in Int /\ cover[k] <= row[k].exp
      BY <3>1, IdempotencyAssumption DEF Coverage, TypeOK, Rows
    <3> QED
      BY <3>1, <3>2, <1>1
  <2> QED
    BY <2>1 DEF Coverage
<1>8. InHand' /\ OnFile'
  BY <1>1, <1>4 DEF InHand, OnFile, Final
<1>9. AnswersMatch'
  <2>1. ASSUME NEW h \in Handlers, at[h] = "reply", on[h].own
        PROVE  on[h].key \in Keys
    BY <2>1 DEF TypeOK, Calls
  <2> QED
    BY <1>1, <1>4, <2>1 DEF AnswersMatch, Final
<1> QED
  BY <1>5, <1>6, <1>7, <1>8, <1>9

LEMMA StepKeepsIInv ==
    ASSUME IInv, [Next]_vars
    PROVE  IInv'
<1>1. CASE UNCHANGED vars
  BY <1>1, EndKeeps DEF vars, IInv, TypeOK
<1>2. CASE Next
  <2>1. ASSUME NEW h \in Handlers, Request(h)
        PROVE  IInv'
    BY <2>1, ReserveKeeps, ReplayKeeps DEF Request
  <2>2. ASSUME NEW h \in Handlers, Progress(h)
        PROVE  IInv'
    BY <2>2, PerformKeeps, FinishKeeps, EndsKeep DEF Progress
  <2>3. CASE Maintain
    BY <2>3, SweepKeeps DEF Maintain
  <2> QED
    BY <1>2, <2>1, <2>2, <2>3, EndsKeep, TickKeeps DEF Next
<1> QED
  BY <1>1, <1>2

\* The conjunction of the invariants below and what they rest on holds in
\* every reachable state of the idempotency keys.
THEOREM KeysInvariance == Spec => []IInv
<1>1. Init => IInv
  BY InitEstablishes
<1>2. IInv /\ [Next]_vars => IInv'
  BY StepKeepsIInv
<1> QED
  BY <1>1, <1>2, PTL DEF Spec

\* Rows, calls and history values keep their types.
THEOREM KeysTypeCorrect == Spec => []TypeOK
BY KeysInvariance, PTL DEF IInv

\* An action is not performed twice, nor by two at once, within the life of
\* the key it was performed under (reserve and _finish).
THEOREM KeysExclusive == Spec => []WorkIsReserved
<1>1. IInv => WorkIsReserved
  BY DEF IInv, Reservations, WorkIsReserved
<1> QED
  BY <1>1, KeysInvariance, PTL

\* A client gets the answer to its own request, fresh or replayed, but for
\* requests that outlive their key.
THEOREM KeysAnswer == Spec => []AnswersMatch
BY KeysInvariance, PTL DEF IInv

\* No step changes a stored answer while its row lives.
THEOREM KeysStable == Spec => FinalIsStable
<1>1. ASSUME IInv, [Next]_vars, NEW k \in Keys, Final(k), Final(k)'
      PROVE  row'[k].answer = row[k].answer
  <2>1. CASE UNCHANGED row
    BY <2>1
  <2>2. ASSUME NEW h \in Handlers, Request(h) \/ Progress(h)
        PROVE  row'[k].answer = row[k].answer
    <3>1. ASSUME NEW j \in Keys, NEW r \in Requests, NEW wait \in Waits, Reserve(h, j, r, wait)
          PROVE  row'[k].answer = row[k].answer
      BY <1>1, <3>1 DEF Reserve, Final, IInv, TypeOK
    <3>2. CASE Finish(h)
      <4>1. on[h].key \in Keys
        BY <1>1, <3>2 DEF Finish, IInv, TypeOK, Calls
      <4> QED
        BY <1>1, <3>2, <4>1 DEF Finish, Final, IInv, TypeOK
    <3> QED
      BY <2>2, <3>1, <3>2 DEF Request, Replay, Progress, Perform, FinishFails, Reply
  <2>3. ASSUME NEW wait \in Waits, Sweep(wait)
        PROVE  row'[k].answer = row[k].answer
    BY <1>1, <2>3 DEF Sweep, Final
  <2>4. CASE Tick
    BY <1>1, <2>4 DEF Tick, Final, IInv, TypeOK, Rows
  <2> QED
    BY <1>1, <2>1, <2>2, <2>3, <2>4 DEF Next, Maintain, Crash, vars
<1>2. IInv /\ [Next]_vars =>
        [\A k \in Keys : Final(k) /\ Final(k)' => row'[k].answer = row[k].answer]_vars
  BY <1>1
<1> QED
  BY <1>2, KeysInvariance, PTL DEF Spec, FinalIsStable
=============================================================================
