-------------------------- MODULE TaskQueueProofs --------------------------
(***************************************************************************)
(* Theorems about the durable queue, for any set of tasks and workers, any *)
(* attempt budget and any lease, retry delay and busy timeout.             *)
(***************************************************************************)
EXTENDS TaskQueue, TLAPS

\* Facts about the constants that the steps below use again and again.
LEMMA ConstantFacts ==
    /\ MaxAttempts \in Nat \ {0} /\ LeaseSeconds \in Nat
    /\ RetryDelay \in Nat /\ BusyTimeout \in Nat
    /\ Null \notin Rows /\ Null \notin Claims /\ Null \notin AuditEvents
    /\ Null \notin Int /\ Null \notin Workers
BY QueueAssumption

\* Ageing a due time keeps it within the clipped range.
LEMMA AgedInRange ==
    ASSUME NEW hi \in Nat, NEW t \in (-BusyTimeout..hi) \cup {Null}
    PROVE  /\ Aged(t) \in (-BusyTimeout..hi) \cup {Null}
           /\ Aged(t) = Null <=> t = Null
BY ConstantFacts DEF Aged

-----------------------------------------------------------------------------
(* What one step does to one job.  Every operation writes the row of a      *)
(* single job, except that claim_next also fails exhausted claims and Tick  *)
(* ages every row; each row moves along one of these edges.                 *)

RowStep(k) ==
    \/ row'[k] = row[k]
    \/ row[k] # Null /\ row'[k] = AgedRow(k)
    \/ /\ row[k] = Null
       /\ \E max \in Budgets, delay \in Delays, wait \in Waits :
             row'[k] = NewRow(max, delay, wait)
    \/ \E w \in Workers, wait \in Waits :
          job[w] = Null /\ k \in Claimable(wait) /\ row'[k] = ClaimedRow(k, w, wait)
    \/ \E wait \in Waits : k \in Exhausted(wait) /\ row'[k] = ExhaustedRow(k)
    \/ In(k, {"claimed"}) /\ row'[k] = CompletedRow(k)
    \/ In(k, {"queued", "claimed"}) /\ row'[k] = CancelledRow(k)
    \/ /\ In(k, {"claimed"})
       /\ \E delay \in Delays, wait \in Waits : row'[k] = FailedRow(k, delay, wait)
    \/ /\ In(k, {"failed"})
       /\ \E max \in Budgets, delay \in Delays, wait \in Waits :
             row'[k] = RetriedRow(k, max, delay, wait)

RowSteps ==
    /\ row' = [k \in Tasks |-> row'[k]]
    /\ \A k \in Tasks : RowStep(k)

\* A step that writes the row of one job only needs that job looked at.
LEMMA OneRow ==
    ASSUME TypeOK, NEW j \in Tasks, NEW r, row' = [row EXCEPT ![j] = r],
           row'[j] = r => RowStep(j)
    PROVE  RowSteps
<1>1. row = [k \in Tasks |-> row[k]]
  BY DEF TypeOK
<1>2. row'[j] = r
  BY <1>1
<1>3. \A k \in Tasks : k # j => row'[k] = row[k]
  BY <1>1
<1>4. row' = [k \in Tasks |-> row'[k]]
  BY <1>1
<1> QED
  BY <1>2, <1>3, <1>4 DEF RowStep, RowSteps

\* Every step of the queue moves every row along an edge.
LEMMA StepMovesRows ==
    ASSUME TypeOK, [Next]_vars
    PROVE  RowSteps
<1>0. row = [k \in Tasks |-> row[k]]
  BY DEF TypeOK
<1>1. CASE Tick
  BY <1>1 DEF Tick, RowSteps, RowStep
<1>2. CASE UNCHANGED row
  BY <1>2, <1>0 DEF RowSteps, RowStep
<1>3. ASSUME NEW j \in Tasks, NEW max \in Budgets, NEW delay \in Delays, NEW wait \in Waits,
             InsertRow(j, max, delay, wait)
      PROVE  RowSteps
  <2>1. row'[j] = NewRow(max, delay, wait) => RowStep(j)
    BY <1>3 DEF InsertRow, RowStep
  <2> QED
    BY <2>1, <1>3, OneRow DEF InsertRow
<1>4. ASSUME NEW j \in Tasks, NEW max \in Budgets, NEW delay \in Delays, NEW wait \in Waits,
             RetryFailed(j, max, delay, wait)
      PROVE  RowSteps
  <2>1. row'[j] = RetriedRow(j, max, delay, wait) => RowStep(j)
    BY <1>4 DEF RetryFailed, RowStep
  <2> QED
    BY <2>1, <1>4, OneRow DEF RetryFailed
<1>5. ASSUME NEW j \in Tasks, In(j, {"queued", "claimed"}),
             row' = [row EXCEPT ![j] = CancelledRow(j)]
      PROVE  RowSteps
  <2>1. row'[j] = CancelledRow(j) => RowStep(j)
    BY <1>5 DEF RowStep
  <2> QED
    BY <2>1, <1>5, OneRow
<1>6. ASSUME NEW j \in Tasks, NEW delay \in Delays, NEW wait \in Waits, In(j, {"claimed"}),
             row' = [row EXCEPT ![j] = FailedRow(j, delay, wait)]
      PROVE  RowSteps
  <2>1. row'[j] = FailedRow(j, delay, wait) => RowStep(j)
    BY <1>6 DEF RowStep
  <2> QED
    BY <2>1, <1>6, OneRow
<1>7. ASSUME NEW w \in Workers, WorkerStep(w)
      PROVE  RowSteps
  <2> DEFINE j == job[w].task
  <2>0. job[w] # Null => j \in Tasks
    BY DEF TypeOK, Claims
  <2>1. ASSUME NEW wait \in Waits, SweepOnly(w, wait)
        PROVE  RowSteps
    BY <2>1 DEF SweepOnly, RowSteps, RowStep, Swept
  <2>2. ASSUME NEW wait \in Waits, NEW k \in Tasks, ClaimJob(w, k, wait)
        PROVE  RowSteps
    BY <2>2 DEF ClaimJob, RowSteps, RowStep, Swept
  <2>3. CASE Complete(w)
    <3>1. j \in Tasks /\ In(j, {"claimed"})
      BY <2>3, <2>0 DEF Complete, HoldsClaim
    <3>2. row'[j] = CompletedRow(j) => RowStep(j)
      BY <3>1 DEF RowStep
    <3> QED
      BY <2>3, <3>1, <3>2, OneRow DEF Complete
  <2>4. ASSUME NEW wait \in Waits, Fail(w, wait)
        PROVE  RowSteps
    BY <2>4, <2>0, <1>6 DEF Fail, HoldsClaim, Delays
  <2>5. CASE LostClaim(w) \/ Crash(w)
    BY <2>5, <1>2 DEF LostClaim, Crash
  <2>6. CASE WorkerCancel(w)
    BY <2>6, <2>0, <1>5 DEF WorkerCancel
  <2> QED
    BY <1>7, <2>1, <2>2, <2>3, <2>4, <2>5, <2>6 DEF WorkerStep, ClaimNext
<1>8. ASSUME NEW j \in Tasks, ApiStep(j)
      PROVE  RowSteps
  <2>1. CASE CancelQueued(j)
    BY <2>1, <1>5 DEF CancelQueued, In
  <2> QED
    BY <1>8, <2>1, <1>3, <1>4 DEF ApiStep, Enqueue
<1>9. ASSUME NEW j \in Tasks, ReconcilerStep(j)
      PROVE  RowSteps
  <2>1. MaxAttempts \in Budgets /\ 0 \in Delays
    BY ConstantFacts DEF Budgets, Delays
  <2>2. ASSUME NEW wait \in Waits, ReconcilerEnqueue(j, wait) \/ ReconcilerFail(j, wait)
        PROVE  RowSteps
    BY <2>2, <2>1, <1>3, <1>6 DEF ReconcilerEnqueue, ReconcilerFail
  <2>3. CASE ReconcilerCancel(j)
    BY <2>3, <1>5 DEF ReconcilerCancel
  <2>4. ASSUME NEW action \in Observations, RecordReconciliation(j, action)
        PROVE  RowSteps
    BY <2>4, <1>2 DEF RecordReconciliation
  <2> QED
    BY <1>9, <2>2, <2>3, <2>4 DEF ReconcilerStep
<1> QED
  BY <1>1, <1>2, <1>7, <1>8, <1>9 DEF Next, vars

-----------------------------------------------------------------------------
(* The edges keep the rows well typed and sound. *)

\* What a row satisfies on its own: the type of its columns and RowSound.
GoodRow(r) ==
    /\ r \in Rows
    /\ r.status = "queued" => r.attempts < r.max
    /\ r.status = "failed" => r.attempts = r.max
    /\ r.status \in {"claimed", "completed"} => r.attempts \in 1..r.max
    /\ (r.status = "claimed") <=> (r.worker # Null)
    /\ (r.status = "claimed") <=> (r.lease # Null)

LEMMA RowsAreGood ==
    ASSUME TypeOK
    PROVE  RowSound <=> \A j \in Tasks : row[j] # Null => GoodRow(row[j])
BY DEF RowSound, GoodRow, Present, TypeOK

\* A delay counted from a clock read up to BusyTimeout ago.
LEMMA StampInRange ==
    ASSUME NEW delay \in Delays, NEW wait \in Waits
    PROVE  delay - wait \in -BusyTimeout..RetryDelay
BY ConstantFacts DEF Delays, Waits

LEMMA NewRowGood ==
    ASSUME NEW max \in Budgets, NEW delay \in Delays, NEW wait \in Waits
    PROVE  GoodRow(NewRow(max, delay, wait))
<1>1. 0 \in 0..MaxAttempts /\ 0 < max /\ max \in Int
  BY ConstantFacts DEF Budgets
<1> QED
  BY <1>1, StampInRange DEF NewRow, GoodRow, Rows, Statuses

LEMMA RetriedRowGood ==
    ASSUME NEW j \in Tasks, row[j] \in Rows,
           NEW max \in Budgets, NEW delay \in Delays, NEW wait \in Waits
    PROVE  GoodRow(RetriedRow(j, max, delay, wait))
<1>1. 0 \in 0..MaxAttempts /\ 0 < max /\ max \in Int
  BY ConstantFacts DEF Budgets
<1> QED
  BY <1>1, StampInRange DEF RetriedRow, GoodRow, Rows, Statuses

LEMMA AgedRowGood ==
    ASSUME NEW j \in Tasks, GoodRow(row[j])
    PROVE  GoodRow(AgedRow(j))
<1>1. Aged(row[j].avail) \in (-BusyTimeout..RetryDelay) \cup {Null}
  BY AgedInRange, ConstantFacts DEF Rows, GoodRow
<1>2. /\ Aged(row[j].lease) \in (-BusyTimeout..LeaseSeconds) \cup {Null}
      /\ Aged(row[j].lease) = Null <=> row[j].lease = Null
  BY AgedInRange, ConstantFacts DEF Rows, GoodRow
<1> QED
  BY <1>1, <1>2 DEF AgedRow, Rows, GoodRow

LEMMA ClaimedRowGood ==
    ASSUME NEW j \in Tasks, GoodRow(row[j]), NEW w \in Workers, NEW wait \in Waits,
           j \in Claimable(wait)
    PROVE  GoodRow(ClaimedRow(j, w, wait)) /\ row[j].attempts + 1 \in Budgets
<1>1. row[j].attempts < row[j].max
  BY DEF Claimable, GoodRow, In
<1>2. /\ row[j].attempts + 1 \in 0..MaxAttempts
      /\ row[j].attempts + 1 \in Budgets
      /\ row[j].attempts + 1 \in 1..row[j].max
  BY <1>1, ConstantFacts DEF Rows, Budgets, GoodRow
<1>3. LeaseSeconds - wait \in -BusyTimeout..LeaseSeconds /\ LeaseSeconds - wait # Null
  BY ConstantFacts DEF Waits
<1> QED
  BY <1>2, <1>3, ConstantFacts DEF ClaimedRow, Rows, Statuses, GoodRow

LEMMA ExhaustedRowGood ==
    ASSUME NEW j \in Tasks, GoodRow(row[j]),
           In(j, {"claimed"}), row[j].attempts >= row[j].max
    PROVE  GoodRow(ExhaustedRow(j))
<1>1. row[j].attempts = row[j].max
  BY ConstantFacts DEF GoodRow, Rows, Budgets, In
<1> QED
  BY <1>1 DEF ExhaustedRow, GoodRow, Rows, Statuses

LEMMA FailedRowGood ==
    ASSUME NEW j \in Tasks, GoodRow(row[j]), In(j, {"claimed"}),
           NEW delay \in Delays, NEW wait \in Waits
    PROVE  GoodRow(FailedRow(j, delay, wait))
<1>1. CASE row[j].attempts < row[j].max
  BY <1>1, StampInRange DEF FailedRow, GoodRow, Rows, Statuses, In
<1>2. CASE ~(row[j].attempts < row[j].max)
  <2>1. row[j].attempts >= row[j].max
    BY <1>2, ConstantFacts DEF GoodRow, Rows, Budgets
  <2> QED
    BY <1>2, <2>1, ExhaustedRowGood DEF FailedRow
<1> QED
  BY <1>1, <1>2

LEMMA FinishedRowsGood ==
    ASSUME NEW j \in Tasks, GoodRow(row[j])
    PROVE  /\ GoodRow(CancelledRow(j))
           /\ In(j, {"claimed"}) => GoodRow(CompletedRow(j))
BY DEF GoodRow, CancelledRow, CompletedRow, Rows, Statuses, In

\* Each edge leads from a good row, or from no row, to a good one or to none.
LEMMA EdgesKeepRowsGood ==
    ASSUME TypeOK, RowSound, RowSteps
    PROVE  /\ row' \in [Tasks -> Rows \cup {Null}]
           /\ \A j \in Tasks : row'[j] # Null => GoodRow(row'[j])
<1>0. \A j \in Tasks : row[j] # Null => GoodRow(row[j])
  BY RowsAreGood
<1>1. ASSUME NEW j \in Tasks
      PROVE  (row'[j] = Null /\ row[j] = Null) \/ GoodRow(row'[j])
  <2>0. RowStep(j)
    BY DEF RowSteps
  <2>1. CASE row[j] = Null
    BY <2>0, <2>1, NewRowGood DEF RowStep, In, Claimable, Exhausted, Expired
  <2>2. CASE row[j] # Null
    <3>1. GoodRow(row[j]) /\ row[j] \in Rows
      BY <2>2, <1>0 DEF GoodRow
    <3>2. CASE row'[j] = row[j] \/ row'[j] = AgedRow(j)
      BY <3>1, <3>2, AgedRowGood
    <3>3. ASSUME NEW w \in Workers, NEW wait \in Waits,
                 j \in Claimable(wait), row'[j] = ClaimedRow(j, w, wait)
          PROVE  GoodRow(row'[j])
      BY <3>1, <3>3, ClaimedRowGood
    <3>4. ASSUME NEW wait \in Waits, j \in Exhausted(wait), row'[j] = ExhaustedRow(j)
          PROVE  GoodRow(row'[j])
      BY <3>1, <3>4, ExhaustedRowGood DEF Exhausted, Expired
    <3>5. CASE \/ In(j, {"claimed"}) /\ row'[j] = CompletedRow(j)
              \/ row'[j] = CancelledRow(j)
      BY <3>1, <3>5, FinishedRowsGood
    <3>6. ASSUME NEW delay \in Delays, NEW wait \in Waits,
                 In(j, {"claimed"}), row'[j] = FailedRow(j, delay, wait)
          PROVE  GoodRow(row'[j])
      BY <3>1, <3>6, FailedRowGood
    <3>7. ASSUME NEW max \in Budgets, NEW delay \in Delays, NEW wait \in Waits,
                 row'[j] = RetriedRow(j, max, delay, wait)
          PROVE  GoodRow(row'[j])
      BY <3>1, <3>7, RetriedRowGood
    <3> QED
      BY <2>0, <2>2, <3>2, <3>3, <3>4, <3>5, <3>6, <3>7 DEF RowStep
  <2> QED
    BY <2>1, <2>2
<1>2. \A j \in Tasks : row'[j] \in Rows \cup {Null}
  BY <1>1 DEF GoodRow
<1> QED
  BY <1>1, <1>2 DEF RowSteps

-----------------------------------------------------------------------------
(* The inductive invariant: the rows are sound, the audit explains them and *)
(* a claim a worker can still use is the current one.                       *)

IInv == TypeOK /\ RowSound /\ AuditExplainsRow /\ ClaimIsCurrent

LEMMA InitEstablishes == Init => IInv
BY ConstantFacts DEF Init, IInv, TypeOK, RowSound, AuditExplainsRow, ClaimIsCurrent, Present

\* The audit event of a job is left alone while its row at most ages, or it
\* is written in the same transaction as the row it describes.
AuditStep(k) ==
    \/ audit'[k] = audit[k] /\ (row'[k] = row[k] \/ (row[k] # Null /\ row'[k] = AgedRow(k)))
    \/ row'[k] # Null /\ audit'[k] \in AuditEvents /\ Explains(audit'[k], row'[k])

AuditSteps ==
    /\ audit' = [k \in Tasks |-> audit'[k]]
    /\ \A k \in Tasks : AuditStep(k)

LEMMA OneEvent ==
    ASSUME TypeOK, NEW j \in Tasks, NEW r, row' = [row EXCEPT ![j] = r], GoodRow(r),
           NEW event \in Events, Append1(j, event),
           Explains([event |-> event, attempt |-> r.attempts, status |-> r.status], r)
    PROVE  AuditSteps
<1>1. row'[j] = r /\ \A k \in Tasks : k # j => row'[k] = row[k]
  BY DEF TypeOK
<1>2. /\ audit'[j] = [event |-> event, attempt |-> r.attempts, status |-> r.status]
      /\ \A k \in Tasks : k # j => audit'[k] = audit[k]
      /\ audit' = [k \in Tasks |-> audit'[k]]
  BY <1>1 DEF TypeOK, Append1
<1>3. r # Null /\ audit'[j] \in AuditEvents
  BY <1>2, ConstantFacts DEF GoodRow, Rows, AuditEvents
<1> QED
  BY <1>1, <1>2, <1>3 DEF AuditSteps, AuditStep

LEMMA StepMovesAudit ==
    ASSUME IInv, [Next]_vars
    PROVE  AuditSteps
<1> USE DEF IInv
<1>0. /\ \A j \in Tasks : row[j] # Null => GoodRow(row[j])
      /\ audit = [k \in Tasks |-> audit[k]]
      /\ row = [k \in Tasks |-> row[k]]
  BY RowsAreGood DEF TypeOK
<1>1. CASE Tick
  BY <1>0, <1>1 DEF Tick, AuditSteps, AuditStep
<1>2. CASE UNCHANGED <<row, audit>>
  BY <1>0, <1>2 DEF AuditSteps, AuditStep
<1>3. ASSUME NEW j \in Tasks, NEW max \in Budgets, NEW delay \in Delays, NEW wait \in Waits,
             NEW event \in {"enqueued", "reconciled"},
             InsertRow(j, max, delay, wait), Append1(j, event)
      PROVE  AuditSteps
  <2>1. GoodRow(NewRow(max, delay, wait))
    BY NewRowGood
  <2>2. Explains([event |-> event, attempt |-> NewRow(max, delay, wait).attempts,
                  status |-> NewRow(max, delay, wait).status], NewRow(max, delay, wait))
    BY DEF NewRow, Explains
  <2> QED
    BY <1>3, <2>1, <2>2, OneEvent DEF InsertRow, Events
<1>4. ASSUME NEW j \in Tasks, NEW max \in Budgets, NEW delay \in Delays, NEW wait \in Waits,
             RetryFailed(j, max, delay, wait)
      PROVE  AuditSteps
  <2> DEFINE r == RetriedRow(j, max, delay, wait)
  <2>1. GoodRow(row[j]) /\ row[j] \in Rows
    BY <1>4, <1>0 DEF RetryFailed, In, GoodRow
  <2>2. GoodRow(r)
    BY <2>1, RetriedRowGood
  <2>3. Explains([event |-> "manually_retried", attempt |-> r.attempts, status |-> r.status], r)
    BY <2>1 DEF RetriedRow, Explains, Rows
  <2> HIDE DEF r
  <2> QED
    BY <1>4, <2>2, <2>3, OneEvent DEF RetryFailed, Events, r
<1>5. ASSUME NEW j \in Tasks, NEW event \in {"cancelled", "reconciled"},
             In(j, {"queued", "claimed"}), row' = [row EXCEPT ![j] = CancelledRow(j)],
             Append1(j, event)
      PROVE  AuditSteps
  <2>1. GoodRow(row[j]) /\ row[j] \in Rows
    BY <1>5, <1>0 DEF In, GoodRow
  <2>2. GoodRow(CancelledRow(j))
    BY <2>1, FinishedRowsGood
  <2>3. Explains([event |-> event, attempt |-> CancelledRow(j).attempts,
                  status |-> CancelledRow(j).status], CancelledRow(j))
    BY <2>1 DEF CancelledRow, Explains, Rows
  <2> QED
    BY <1>5, <2>2, <2>3, OneEvent DEF Events
<1>6. ASSUME NEW j \in Tasks, NEW delay \in Delays, NEW wait \in Waits, In(j, {"claimed"}),
             row' = [row EXCEPT ![j] = FailedRow(j, delay, wait)],
             NEW event \in {FailEvent(j), "reconciled"}, Append1(j, event)
      PROVE  AuditSteps
  <2>1. GoodRow(row[j]) /\ row[j] \in Rows
    BY <1>6, <1>0 DEF In, GoodRow
  <2>2. GoodRow(FailedRow(j, delay, wait))
    BY <2>1, <1>6, FailedRowGood
  <2>3. row[j].attempts \in 1..row[j].max /\ row[j].max \in Int
    BY <1>6, <2>1 DEF GoodRow, In, Rows, Budgets
  <2>4. Explains([event |-> event, attempt |-> FailedRow(j, delay, wait).attempts,
                  status |-> FailedRow(j, delay, wait).status], FailedRow(j, delay, wait))
    BY <1>6, <2>1, <2>3 DEF FailedRow, ExhaustedRow, FailEvent, Explains, Rows
  <2>5. event \in Events
    BY <1>6 DEF FailEvent, Events
  <2> QED
    BY <1>6, <2>2, <2>4, <2>5, OneEvent
<1>7. ASSUME NEW k \in Tasks, NEW wait \in Waits, k \in Exhausted(wait),
             row'[k] = ExhaustedRow(k), audit'[k] = SweepEvent(k)
      PROVE  AuditStep(k)
  <2>1. GoodRow(row[k]) /\ row[k] \in Rows
    BY <1>7, <1>0 DEF Exhausted, Expired, In, GoodRow
  <2>2. GoodRow(ExhaustedRow(k))
    BY <2>1, <1>7, ExhaustedRowGood DEF Exhausted, Expired
  <2>3. SweepEvent(k) \in AuditEvents /\ Explains(SweepEvent(k), ExhaustedRow(k))
    BY <2>1 DEF SweepEvent, ExhaustedRow, AuditEvents, Explains, Rows, Events, Statuses
  <2> QED
    BY <1>7, <2>2, <2>3, ConstantFacts DEF AuditStep, GoodRow
<1>8. ASSUME NEW w \in Workers, NEW wait \in Waits, SweepOnly(w, wait)
      PROVE  AuditSteps
  BY <1>8, <1>7 DEF SweepOnly, AuditSteps, AuditStep, Swept
<1>9. ASSUME NEW w \in Workers, NEW wait \in Waits, NEW j \in Tasks, ClaimJob(w, j, wait)
      PROVE  AuditSteps
  <2>1. GoodRow(row[j]) /\ row[j] \in Rows /\ j \in Claimable(wait)
    BY <1>9, <1>0 DEF ClaimJob, Claimable, Expired, In, GoodRow
  <2>2. GoodRow(ClaimedRow(j, w, wait)) /\ row[j].attempts + 1 \in Budgets
    BY <2>1, ClaimedRowGood
  <2>3. row'[j] = ClaimedRow(j, w, wait) /\ row'[j] # Null
    BY <1>9, <2>2, ConstantFacts DEF ClaimJob, GoodRow
  <2>4. audit'[j] = [event |-> "claimed", attempt |-> row[j].attempts + 1, status |-> "claimed"]
    BY <1>9 DEF ClaimJob
  <2>5. audit'[j] \in AuditEvents /\ Explains(audit'[j], row'[j])
    BY <2>1, <2>2, <2>3, <2>4
    DEF ClaimedRow, AuditEvents, Explains, Rows, Events, Statuses, Budgets
  <2>6. \A k \in Tasks : k # j => AuditStep(k)
    BY <1>9, <1>7 DEF ClaimJob, AuditStep, Swept
  <2> QED
    BY <1>9, <2>3, <2>5, <2>6 DEF ClaimJob, AuditSteps, AuditStep
<1>10. ASSUME NEW w \in Workers, WorkerStep(w)
       PROVE  AuditSteps
  <2> DEFINE j == job[w].task
  <2>0. job[w] # Null => j \in Tasks
    BY DEF TypeOK, Claims
  <2>1. CASE Complete(w)
    <3>1. j \in Tasks /\ In(j, {"claimed"}) /\ row' = [row EXCEPT ![j] = CompletedRow(j)]
      BY <2>1, <2>0 DEF Complete, HoldsClaim
    <3>2. GoodRow(row[j]) /\ row[j] \in Rows
      BY <3>1, <1>0 DEF In, GoodRow
    <3>3. GoodRow(CompletedRow(j))
      BY <3>1, <3>2, FinishedRowsGood
    <3>4. Explains([event |-> "completed", attempt |-> CompletedRow(j).attempts,
                    status |-> CompletedRow(j).status], CompletedRow(j))
      BY <3>2 DEF CompletedRow, Explains, Rows
    <3> QED
      BY <2>1, <3>1, <3>3, <3>4, OneEvent DEF Complete, Events
  <2>2. ASSUME NEW wait \in Waits, Fail(w, wait)
        PROVE  AuditSteps
    BY <2>2, <2>0, <1>6 DEF Fail, HoldsClaim, Delays
  <2>3. CASE LostClaim(w) \/ Crash(w)
    BY <2>3, <1>2 DEF LostClaim, Crash
  <2>4. CASE WorkerCancel(w)
    BY <2>4, <2>0, <1>5 DEF WorkerCancel
  <2> QED
    BY <1>10, <1>8, <1>9, <2>1, <2>2, <2>3, <2>4 DEF WorkerStep, ClaimNext
<1>11. ASSUME NEW j \in Tasks, ApiStep(j)
       PROVE  AuditSteps
  <2>1. CASE CancelQueued(j)
    BY <2>1, <1>5 DEF CancelQueued, In
  <2> QED
    BY <1>11, <2>1, <1>3, <1>4 DEF ApiStep, Enqueue
<1>12. ASSUME NEW j \in Tasks, ReconcilerStep(j)
       PROVE  AuditSteps
  <2>1. MaxAttempts \in Budgets /\ 0 \in Delays
    BY ConstantFacts DEF Budgets, Delays
  <2>2. ASSUME NEW wait \in Waits, ReconcilerEnqueue(j, wait) \/ ReconcilerFail(j, wait)
        PROVE  AuditSteps
    BY <2>2, <2>1, <1>3, <1>6 DEF ReconcilerEnqueue, ReconcilerFail, Append1Reconciled
  <2>3. CASE ReconcilerCancel(j)
    BY <2>3, <1>5 DEF ReconcilerCancel, Append1Reconciled
  <2>4. ASSUME NEW action \in Observations, RecordReconciliation(j, action)
        PROVE  AuditSteps
    BY <2>4, <1>2 DEF RecordReconciliation
  <2> QED
    BY <1>12, <2>2, <2>3, <2>4 DEF ReconcilerStep
<1> QED
  BY <1>1, <1>2, <1>10, <1>11, <1>12 DEF Next, vars

\* The bookkeeping around the rows keeps its types.
LEMMA TypeStep ==
    ASSUME IInv, [Next]_vars
    PROVE  TypeOK' /\ RowSound'
<1> USE DEF IInv
<1>0. RowSteps
  BY StepMovesRows
<1>1. /\ row' \in [Tasks -> Rows \cup {Null}]
      /\ \A j \in Tasks : row'[j] # Null => GoodRow(row'[j])
  BY <1>0, EdgesKeepRowsGood
<1>2. RowSound'
  BY <1>1, ConstantFacts DEF RowSound, Present, GoodRow
<1>3. older' \in [Tasks -> SUBSET Tasks]
  BY DEF Next, TypeOK, Tick, WorkerStep, ApiStep, ReconcilerStep, ClaimNext, SweepOnly,
         ClaimJob, Complete, Fail, LostClaim, WorkerCancel, Crash, Enqueue, InsertRow,
         RetryFailed, CancelQueued, ReconcilerEnqueue, ReconcilerFail, ReconcilerCancel,
         RecordReconciliation, Present, vars
<1>4. job' \in [Workers -> Claims \cup {Null}]
  <2>1. ASSUME NEW w \in Workers, NEW j \in Tasks, NEW wait \in Waits, ClaimJob(w, j, wait)
        PROVE  job' \in [Workers -> Claims \cup {Null}]
    <3>1. j \in Claimable(wait) /\ row[j] # Null
      BY <2>1 DEF ClaimJob, Claimable, Expired, In
    <3>2. GoodRow(row[j])
      BY <3>1, RowsAreGood
    <3>3. row[j].attempts + 1 \in Budgets
      BY <3>1, <3>2, ClaimedRowGood
    <3> QED
      BY <2>1, <3>3 DEF ClaimJob, TypeOK, Claims
  <2>2. ASSUME NEW w \in Workers, Release(w)
        PROVE  job' \in [Workers -> Claims \cup {Null}]
    BY <2>2 DEF Release, TypeOK
  <2>3. CASE UNCHANGED job
    BY <2>3 DEF TypeOK
  <2> QED
    BY <2>1, <2>2, <2>3
    DEF Next, Tick, WorkerStep, ApiStep, ReconcilerStep, ClaimNext, SweepOnly,
        Complete, Fail, LostClaim, WorkerCancel, Crash, Enqueue, InsertRow,
        RetryFailed, CancelQueued, ReconcilerEnqueue, ReconcilerFail, ReconcilerCancel,
        RecordReconciliation, vars
<1>5. recorded' \in [Tasks -> {"none", "created", "duplicate"}]
  BY ZenonT(60) DEF Next, TypeOK, Tick, WorkerStep, ApiStep, ReconcilerStep, ClaimNext, SweepOnly,
         ClaimJob, Complete, Fail, LostClaim, WorkerCancel, Crash, Enqueue, Append1,
         Append1Reconciled, RetryFailed, CancelQueued, ReconcilerEnqueue, ReconcilerFail,
         ReconcilerCancel, RecordReconciliation, vars
<1>6. audit' \in [Tasks -> AuditEvents \cup {Null}]
  <2>1. AuditSteps
    BY StepMovesAudit
  <2>2. \A k \in Tasks : audit'[k] \in AuditEvents \cup {Null}
    BY <2>1 DEF AuditSteps, AuditStep, TypeOK, AuditEvents
  <2> QED
    BY <2>1, <2>2 DEF AuditSteps
<1>7. lastRec' \in [Tasks -> ObservationRows \cup {Null}]
  <2>1. ASSUME NEW j \in Tasks, NEW action \in Observations, RecordReconciliation(j, action)
        PROVE  lastRec' \in [Tasks -> ObservationRows \cup {Null}]
    <3>1. row[j] \in Rows
      BY <2>1 DEF RecordReconciliation, TypeOK
    <3>2. Observation(j, action) \in ObservationRows
      BY <3>1 DEF Observation, Rows, ObservationRows
    <3> QED
      BY <2>1, <3>2 DEF RecordReconciliation, TypeOK
  <2>2. ASSUME NEW j \in Tasks, Append1Reconciled(j)
        PROVE  lastRec' \in [Tasks -> ObservationRows \cup {Null}]
    BY <2>2 DEF Append1Reconciled, TypeOK
  <2>3. CASE UNCHANGED lastRec
    BY <2>3 DEF TypeOK
  <2> QED
    BY <2>1, <2>2, <2>3
    DEF Next, Tick, WorkerStep, ApiStep, ReconcilerStep, ClaimNext, SweepOnly, ClaimJob,
        Complete, Fail, LostClaim, WorkerCancel, Crash, Enqueue, RetryFailed,
        CancelQueued, ReconcilerEnqueue, ReconcilerFail, ReconcilerCancel, vars
<1> QED
  BY <1>1, <1>2, <1>3, <1>4, <1>5, <1>6, <1>7 DEF TypeOK, AuditEvents

\* A claim a worker can still use keeps the attempt number of the row: only a
\* claim by that very worker counts the row up without changing its worker,
\* and a worker claims nothing while it holds a claim.
LEMMA ClaimStep ==
    ASSUME IInv, [Next]_vars
    PROVE  ClaimIsCurrent'
<1> USE DEF IInv
<1>0. RowSteps
  BY StepMovesRows
<1>1. \A j \in Tasks : row[j] # Null => GoodRow(row[j])
  BY RowsAreGood
<1>2. SUFFICES ASSUME NEW v \in Workers, job'[v] # Null, HoldsClaim(v, job[v].task)',
                      NEW k, k = job'[v].task
               PROVE  row'[k].attempts = job'[v].attempt
  BY DEF ClaimIsCurrent
\* Either v has just claimed k, or it held the same claim before.
<1>3. ASSUME NEW j \in Tasks, NEW wait \in Waits, ClaimJob(v, j, wait)
      PROVE  row'[k].attempts = job'[v].attempt
  <2>1. k = j /\ job'[v].attempt = row[j].attempts + 1
    BY <1>3, <1>2 DEF ClaimJob, TypeOK
  <2>2. GoodRow(row[j])
    BY <1>3, <1>1 DEF ClaimJob, Claimable, Expired, In
  <2> QED
    BY <1>3, <2>1, <2>2 DEF ClaimJob, ClaimedRow, GoodRow, Rows
<1>4. CASE job'[v] = job[v]
  <2>1. k \in Tasks /\ k = job[v].task
    BY <1>4, <1>2 DEF TypeOK, Claims
  <2>2. /\ RowStep(k)
        /\ row'[k] # Null /\ row'[k].status = "claimed" /\ row'[k].worker = v
    <3>1. RowStep(k)
      BY <2>1, <1>0 DEF RowSteps
    <3>2. row'[k] # Null /\ row'[k].status = "claimed" /\ row'[k].worker = v
      BY <1>2 DEF HoldsClaim, In
    <3> QED
      BY <3>1, <3>2
  <2>3. row[k] # Null
    <3>1. ASSUME row[k] = Null
          PROVE  row'[k] = row[k] \/ row'[k].status = "queued"
      <4>1. \A wait \in Waits : k \notin Claimable(wait) /\ k \notin Exhausted(wait)
        BY <3>1 DEF Claimable, Exhausted, Expired, In
      <4>2. ~In(k, {"claimed"}) /\ ~In(k, {"queued", "claimed"}) /\ ~In(k, {"failed"})
        BY <3>1 DEF In
      <4>3. \A max \in Budgets, delay \in Delays, wait \in Waits :
                NewRow(max, delay, wait).status = "queued"
        BY DEF NewRow
      <4> QED
        BY <2>2, <3>1, <4>1, <4>2, <4>3 DEF RowStep
    <3> QED
      BY <2>2, <3>1
  <2>4. row[k] \in Rows
    BY <2>1, <2>3 DEF TypeOK
  <2>5. CASE row'[k] = row[k] \/ row'[k] = AgedRow(k)
    <3>1. /\ row[k].status = "claimed" /\ row[k].worker = v
          /\ row'[k].attempts = row[k].attempts
      BY <2>5, <2>2, <2>4 DEF AgedRow, Rows
    <3>2. job[v] # Null /\ HoldsClaim(v, job[v].task)
      BY <3>1, <2>1, <2>3, <1>2, <1>4 DEF HoldsClaim, In
    <3> QED
      BY <3>1, <3>2, <2>1, <1>4 DEF ClaimIsCurrent
  \* A claim by v itself is excluded: v holds a claim already.
  <2>6. ASSUME NEW w \in Workers, NEW wait \in Waits,
               job[w] = Null, row'[k] = ClaimedRow(k, w, wait)
        PROVE  FALSE
    <3>1. w = v
      BY <2>2, <2>4, <2>6 DEF ClaimedRow, Rows
    <3> QED
      BY <3>1, <2>6, <1>2, <1>4
  <2>7. row'[k] = row[k] \/ row'[k] = AgedRow(k) \/
            \E w \in Workers, wait \in Waits :
                job[w] = Null /\ row'[k] = ClaimedRow(k, w, wait)
    BY <2>2, <2>3, <2>4
    DEF RowStep, ExhaustedRow, CompletedRow, CancelledRow, FailedRow, RetriedRow, Rows
  <2> QED
    BY <2>5, <2>6, <2>7
<1>5. job'[v] = job[v] \/ \E j \in Tasks, wait \in Waits : ClaimJob(v, j, wait)
  <2>1. ASSUME NEW w \in Workers, NEW j \in Tasks, NEW wait \in Waits, ClaimJob(w, j, wait), w # v
        PROVE  job'[v] = job[v]
    BY <2>1 DEF ClaimJob, TypeOK
  <2>2. ASSUME NEW w \in Workers, Release(w)
        PROVE  job'[v] = job[v]
    BY <2>2, <1>2 DEF Release, TypeOK
  <2> QED
    BY <2>1, <2>2
    DEF Next, Tick, WorkerStep, ApiStep, ReconcilerStep, ClaimNext, SweepOnly,
        Complete, Fail, LostClaim, WorkerCancel, Crash, Enqueue, InsertRow,
        RetryFailed, CancelQueued, ReconcilerEnqueue, ReconcilerFail, ReconcilerCancel,
        RecordReconciliation, vars
<1> QED
  BY <1>3, <1>4, <1>5

LEMMA StepKeepsIInv ==
    ASSUME IInv, [Next]_vars
    PROVE  IInv'
<1>1. TypeOK' /\ RowSound'
  BY TypeStep
<1>2. ClaimIsCurrent'
  BY ClaimStep
<1>3. AuditExplainsRow'
  <2>1. AuditSteps /\ RowSteps
    BY StepMovesAudit, StepMovesRows DEF IInv
  <2>2. ASSUME NEW j \in Tasks, row'[j] # Null
        PROVE  audit'[j] # Null /\ Explains(audit'[j], row'[j])
    <3>1. AuditStep(j)
      BY <2>1 DEF AuditSteps
    <3>2. CASE audit'[j] = audit[j] /\ row'[j] = row[j]
      BY <3>2, <2>2 DEF IInv, AuditExplainsRow, Present
    <3>3. CASE audit'[j] = audit[j] /\ row[j] # Null /\ row'[j] = AgedRow(j)
      <4>1. row[j] \in Rows /\ Explains(audit[j], row[j]) /\ audit[j] # Null
        BY <3>3 DEF IInv, TypeOK, AuditExplainsRow, Present
      <4> QED
        BY <3>3, <4>1 DEF AgedRow, Explains, Rows
    <3>4. CASE audit'[j] \in AuditEvents /\ Explains(audit'[j], row'[j])
      BY <3>4, ConstantFacts
    <3> QED
      BY <3>1, <3>2, <3>3, <3>4 DEF AuditStep
  <2> QED
    BY <2>2 DEF AuditExplainsRow, Present
<1> QED
  BY <1>1, <1>2, <1>3 DEF IInv

-----------------------------------------------------------------------------
(* The theorems. *)

\* Whatever the workers, the API and the reconciler do, and in whatever order,
\* the inductive invariant holds.
THEOREM Invariance == Spec => []IInv
<1>1. Init => IInv
  BY InitEstablishes
<1>2. IInv /\ [Next]_vars => IInv'
  BY StepKeepsIInv
<1> QED
  BY <1>1, <1>2, PTL DEF Spec

\* Every variable keeps its type; in particular attempts never exceed the
\* largest budget and leases stay within their range.
THEOREM TypeCorrect == Spec => []TypeOK
BY Invariance, PTL DEF IInv

\* Budgets are respected: queue_db fails a job only when every attempt was
\* spent and never counts an attempt beyond the budget.
THEOREM BudgetRespected == Spec => []RowSound
BY Invariance, PTL DEF IInv

\* The audit written with each transaction explains the row it left behind.
THEOREM AuditAgreement == Spec => []AuditExplainsRow
BY Invariance, PTL DEF IInv

\* complete and fail compare the worker only, yet never act on an old attempt.
THEOREM CurrentClaims == Spec => []ClaimIsCurrent
BY Invariance, PTL DEF IInv

\* No job changes hands before the lease of its worker has run out.
THEOREM LeasesHonoured == Spec => LeaseHonoured
<1>1. ASSUME IInv, [Next]_vars, NEW j \in Tasks,
             In(j, {"claimed"}), In(j, {"claimed"})', row'[j].worker # row[j].worker
      PROVE  row[j].lease <= 0
  <2>1. RowStep(j)
    BY <1>1, StepMovesRows DEF IInv, RowSteps
  <2>2. row[j] # Null /\ row[j] \in Rows /\ row[j].status = "claimed"
    BY <1>1 DEF IInv, TypeOK, In
  <2>3. row'[j].status = "claimed"
    BY <1>1 DEF In
  <2>4. PICK wait \in Waits : j \in Claimable(wait)
    BY <2>1, <2>2, <2>3, <1>1
    DEF RowStep, AgedRow, NewRow, ExhaustedRow, CompletedRow, CancelledRow, FailedRow,
        RetriedRow, Rows, In
  <2>5. row[j].lease # Null /\ row[j].lease <= -wait
    BY <2>4, <2>2 DEF Claimable, Expired, In
  <2>6. row[j].lease \in Int
    BY <2>5, <2>2, ConstantFacts DEF Rows
  <2> QED
    BY <2>5, <2>6, ConstantFacts DEF Waits
<1>2. IInv /\ [Next]_vars =>
          [\A j \in Tasks :
              In(j, {"claimed"}) /\ In(j, {"claimed"})' /\ row'[j].worker # row[j].worker
                  => row[j].lease <= 0]_vars
  BY <1>1
<1> QED
  BY <1>2, Invariance, PTL DEF Spec, LeaseHonoured

-----------------------------------------------------------------------------
(* The queue implements the lifecycle it promises each job. *)

\* Each edge of a row is an edge of its job's lifecycle, or leaves it alone.
LEMMA EdgesAreMoves ==
    ASSUME IInv, [Next]_vars, NEW j \in Tasks
    PROVE  Lifecycle!Move(j)
<1> USE DEF IInv
<1>1. RowSteps /\ RowStep(j)
  BY StepMovesRows DEF RowSteps
<1>2. /\ [k \in Tasks |-> Phase(row[k])][j] = Phase(row[j])
      /\ [k \in Tasks |-> Phase(row[k])]'[j] = Phase(row'[j])
      /\ [k \in Tasks |-> Left(row[k])][j] = Left(row[j])
      /\ [k \in Tasks |-> Left(row[k])]'[j] = Left(row'[j])
  OBVIOUS
<1>3. CASE row[j] = Null
  <2>1. CASE row'[j] = row[j]
    BY <1>2, <2>1 DEF Lifecycle!Move, Lifecycle!Stay
  <2>2. ASSUME NEW max \in Budgets, NEW delay \in Delays, NEW wait \in Waits,
               row'[j] = NewRow(max, delay, wait)
        PROVE  Lifecycle!Submit(j)
    <3>1. NewRow(max, delay, wait) # Null /\ max \in 1..MaxAttempts
      BY NewRowGood, ConstantFacts DEF GoodRow, Budgets
    <3>2. Phase(row'[j]) = "waiting" /\ Left(row'[j]) = max
      BY <2>2, <3>1 DEF NewRow, Phase, Left
    <3>3. Phase(row[j]) = "absent"
      BY <1>3 DEF Phase
    <3> QED
      BY <1>2, <3>1, <3>2, <3>3 DEF Lifecycle!Submit, Lifecycle!Edge
  <2>3. row'[j] = row[j] \/ \E max \in Budgets, delay \in Delays, wait \in Waits :
                                row'[j] = NewRow(max, delay, wait)
    <3>1. \A wait \in Waits : j \notin Claimable(wait) /\ j \notin Exhausted(wait)
      BY <1>3 DEF Claimable, Exhausted, Expired, In
    <3>2. ~In(j, {"claimed"}) /\ ~In(j, {"queued", "claimed"}) /\ ~In(j, {"failed"})
      BY <1>3 DEF In
    <3> QED
      BY <1>1, <1>3, <3>1, <3>2 DEF RowStep
  <2> QED
    BY <2>1, <2>2, <2>3 DEF Lifecycle!Move
<1>4. CASE row[j] # Null
  <2>0. /\ GoodRow(row[j]) /\ row[j] \in Rows
        /\ row[j].status \in Statuses /\ row[j].attempts \in Int /\ row[j].max \in 1..MaxAttempts
    BY <1>4, RowsAreGood DEF TypeOK, Rows, Budgets
  <2>1. row'[j] # Null => GoodRow(row'[j])
    BY <1>1, EdgesKeepRowsGood
  <2>2. CASE row'[j] = row[j] \/ row'[j] = AgedRow(j)
    <3>1. AgedRow(j) # Null
      BY <2>0, AgedRowGood, ConstantFacts DEF GoodRow
    <3>2. Phase(row'[j]) = Phase(row[j]) /\ Left(row'[j]) = Left(row[j])
      BY <2>0, <2>2, <1>4, <3>1 DEF AgedRow, Phase, Left, Rows
    <3> QED
      BY <1>2, <3>2 DEF Lifecycle!Move, Lifecycle!Stay
  <2>3. ASSUME NEW w \in Workers, NEW wait \in Waits,
               j \in Claimable(wait), row'[j] = ClaimedRow(j, w, wait)
        PROVE  Lifecycle!Move(j)
    <3>1. row'[j] # Null /\ row[j].status \in {"queued", "claimed"}
      BY <2>0, <2>3, ClaimedRowGood, ConstantFacts DEF GoodRow, Claimable, Expired, In
    <3>2. row[j].attempts < row[j].max
      BY <2>0, <2>3 DEF Claimable, GoodRow, In
    <3>3. Phase(row'[j]) = "delivered" /\ Left(row'[j]) = Left(row[j]) - 1
      BY <2>0, <2>3, <3>1, <1>4 DEF ClaimedRow, Phase, Left, Rows
    <3>4. Phase(row[j]) \in {"waiting", "delivered"} /\ Left(row[j]) > 0
      BY <2>0, <3>1, <3>2, <1>4 DEF Phase, Left
    <3> QED
      BY <1>2, <3>3, <3>4 DEF Lifecycle!Move, Lifecycle!Deliver, Lifecycle!Edge
  <2>4. ASSUME In(j, {"claimed"}), row[j].attempts >= row[j].max, row'[j] = ExhaustedRow(j)
        PROVE  Lifecycle!Move(j)
    <3>1. row'[j] # Null
      BY <2>0, <2>4, ExhaustedRowGood, ConstantFacts DEF GoodRow
    <3>2. Phase(row[j]) = "delivered" /\ Phase(row'[j]) = "failed"
      BY <2>0, <2>4, <3>1, <1>4 DEF ExhaustedRow, Phase, In, Rows
    <3>3. Left(row'[j]) = Left(row[j]) /\ ~(Left(row[j]) > 0)
      BY <2>0, <2>4, <3>1, <1>4 DEF ExhaustedRow, Left, Rows
    <3> QED
      BY <1>2, <3>2, <3>3 DEF Lifecycle!Move, Lifecycle!GiveBack, Lifecycle!Edge
  <2>5. ASSUME NEW delay \in Delays, NEW wait \in Waits,
               In(j, {"claimed"}), row'[j] = FailedRow(j, delay, wait)
        PROVE  Lifecycle!Move(j)
    <3>1. CASE row[j].attempts < row[j].max
      <4>1. row'[j] # Null
        BY <2>0, <2>5, FailedRowGood, ConstantFacts DEF GoodRow
      <4>2. Phase(row[j]) = "delivered" /\ Phase(row'[j]) = "waiting"
        BY <2>0, <2>5, <3>1, <4>1, <1>4 DEF FailedRow, Phase, In, Rows
      <4>3. Left(row'[j]) = Left(row[j]) /\ Left(row[j]) > 0
        BY <2>0, <2>5, <3>1, <4>1, <1>4 DEF FailedRow, Left, Rows
      <4> QED
        BY <1>2, <4>2, <4>3 DEF Lifecycle!Move, Lifecycle!GiveBack, Lifecycle!Edge
    <3>2. CASE ~(row[j].attempts < row[j].max)
      BY <2>0, <2>4, <2>5, <3>2 DEF FailedRow
    <3> QED
      BY <3>1, <3>2
  <2>6. ASSUME \/ In(j, {"claimed"}) /\ row'[j] = CompletedRow(j)
               \/ In(j, {"queued", "claimed"}) /\ row'[j] = CancelledRow(j)
        PROVE  Lifecycle!Move(j)
    <3>1. row'[j] # Null
      BY <2>0, <2>6, FinishedRowsGood, ConstantFacts DEF GoodRow
    <3>2. /\ \/ Phase(row[j]) = "delivered" /\ Phase(row'[j]) = "completed"
             \/ Phase(row[j]) \in {"waiting", "delivered"} /\ Phase(row'[j]) = "cancelled"
          /\ Left(row'[j]) = Left(row[j])
      BY <2>0, <2>6, <3>1, <1>4 DEF CompletedRow, CancelledRow, Phase, Left, In, Rows
    <3> QED
      BY <1>2, <3>2 DEF Lifecycle!Move, Lifecycle!Finish, Lifecycle!Edge
  <2>7. ASSUME NEW max \in Budgets, NEW delay \in Delays, NEW wait \in Waits,
               In(j, {"failed"}), row'[j] = RetriedRow(j, max, delay, wait)
        PROVE  Lifecycle!Move(j)
    <3>1. row'[j] # Null /\ max \in 1..MaxAttempts /\ max \in Int
      BY <2>0, <2>7, RetriedRowGood, ConstantFacts DEF GoodRow, Budgets
    <3>2. Phase(row[j]) = "failed" /\ Phase(row'[j]) = "waiting" /\ Left(row'[j]) = max
      BY <2>0, <2>7, <3>1, <1>4 DEF RetriedRow, Phase, Left, In, Rows
    <3> QED
      BY <1>2, <3>1, <3>2 DEF Lifecycle!Move, Lifecycle!Submit, Lifecycle!Edge
  <2>8. ASSUME NEW wait \in Waits, j \in Exhausted(wait)
        PROVE  In(j, {"claimed"}) /\ row[j].attempts >= row[j].max
    BY <2>8 DEF Exhausted, Expired
  <2> QED
    <3> DEFINE Claim == \E w \in Workers, wait \in Waits :
                            j \in Claimable(wait) /\ row'[j] = ClaimedRow(j, w, wait)
               Sweep == In(j, {"claimed"}) /\ row[j].attempts >= row[j].max
                            /\ row'[j] = ExhaustedRow(j)
               Rest  == \/ In(j, {"claimed"}) /\ row'[j] = CompletedRow(j)
                        \/ In(j, {"queued", "claimed"}) /\ row'[j] = CancelledRow(j)
               Again == \E delay \in Delays, wait \in Waits :
                            In(j, {"claimed"}) /\ row'[j] = FailedRow(j, delay, wait)
               Retry == \E max \in Budgets, delay \in Delays, wait \in Waits :
                            In(j, {"failed"}) /\ row'[j] = RetriedRow(j, max, delay, wait)
               Same  == row'[j] = row[j] \/ row'[j] = AgedRow(j)
    <3>1. Same \/ Claim \/ Sweep \/ Rest \/ Again \/ Retry
      BY <1>1, <1>4, <2>8 DEF RowStep
    <3>2. Same => Lifecycle!Move(j)
      BY <2>2
    <3>3. Claim => Lifecycle!Move(j)
      BY <2>3
    <3>4. Sweep => Lifecycle!Move(j)
      BY <2>4
    <3>5. Rest => Lifecycle!Move(j)
      BY <2>6
    <3>6. Again => Lifecycle!Move(j)
      BY <2>5
    <3>7. Retry => Lifecycle!Move(j)
      BY <2>7
    <3> HIDE DEF Same, Claim, Sweep, Rest, Again, Retry
    <3> QED
      BY <3>1, <3>2, <3>3, <3>4, <3>5, <3>6, <3>7
<1> QED
  BY <1>3, <1>4

\* TaskQueue implements JobLifecycle: the lifecycle of every job survives every
\* interleaving of claims, expiries, repairs, cancellations and retries.
THEOREM Refinement == Spec => LifecycleSpec
<1>1. Init => Lifecycle!Init
  BY DEF Init, Lifecycle!Init, Phase, Left
<1>2. IInv /\ [Next]_vars => Lifecycle!Next
  BY EdgesAreMoves DEF Lifecycle!Next
<1>3. IInv /\ [Next]_vars =>
        [Lifecycle!Next]_<<[j \in Tasks |-> Phase(row[j])], [j \in Tasks |-> Left(row[j])]>>
  BY <1>2
<1> QED
  BY <1>1, <1>3, Invariance, PTL DEF Spec, LifecycleSpec, Lifecycle!Spec
-----------------------------------------------------------------------------
(* The observation on file. *)

\* What a step does to the observation of one job: it forgets that one was
\* asked for, or leaves it alone while the row at most ages, or puts on file
\* what the row says at that moment.
NoteStep(k) ==
    \/ recorded'[k] = "none"
    \/ /\ recorded'[k] = recorded[k]
       /\ lastRec'[k] = lastRec[k]
       /\ row'[k] = row[k] \/ (row[k] # Null /\ row'[k] = AgedRow(k))
    \/ /\ row[k] # Null
       /\ row'[k] = row[k]
       /\ \E action \in Observations : lastRec'[k] = Observation(k, action)

NoteSteps == \A k \in Tasks : NoteStep(k)

\* A lifecycle event of one job leaves the observations of the others alone.
LEMMA OneForgotten ==
    ASSUME TypeOK, NEW j \in Tasks, NEW event, Append1(j, event),
           NEW r, row' = [row EXCEPT ![j] = r],
           lastRec' = lastRec \/ lastRec' = [lastRec EXCEPT ![j] = Null]
    PROVE  NoteSteps
<1>1. recorded'[j] = "none"
  BY DEF TypeOK, Append1
<1>2. ASSUME NEW k \in Tasks, k # j
      PROVE  recorded'[k] = recorded[k] /\ lastRec'[k] = lastRec[k] /\ row'[k] = row[k]
  BY <1>2 DEF TypeOK, Append1
<1> QED
  BY <1>1, <1>2 DEF NoteSteps, NoteStep

LEMMA StepMovesNotes ==
    ASSUME TypeOK, [Next]_vars
    PROVE  NoteSteps
<1>1. CASE Tick
  <2>1. ASSUME NEW k \in Tasks
        PROVE  row'[k] = row[k] \/ (row[k] # Null /\ row'[k] = AgedRow(k))
    BY <1>1 DEF Tick
  <2> QED
    BY <1>1, <2>1 DEF Tick, NoteSteps, NoteStep
<1>2. CASE UNCHANGED <<row, recorded, lastRec>>
  BY <1>2 DEF NoteSteps, NoteStep
<1>3. ASSUME NEW w \in Workers, WorkerStep(w)
      PROVE  NoteSteps
  <2>0. job[w] # Null => job[w].task \in Tasks
    BY DEF TypeOK, Claims
  <2>1. ASSUME NEW wait \in Waits, SweepOnly(w, wait)
        PROVE  NoteSteps
    <3>1. ASSUME NEW k \in Tasks
          PROVE  NoteStep(k)
      BY <2>1 DEF SweepOnly, Swept, NoteStep
    <3> QED
      BY <3>1 DEF NoteSteps
  <2>2. ASSUME NEW wait \in Waits, NEW j \in Tasks, ClaimJob(w, j, wait)
        PROVE  NoteSteps
    <3>1. ASSUME NEW k \in Tasks
          PROVE  NoteStep(k)
      BY <2>2 DEF ClaimJob, Swept, NoteStep
    <3> QED
      BY <3>1 DEF NoteSteps
  <2>3. CASE Complete(w)
    BY <2>0, <2>3, OneForgotten DEF Complete
  <2>4. ASSUME NEW wait \in Waits, Fail(w, wait)
        PROVE  NoteSteps
    BY <2>0, <2>4, OneForgotten DEF Fail
  <2>5. CASE WorkerCancel(w)
    BY <2>0, <2>5, OneForgotten DEF WorkerCancel
  <2> QED
    BY <1>2, <1>3, <2>1, <2>2, <2>3, <2>4, <2>5
    DEF WorkerStep, ClaimNext, LostClaim, Crash
<1>4. ASSUME NEW j \in Tasks, ApiStep(j)
      PROVE  NoteSteps
  BY <1>4, OneForgotten DEF ApiStep, Enqueue, InsertRow, RetryFailed, CancelQueued
<1>5. ASSUME NEW j \in Tasks, ReconcilerStep(j)
      PROVE  NoteSteps
  <2>1. ASSUME NEW wait \in Waits, ReconcilerEnqueue(j, wait)
        PROVE  NoteSteps
    BY <2>1, OneForgotten DEF ReconcilerEnqueue, InsertRow, Append1Reconciled
  <2>2. ASSUME NEW wait \in Waits, ReconcilerFail(j, wait)
        PROVE  NoteSteps
    BY <2>2, OneForgotten DEF ReconcilerFail, Append1Reconciled
  <2>3. CASE ReconcilerCancel(j)
    BY <2>3, OneForgotten DEF ReconcilerCancel, Append1Reconciled
  <2>4. ASSUME NEW action \in Observations, RecordReconciliation(j, action)
        PROVE  NoteSteps
    <3>1. row[j] # Null /\ row' = row /\ lastRec'[j] = Observation(j, action)
      BY <2>4 DEF RecordReconciliation, SameObservation, TypeOK
    <3>2. ASSUME NEW k \in Tasks, k # j
          PROVE  recorded'[k] = recorded[k] /\ lastRec'[k] = lastRec[k]
      BY <2>4, <3>2 DEF RecordReconciliation, TypeOK
    <3> QED
      BY <3>1, <3>2 DEF NoteSteps, NoteStep
  <2> QED
    BY <1>5, <2>1, <2>2, <2>3, <2>4 DEF ReconcilerStep
<1> QED
  BY <1>1, <1>2, <1>3, <1>4, <1>5 DEF Next, vars

\* The observation on file is the current one: a duplicate is answered only
\* for the very attempt and status of the row, and every transaction that
\* moves a row also appends the event that forgets the answer.
LEMMA StepKeepsObservation ==
    ASSUME TypeOK, ObservationIsCurrent, [Next]_vars
    PROVE  ObservationIsCurrent'
<1>1. ASSUME NEW k \in Tasks, recorded'[k] # "none"
      PROVE  /\ lastRec'[k] # Null
             /\ lastRec'[k].attempt = row'[k].attempts
             /\ lastRec'[k].status = row'[k].status
  <2>1. NoteStep(k)
    BY StepMovesNotes DEF NoteSteps
  <2>2. CASE /\ recorded'[k] = recorded[k]
             /\ lastRec'[k] = lastRec[k]
             /\ row'[k] = row[k] \/ (row[k] # Null /\ row'[k] = AgedRow(k))
    <3>1. row'[k] # row[k] => row[k] \in Rows
      BY <2>2 DEF TypeOK
    <3>2. row'[k].attempts = row[k].attempts /\ row'[k].status = row[k].status
      BY <2>2, <3>1 DEF AgedRow, Rows
    <3> QED
      BY <1>1, <2>2, <3>2 DEF ObservationIsCurrent
  <2>3. ASSUME NEW action \in Observations, row[k] # Null, row'[k] = row[k],
               lastRec'[k] = Observation(k, action)
        PROVE  /\ lastRec'[k] # Null
               /\ lastRec'[k].attempt = row'[k].attempts
               /\ lastRec'[k].status = row'[k].status
    <3>1. row[k] \in Rows
      BY <2>3 DEF TypeOK
    <3>2. Observation(k, action) \in ObservationRows
      BY <3>1 DEF Observation, Rows, ObservationRows
    <3>3. lastRec'[k] # Null
      BY <2>3, <3>2, QueueAssumption
    <3> QED
      BY <2>3, <3>3 DEF Observation
  <2> QED
    BY <1>1, <2>1, <2>2, <2>3 DEF NoteStep
<1> QED
  BY <1>1 DEF ObservationIsCurrent

\* record_reconciliation is idempotent without ever being stale: whenever it
\* has answered for a job, the latest observation on file has the job's
\* attempt and status as they are now.
THEOREM ObservationsCurrent == Spec => []ObservationIsCurrent
<1>1. Init => ObservationIsCurrent
  BY DEF Init, ObservationIsCurrent
<1>2. TypeOK /\ ObservationIsCurrent /\ [Next]_vars => ObservationIsCurrent'
  BY StepKeepsObservation
<1> QED
  BY <1>1, <1>2, TypeCorrect, PTL DEF Spec
=============================================================================
