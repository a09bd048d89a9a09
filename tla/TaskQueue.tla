----------------------------- MODULE TaskQueue -----------------------------
(***************************************************************************)
(* The durable job queue of app/database/queue_db.py: one SQLite table,    *)
(* every operation one BEGIN IMMEDIATE transaction that also appends a row *)
(* to the attempt audit.  Workers (app/core/task_worker.py) claim a job    *)
(* under a lease, run it and then complete, fail or cancel it; the startup *)
(* reconciler repairs rows left behind by a crashed process.               *)
(*                                                                         *)
(* Every timestamp is kept relative to the current time: an availability   *)
(* or lease of n lies n time units in the future, and Tick ages them all.  *)
(* The code reads its clock BEFORE it waits for the write lock (for at     *)
(* most the 30 s busy timeout), so an operation works with a time that is  *)
(* `wait' units old when it commits.  Relative times below -BusyTimeout    *)
(* are indistinguishable for every operation and are clipped there.        *)
(* available_at is only ever read of a queued row: avail is Null elsewhere. *)
(***************************************************************************)
EXTENDS Integers, FiniteSets

CONSTANTS
    Tasks,          \* task identifiers
    Workers,        \* worker slots; a restarted slot never reuses a live id
    Null,           \* SQL NULL, and "no job held"
    MaxAttempts,    \* largest attempt budget (10 in the code)
    LeaseSeconds,   \* lease granted by a claim (60 s)
    RetryDelay,     \* delay before an automatic retry (5 s)
    BusyTimeout,    \* longest wait for the SQLite write lock (30 s)
    Observations    \* actions recorded by the reconciler without a change

Statuses == {"queued", "claimed", "completed", "failed", "cancelled"}

Events == {"enqueued", "claimed", "completed", "retry_scheduled", "failed",
           "manually_retried", "cancelled", "reconciled"}

\* What the code's validation lets a caller ask for.
Budgets == 1..MaxAttempts
Delays  == {0, RetryDelay}
Waits   == 0..BusyTimeout

Rows ==
    [status : Statuses, attempts : 0..MaxAttempts, max : Budgets,
     avail : (-BusyTimeout..RetryDelay) \cup {Null},
     lease : (-BusyTimeout..LeaseSeconds) \cup {Null},
     worker : Workers \cup {Null}]

Claims == [task : Tasks, attempt : Budgets]

AuditEvents == [event : Events, attempt : 0..MaxAttempts, status : Statuses]

\* What a "reconciled" event says when it is an observation.
ObservationRows == [attempt : 0..MaxAttempts, status : Statuses, action : Observations]

ASSUME QueueAssumption ==
    /\ MaxAttempts \in Nat \ {0}
    /\ LeaseSeconds \in Nat
    /\ RetryDelay \in Nat
    /\ BusyTimeout \in Nat
    /\ Null \notin Workers
    /\ Null \notin Int
    /\ Null \notin Rows
    /\ Null \notin Claims
    /\ Null \notin AuditEvents \cup ObservationRows

VARIABLES
    row,        \* row[j]: the task_queue row of task j, or Null
    older,      \* older[j]: the tasks whose created_at precedes that of j
    job,        \* job[w]: the claim worker w is working on, or Null
    audit,      \* audit[j]: latest audit event of j, observations left out
    lastRec,    \* lastRec[j]: latest "reconciled" audit event of j when it is an
                \* observation, Null when it is a repair or there is none
    recorded    \* recorded[j]: what record_reconciliation last answered for
                \* j since its last lifecycle event ("none": not asked)

vars == <<row, older, job, audit, lastRec, recorded>>

Present == {j \in Tasks : row[j] # Null}

In(j, S) == row[j] # Null /\ row[j].status \in S

Init ==
    /\ row = [j \in Tasks |-> Null]
    /\ older = [j \in Tasks |-> {}]
    /\ job = [w \in Workers |-> Null]
    /\ audit = [j \in Tasks |-> Null]
    /\ lastRec = [j \in Tasks |-> Null]
    /\ recorded = [j \in Tasks |-> "none"]

-----------------------------------------------------------------------------
(* The audit rows written by the transaction of an operation. *)

\* Append one lifecycle event for j, carrying j's new attempt and status.
Append1(j, event) ==
    /\ audit' = [audit EXCEPT ![j] =
          [event |-> event, attempt |-> row'[j].attempts, status |-> row'[j].status]]
    /\ recorded' = [recorded EXCEPT ![j] = "none"]

\* The same event under the type "reconciled", as the reconciler asks for.
Append1Reconciled(j) ==
    /\ Append1(j, "reconciled")
    /\ lastRec' = [lastRec EXCEPT ![j] = Null]

-----------------------------------------------------------------------------
(* enqueue: by the chat API, or by the reconciler for a missing job. *)

NewRow(max, delay, wait) ==
    [status |-> "queued", attempts |-> 0, max |-> max,
     avail |-> delay - wait, lease |-> Null, worker |-> Null]

InsertRow(j, max, delay, wait) ==
    /\ row[j] = Null
    /\ row' = [row EXCEPT ![j] = NewRow(max, delay, wait)]
    /\ older' = [older EXCEPT ![j] = Present]
    /\ UNCHANGED job

Enqueue(j, max, delay, wait) ==
    /\ InsertRow(j, max, delay, wait)
    /\ Append1(j, "enqueued")
    /\ UNCHANGED lastRec

ReconcilerEnqueue(j, wait) ==
    /\ InsertRow(j, MaxAttempts, 0, wait)
    /\ Append1Reconciled(j)

-----------------------------------------------------------------------------
(* claim_next: fail the expired claims whose budget is spent, then claim   *)
(* the oldest job that is due, or whose claim has expired.                 *)

ExpiredIgnoringLease(j, wait) == In(j, {"claimed"})    \* mutant

Expired(j, wait) == In(j, {"claimed"}) /\ row[j].lease # Null /\ row[j].lease <= -wait

Exhausted(wait) ==
    {j \in Tasks : Expired(j, wait) /\ row[j].attempts >= row[j].max}

\* Mutants: expired claims taken again beyond the budget, or never.
ClaimableIgnoringBudget(wait) ==
    {j \in Tasks : (In(j, {"queued"}) /\ row[j].avail <= -wait) \/ Expired(j, wait)}
ClaimableQueuedOnly(wait) == {j \in Tasks : In(j, {"queued"}) /\ row[j].avail <= -wait}

Claimable(wait) ==
    {j \in Tasks : \/ In(j, {"queued"}) /\ row[j].avail <= -wait
                   \/ Expired(j, wait) /\ row[j].attempts < row[j].max}

ExhaustedRow(k) ==
    [row[k] EXCEPT !.status = "failed", !.worker = Null, !.lease = Null]

\* The row of k after the sweep of the exhausted claims.
Swept(k, wait) == IF k \in Exhausted(wait) THEN ExhaustedRow(k) ELSE row[k]

ClaimedRowKeepsWorker(j, w, wait) ==      \* mutant: the old worker stays named
    [row[j] EXCEPT !.status = "claimed", !.attempts = @ + 1, !.avail = Null,
                   !.worker = IF @ = Null THEN w ELSE @, !.lease = LeaseSeconds - wait]

\* The row of the chosen job once worker w has claimed it.
ClaimedRow(j, w, wait) ==
    [row[j] EXCEPT !.status = "claimed", !.attempts = @ + 1, !.avail = Null,
                   !.worker = w, !.lease = LeaseSeconds - wait]

SweepEvent(k) == [event |-> "failed", attempt |-> row[k].attempts, status |-> "failed"]

ClaimJob(w, j, wait) ==
    /\ job[w] = Null
    /\ j \in Claimable(wait)
    /\ older[j] \cap Claimable(wait) = {}
    /\ row' = [k \in Tasks |-> IF k = j THEN ClaimedRow(j, w, wait) ELSE Swept(k, wait)]
    /\ job' = [job EXCEPT ![w] = [task |-> j, attempt |-> row[j].attempts + 1]]
    /\ audit' = [k \in Tasks |->
          IF k = j
          THEN [event |-> "claimed", attempt |-> row[j].attempts + 1, status |-> "claimed"]
          ELSE IF k \in Exhausted(wait) THEN SweepEvent(k) ELSE audit[k]]
    /\ recorded' = [k \in Tasks |->
          IF k = j \/ k \in Exhausted(wait) THEN "none" ELSE recorded[k]]
    /\ UNCHANGED <<older, lastRec>>

\* claim_next that finds nothing to claim still commits its sweep.
SweepOnly(w, wait) ==
    /\ job[w] = Null
    /\ Claimable(wait) = {}
    /\ Exhausted(wait) # {}
    /\ row' = [k \in Tasks |-> Swept(k, wait)]
    /\ audit' = [k \in Tasks |-> IF k \in Exhausted(wait) THEN SweepEvent(k) ELSE audit[k]]
    /\ recorded' = [k \in Tasks |-> IF k \in Exhausted(wait) THEN "none" ELSE recorded[k]]
    /\ UNCHANGED <<older, job, lastRec>>

ClaimNext(w) ==
    \E wait \in Waits : SweepOnly(w, wait) \/ \E j \in Tasks : ClaimJob(w, j, wait)

-----------------------------------------------------------------------------
(* complete and fail: only the worker named in the row may do either; both *)
(* raise otherwise, and the worker drops the claim it believed it had.     *)

HoldsClaim(w, j) == In(j, {"claimed"}) /\ row[j].worker = w

CompletedRow(j) ==
    [row[j] EXCEPT !.status = "completed", !.worker = Null, !.lease = Null]

Release(w) == job' = [job EXCEPT ![w] = Null]

Complete(w) ==
    /\ job[w] # Null
    /\ LET j == job[w].task IN
       /\ HoldsClaim(w, j)
       /\ row' = [row EXCEPT ![j] = CompletedRow(j)]
       /\ Append1(j, "completed")
    /\ Release(w)
    /\ UNCHANGED <<older, lastRec>>

\* The row after a failed attempt: back to the queue while budget remains.
FailedRow(j, delay, wait) ==
    IF row[j].attempts < row[j].max
    THEN [row[j] EXCEPT !.status = "queued", !.avail = delay - wait,
                        !.worker = Null, !.lease = Null]
    ELSE ExhaustedRow(j)

FailEventAlwaysRetry(j) == "retry_scheduled"           \* mutant

FailEvent(j) == IF row[j].attempts < row[j].max THEN "retry_scheduled" ELSE "failed"

Fail(w, wait) ==
    /\ job[w] # Null
    /\ LET j == job[w].task IN
       /\ HoldsClaim(w, j)
       /\ row' = [row EXCEPT ![j] = FailedRow(j, RetryDelay, wait)]
       /\ Append1(j, FailEvent(j))
    /\ Release(w)
    /\ UNCHANGED <<older, lastRec>>

\* complete, then fail, raise: the claim was lost while the worker ran.
LostClaim(w) ==
    /\ job[w] # Null
    /\ ~HoldsClaim(w, job[w].task)
    /\ Release(w)
    /\ UNCHANGED <<row, older, audit, lastRec, recorded>>

\* The process of w dies; the claim stays in the table.
Crash(w) ==
    /\ job[w] # Null
    /\ Release(w)
    /\ UNCHANGED <<row, older, audit, lastRec, recorded>>

-----------------------------------------------------------------------------
(* cancel_queued (API) and cancel (worker, reconciler), retry_failed (API). *)

CancelledRow(j) ==
    [row[j] EXCEPT !.status = "cancelled", !.avail = Null, !.worker = Null, !.lease = Null]

CancelQueued(j) ==
    /\ In(j, {"queued"})
    /\ row' = [row EXCEPT ![j] = CancelledRow(j)]
    /\ Append1(j, "cancelled")
    /\ UNCHANGED <<older, job, lastRec>>

\* process_next removes the job of a task it finds already cancelled.
WorkerCancel(w) ==
    /\ job[w] # Null
    /\ LET j == job[w].task IN
       /\ In(j, {"queued", "claimed"})
       /\ row' = [row EXCEPT ![j] = CancelledRow(j)]
       /\ Append1(j, "cancelled")
    /\ Release(w)
    /\ UNCHANGED <<older, lastRec>>

ReconcilerCancel(j) ==
    /\ In(j, {"queued", "claimed"})
    /\ row' = [row EXCEPT ![j] = CancelledRow(j)]
    /\ Append1Reconciled(j)
    /\ UNCHANGED <<older, job>>

\* The reconciler fails a claim in the name of the worker it read in the row.
ReconcilerFail(j, wait) ==
    /\ In(j, {"claimed"})
    /\ row' = [row EXCEPT ![j] = FailedRow(j, 0, wait)]
    /\ Append1Reconciled(j)
    /\ UNCHANGED <<older, job>>

RetriedRow(j, max, delay, wait) ==
    [row[j] EXCEPT !.status = "queued", !.attempts = 0, !.max = max,
                   !.avail = delay - wait, !.worker = Null, !.lease = Null]

RetryFinished(j, max, delay, wait) ==     \* mutant: completed jobs retried too
    /\ In(j, {"failed", "completed"})
    /\ row' = [row EXCEPT ![j] = RetriedRow(j, max, delay, wait)]
    /\ Append1(j, "manually_retried")
    /\ UNCHANGED <<older, job, lastRec>>

RetryFailed(j, max, delay, wait) ==
    /\ In(j, {"failed"})
    /\ row' = [row EXCEPT ![j] = RetriedRow(j, max, delay, wait)]
    /\ Append1(j, "manually_retried")
    /\ UNCHANGED <<older, job, lastRec>>

-----------------------------------------------------------------------------
(* record_reconciliation: note an observation, once per repeated pass. *)

Observation(j, action) ==
    [attempt |-> row[j].attempts, status |-> row[j].status, action |-> action]

SameAction(j, action) == lastRec[j] # Null /\ lastRec[j].action = action   \* mutant

SameObservation(j, action) == lastRec[j] = Observation(j, action)

RecordReconciliation(j, action) ==
    /\ row[j] # Null
    /\ IF SameObservation(j, action)
       THEN /\ recorded' = [recorded EXCEPT ![j] = "duplicate"]
            /\ UNCHANGED lastRec
       ELSE /\ recorded' = [recorded EXCEPT ![j] = "created"]
            /\ lastRec' = [lastRec EXCEPT ![j] = Observation(j, action)]
    /\ UNCHANGED <<row, older, job, audit>>

-----------------------------------------------------------------------------
(* Time. *)

Aged(t) == IF t = Null THEN Null ELSE IF t > -BusyTimeout THEN t - 1 ELSE t

AgedRow(j) == [row[j] EXCEPT !.avail = Aged(@), !.lease = Aged(@)]

Tick ==
    /\ row' = [j \in Tasks |-> IF row[j] = Null THEN Null ELSE AgedRow(j)]
    /\ UNCHANGED <<older, job, audit, lastRec, recorded>>

-----------------------------------------------------------------------------

WorkerStep(w) ==
    \/ ClaimNext(w)
    \/ Complete(w)
    \/ \E wait \in Waits : Fail(w, wait)
    \/ LostClaim(w)
    \/ WorkerCancel(w)
    \/ Crash(w)

ApiStep(j) ==
    \/ \E max \in Budgets, delay \in Delays, wait \in Waits :
          \/ Enqueue(j, max, delay, wait)
          \/ RetryFailed(j, max, delay, wait)
    \/ CancelQueued(j)

ReconcilerStep(j) ==
    \/ \E wait \in Waits : ReconcilerEnqueue(j, wait) \/ ReconcilerFail(j, wait)
    \/ ReconcilerCancel(j)
    \/ \E action \in Observations :
          In(j, {"failed", "completed", "cancelled"}) /\ RecordReconciliation(j, action)

Next ==
    \/ Tick
    \/ \E w \in Workers : WorkerStep(w)
    \/ \E j \in Tasks : ApiStep(j) \/ ReconcilerStep(j)

Spec == Init /\ [][Next]_vars

\* A worker loop never stops polling, and every attempt it starts ends:
\* process_next completes, fails or cancels what it claimed.
Finish(w) ==
    \/ Complete(w)
    \/ \E wait \in Waits : Fail(w, wait)
    \/ LostClaim(w)
    \/ WorkerCancel(w)

Fairness ==
    /\ WF_vars(Tick)
    /\ \A w \in Workers : WF_vars(ClaimNext(w)) /\ WF_vars(Finish(w))

FairSpec == Spec /\ Fairness

-----------------------------------------------------------------------------
(* Properties. *)

\* Every column keeps its type and every counter its bound.
TypeOK ==
    /\ row \in [Tasks -> Rows \cup {Null}]
    /\ older \in [Tasks -> SUBSET Tasks]
    /\ job \in [Workers -> Claims \cup {Null}]
    /\ audit \in [Tasks -> AuditEvents \cup {Null}]
    /\ lastRec \in [Tasks -> ObservationRows \cup {Null}]
    /\ recorded \in [Tasks -> {"none", "created", "duplicate"}]

\* A job is declared failed only after its whole attempt budget was spent, a
\* job that waits always has budget left, and a worker and a lease are named
\* in the row exactly while it is claimed.  (claim_next counts attempts up,
\* fail and the lease sweep decide on them, retry_failed resets them.)
RowSound ==
    \A j \in Present :
        /\ row[j].status = "queued" => row[j].attempts < row[j].max
        /\ row[j].status = "failed" => row[j].attempts = row[j].max
        /\ row[j].status \in {"claimed", "completed"} => row[j].attempts \in 1..row[j].max
        /\ (row[j].status = "claimed") <=> (row[j].worker # Null)
        /\ (row[j].status = "claimed") <=> (row[j].lease # Null)

\* What each kind of lifecycle event says of the row that it was written with.
Explains(e, r) ==
    /\ e.attempt = r.attempts
    /\ e.status = r.status
    /\ e.event \in {"enqueued", "manually_retried"} => r.status = "queued" /\ r.attempts = 0
    /\ e.event = "retry_scheduled" => r.status = "queued" /\ r.attempts \in 1..(r.max - 1)
    /\ e.event \in {"claimed", "completed", "failed", "cancelled"} => r.status = e.event

\* The audit trail and the row never disagree: the latest lifecycle event of a
\* job explains its status and attempt, through every sweep, repair and retry.
AuditExplainsRow == \A j \in Present : audit[j] # Null /\ Explains(audit[j], row[j])

\* A worker that believes it holds an attempt, and is still the worker named in
\* the row, holds the attempt the row counts: a claim lost to an expired lease
\* and taken again by another worker is never mistaken for the current one.
ClaimIsCurrent ==
    \A w \in Workers :
        job[w] # Null /\ HoldsClaim(w, job[w].task)
            => row[job[w].task].attempts = job[w].attempt

\* A job is never handed to another worker while the lease of the worker
\* that holds it still runs, however long the claiming transaction waited.
LeaseHonoured ==
    [][\A j \in Tasks :
          In(j, {"claimed"}) /\ In(j, {"claimed"})' /\ row'[j].worker # row[j].worker
              => row[j].lease <= 0]_vars

\* Every job in the queue eventually leaves it, completed, failed or cancelled,
\* whatever crashes and however claims interleave, unless failed jobs are
\* manually retried for ever (a retried job keeps its old place in the order).
ManualRetry == \E j \in Tasks : In(j, {"failed"}) /\ In(j, {"queued"})'

JobsSettle ==
    <>[][~ManualRetry]_vars =>
        \A j \in Tasks :
            In(j, {"queued", "claimed"}) ~> In(j, {"completed", "failed", "cancelled"})

\* A row seen as a job of JobLifecycle.
Phase(r) ==
    IF r = Null THEN "absent"
    ELSE CASE r.status = "queued"  -> "waiting"
           [] r.status = "claimed" -> "delivered"
           [] OTHER                -> r.status

Left(r) == IF r = Null THEN 0 ELSE r.max - r.attempts

Lifecycle == INSTANCE JobLifecycle WITH
    phase <- [j \in Tasks |-> Phase(row[j])],
    left  <- [j \in Tasks |-> Left(row[j])]

\* The queue implements the lifecycle it promises each job, though it stores
\* no phase: claims, expiries, repairs and retries together never deliver a
\* job more often than its budget, and nothing revives a finished one.
LifecycleSpec == Lifecycle!Spec

\* When record_reconciliation answers for a job, new row or duplicate, the
\* latest observation on file describes the job as it is now.
ObservationIsCurrent ==
    \A j \in Tasks : recorded[j] # "none" =>
        /\ lastRec[j] # Null
        /\ lastRec[j].attempt = row[j].attempts
        /\ lastRec[j].status = row[j].status
=============================================================================
