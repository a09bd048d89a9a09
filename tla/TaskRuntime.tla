---------------------------- MODULE TaskRuntime ----------------------------
(***************************************************************************)
(* The task runtime of one backend process: the API handlers (app/api/     *)
(* chat.py, tasks.py, approvals.py), the worker thread (core/              *)
(* task_worker.py), MamaEngine.execute (core/engine.py), the task and      *)
(* approval registries, and the restart of the process (runtime_state.py,  *)
(* queue_reconciler.py).                                                   *)
(*                                                                         *)
(* One step is one call under a registry lock or one queue transaction:    *)
(* what a thread read in an earlier step may be stale when it acts on it.  *)
(* Both registries write through to SQLite under their lock, so one        *)
(* variable stands for memory and disk; a failed write rolls memory back.  *)
(* The queue is seen as JobLifecycle sees it (TaskQueue implements that):  *)
(* one worker, leases reduced to "a claim nobody works on expires some     *)
(* time".  An expired approval is refreshed by every call that reads it,   *)
(* so its deadline shows as a step of its own.                             *)
(***************************************************************************)
EXTENDS Integers, Sequences, FiniteSets

CONSTANTS
    Tasks,          \* task identifiers
    Handlers,       \* API handler threads
    Worker,         \* the worker thread
    Null,
    MaxAttempts,    \* delivery budget of a job
    MaxApprovals,   \* bound: approval requests per task
    JoinTimesOut,   \* an orderly stop may give up on a busy worker (30 s)
    MaxExits,       \* bound: ends of the process
    MaxFaults       \* bound: storage writes that fail

\* RiskPolicy.assess of a command: always the same for the same command.
Decisions == {"allow", "require_approval", "deny"}

Threads == Handlers \cup {Worker}

ASSUME RuntimeAssumption ==
    /\ Worker \notin Handlers
    /\ MaxAttempts \in Nat \ {0}
    /\ {MaxApprovals, MaxExits, MaxFaults} \subseteq Nat
    /\ JoinTimesOut \in BOOLEAN
    /\ Null \notin {"pending", "waiting", "running", "succeeded", "failed", "cancelled"}

VARIABLES
    task,       \* task[t]: status of t in the task registry, Null: unknown
    decision,   \* decision[t]: what the risk policy says of the command of t
    job,        \* job[t]: phase of the queue job of t
    left,       \* left[t]: deliveries the job of t may still consume
    ours,       \* ours[t]: the job of t carries the owner of the task
    approval,   \* approval[t]: statuses of the approval requests made for t
    runs,       \* runs[t]: how often the executor was called for t
    at,         \* at[th]: the call thread th makes next
    on,         \* on[th]: the task and approval th works on, or Null
    mode,       \* the process: "up", "stopping", "down" or "booting"
    kept,       \* what SQLite holds once persistence is disabled, else Null
    todo,       \* tasks and jobs the reconciliation pass has still to visit
    exits, faults

taskVars  == <<task, decision, runs>>
queueVars == <<job, left, ours>>
envVars   == <<mode, kept, todo, exits>>
vars == <<taskVars, queueVars, approval, at, on, envVars, faults>>

Terminal == {"succeeded", "failed", "cancelled"}

\* ALLOWED_TRANSITIONS; no caller asks for ROLLED_BACK.
Allowed ==
    [pending   |-> {"running", "waiting", "cancelled", "failed"},
     waiting   |-> {"running", "cancelled", "failed"},
     running   |-> {"waiting", "succeeded", "failed", "cancelled"},
     succeeded |-> {}, failed |-> {}, cancelled |-> {}]

\* TaskRecord.transition accepts a status the task already has.
MayBecome(t, status) == task[t] = status \/ status \in Allowed[task[t]]

Open(t) == task[t] \in {"pending", "waiting"}

ActiveApproval(t) == \E n \in DOMAIN approval[t] : approval[t][n] \in {"pending", "approved"}

Init ==
    /\ task = [t \in Tasks |-> Null]
    /\ decision = [t \in Tasks |-> Null]
    /\ job = [t \in Tasks |-> "absent"]
    /\ left = [t \in Tasks |-> 0]
    /\ ours = [t \in Tasks |-> TRUE]
    /\ approval = [t \in Tasks |-> <<>>]
    /\ runs = [t \in Tasks |-> 0]
    /\ at = [th \in Threads |-> "idle"]
    /\ on = [th \in Threads |-> Null]
    /\ mode = "up" /\ kept = Null /\ todo = {}
    /\ exits = 0 /\ faults = 0

-----------------------------------------------------------------------------
(* Control of a thread. *)

Begin(th, pc, t, n) ==
    /\ mode = "up" /\ at[th] = "idle"
    /\ at' = [at EXCEPT ![th] = pc]
    /\ on' = [on EXCEPT ![th] = [task |-> t, approval |-> n]]

Goto(th, pc) ==
    /\ at' = [at EXCEPT ![th] = pc]
    /\ on' = IF pc = "idle" THEN [on EXCEPT ![th] = Null] ELSE on

\* Where engine.execute returns to, and where an exception it lets out ends.
Return(th) == IF th = Worker THEN "complete" ELSE "idle"
Raise(th)  == IF th = Worker THEN "fail" ELSE "idle"

SetTask(t, status)  == task' = [task EXCEPT ![t] = status]
SetJob(t, phase)    == job' = [job EXCEPT ![t] = phase]
SetApproval(t, n, status) == approval' = [approval EXCEPT ![t][n] = status]

OnlyTask     == UNCHANGED <<decision, runs, queueVars, approval, envVars, faults>>
OnlyQueue    == UNCHANGED <<taskVars, approval, envVars, faults>>
OnlyApproval == UNCHANGED <<taskVars, queueVars, envVars, faults>>
OnlyThread   == UNCHANGED <<taskVars, queueVars, approval, envVars, faults>>

-----------------------------------------------------------------------------
(* POST /chat: register the task, then add it to the queue; a task that    *)
(* cannot be queued is cancelled again ("cancelTask").                     *)

Register(h, t) ==
    /\ task[t] = Null
    /\ Begin(h, "enqueue", t, 0)
    /\ SetTask(t, "pending")
    /\ \E d \in Decisions : decision' = [decision EXCEPT ![t] = d]
    /\ UNCHANGED <<runs, queueVars, approval, envVars, faults>>

Enqueue(h) ==
    /\ at[h] = "enqueue"
    /\ LET t == on[h].task IN
       /\ SetJob(t, "waiting")
       /\ left' = [left EXCEPT ![t] = MaxAttempts]
       /\ ours' = [ours EXCEPT ![t] = TRUE]
    /\ Goto(h, "idle")
    /\ OnlyQueue

-----------------------------------------------------------------------------
(* The worker: process_next. *)

Expirable == {t \in Tasks : job[t] = "delivered"}

\* claim_next: fail the expired claims with no budget left, claim another.
Poll ==
    /\ mode = "up" /\ at[Worker] = "idle"
    /\ \E expired \in SUBSET Expirable :
       LET spent == {t \in expired : left[t] = 0}
           due   == {t \in Tasks : job[t] = "waiting"} \cup (expired \ spent)
           Sweep(t) == IF t \in spent THEN "failed" ELSE job[t]
       IN  \/ /\ due = {} /\ spent # {}
              /\ job' = [t \in Tasks |-> Sweep(t)]
              /\ UNCHANGED <<left, at, on>>
           \/ \E t \in due :
              /\ job' = [k \in Tasks |-> IF k = t THEN "delivered" ELSE Sweep(k)]
              /\ left' = [left EXCEPT ![t] = @ - 1]
              /\ Begin(Worker, "inspect", t, 0)
    /\ UNCHANGED ours
    /\ OnlyQueue

\* Mutant: a job of another owner is dropped as if it had been delivered.
VerdictDropsForeign(t) ==
    CASE ~ours[t]                      -> "complete"
      [] task[t] = "cancelled"         -> "drop"
      [] task[t] \in {Null, "running"} -> "fail"
      [] task[t] = "pending"           -> "register"
      [] OTHER                         -> "complete"

Verdict(t) ==
    IF task[t] = Null \/ ~ours[t] THEN "fail"
    ELSE CASE task[t] = "cancelled" -> "drop"
           [] task[t] = "running"   -> "fail"
           [] task[t] = "pending"   -> "register"
           [] OTHER                 -> "complete"

Inspect ==
    /\ at[Worker] = "inspect"
    /\ Goto(Worker, Verdict(on[Worker].task))
    /\ OnlyThread

\* complete, fail and cancel refuse a job the worker no longer holds; an
\* exception of complete or cancel leads to fail, one of fail ends the round.
QueueComplete ==
    /\ at[Worker] = "complete"
    /\ LET t == on[Worker].task IN
       IF job[t] = "delivered"
       THEN SetJob(t, "completed") /\ Goto(Worker, "idle")
       ELSE UNCHANGED job /\ Goto(Worker, "fail")
    /\ UNCHANGED <<left, ours>>
    /\ OnlyQueue

GivenBackAlways(t) == "waiting"         \* mutant: the budget is not looked at

GivenBack(t) == IF left[t] > 0 THEN "waiting" ELSE "failed"

QueueFail ==
    /\ at[Worker] = "fail"
    /\ LET t == on[Worker].task IN
       IF job[t] = "delivered" THEN SetJob(t, GivenBack(t)) ELSE UNCHANGED job
    /\ Goto(Worker, "idle")
    /\ UNCHANGED <<left, ours>>
    /\ OnlyQueue

QueueDrop ==
    /\ at[Worker] = "drop"
    /\ LET t == on[Worker].task IN
       IF job[t] \in {"waiting", "delivered"}
       THEN SetJob(t, "cancelled") /\ Goto(Worker, "idle")
       ELSE UNCHANGED job /\ Goto(Worker, "fail")
    /\ UNCHANGED <<left, ours>>
    /\ OnlyQueue

-----------------------------------------------------------------------------
(* MamaEngine.execute, by the worker or by a handler with an approval. *)

Assessed(th) ==
    CASE decision[on[th].task] = "deny"  -> "deny"
      [] decision[on[th].task] = "allow" -> "check"
      [] OTHER -> IF on[th].approval = 0 THEN "require" ELSE "consume"

EnsureRegistered(th) ==
    /\ at[th] = "register"
    /\ Goto(th, IF Open(on[th].task) THEN Assessed(th) ELSE Return(th))
    /\ OnlyThread

DenyTask(th) ==
    /\ at[th] = "deny"
    /\ LET t == on[th].task IN
       IF MayBecome(t, "failed")
       THEN SetTask(t, "failed") /\ Goto(th, Return(th))
       ELSE UNCHANGED task /\ Goto(th, Raise(th))
    /\ OnlyTask

\* _request_approval (no approval in hand) first marks the task waiting and
\* then finds or creates a request; after a failed consume it is the other
\* way round.
AfterWaiting(th) == IF on[th].approval = 0 THEN "find" ELSE Return(th)
AfterRequest(th) == IF on[th].approval = 0 THEN Return(th) ELSE "require"

RequireTask(th) ==
    /\ at[th] = "require"
    /\ Goto(th, IF task[on[th].task] = "pending" THEN "markWaiting" ELSE AfterWaiting(th))
    /\ OnlyThread

MarkWaiting(th) ==
    /\ at[th] = "markWaiting"
    /\ LET t == on[th].task IN
       IF MayBecome(t, "waiting")
       THEN SetTask(t, "waiting") /\ Goto(th, AfterWaiting(th))
       ELSE UNCHANGED task /\ Goto(th, Raise(th))
    /\ OnlyTask

\* Mutant: an approved request is not found and a second one is created.
FindPendingApproval(th) ==
    /\ at[th] = "find"
    /\ LET t == on[th].task IN
       Goto(th, IF \E n \in DOMAIN approval[t] : approval[t][n] = "pending"
                THEN AfterRequest(th) ELSE "create")
    /\ OnlyThread

FindActiveApproval(th) ==
    /\ at[th] = "find"
    /\ Goto(th, IF ActiveApproval(on[th].task) THEN AfterRequest(th) ELSE "create")
    /\ OnlyThread

CreateApproval(th) ==
    /\ at[th] = "create"
    /\ LET t == on[th].task IN
       /\ Len(approval[t]) < MaxApprovals
       /\ approval' = [approval EXCEPT ![t] = Append(@, "pending")]
    /\ Goto(th, AfterRequest(th))
    /\ OnlyApproval

\* Mutant: a token that is refused does not keep the task from starting.
ConsumeApproval(th) ==
    /\ at[th] = "consume"
    /\ LET t == on[th].task  n == on[th].approval IN
       IF approval[t][n] = "approved"
       THEN SetApproval(t, n, "consumed") /\ Goto(th, "check")
       ELSE UNCHANGED approval /\ Goto(th, "find")
    /\ OnlyApproval

\* _mark_running reads the task, then moves it: two calls.
CheckStart(th) ==
    /\ at[th] = "check"
    /\ Goto(th, IF Open(on[th].task) THEN "markRunning" ELSE Return(th))
    /\ OnlyThread

MarkRunning(th) ==
    /\ at[th] = "markRunning"
    /\ LET t == on[th].task IN
       IF MayBecome(t, "running")
       THEN SetTask(t, "running") /\ Goto(th, "execute")
       ELSE UNCHANGED task /\ Goto(th, Return(th))
    /\ OnlyTask

RunExecutor(th) ==
    /\ at[th] = "execute"
    /\ runs' = [runs EXCEPT ![on[th].task] = @ + 1]
    /\ \/ Goto(th, "succeed")
       \/ Goto(th, "abort")         \* the executor raised
    /\ UNCHANGED <<task, decision, queueVars, approval, envVars, faults>>

\* complete() with the success; if that raises, with the failure.
RecordSuccess(th) ==
    /\ at[th] = "succeed"
    /\ LET t == on[th].task IN
       IF MayBecome(t, "succeeded")
       THEN SetTask(t, "succeeded") /\ Goto(th, Return(th))
       ELSE UNCHANGED task /\ Goto(th, "abort")
    /\ OnlyTask

RecordFailure(th) ==
    /\ at[th] = "abort"
    /\ LET t == on[th].task IN
       IF MayBecome(t, "failed") THEN SetTask(t, "failed") ELSE UNCHANGED task
    /\ Goto(th, Return(th))
    /\ OnlyTask

EngineStep(th) ==
    \/ EnsureRegistered(th)
    \/ DenyTask(th)
    \/ RequireTask(th)
    \/ MarkWaiting(th)
    \/ FindActiveApproval(th)
    \/ CreateApproval(th)
    \/ ConsumeApproval(th)
    \/ CheckStart(th)
    \/ MarkRunning(th)
    \/ RunExecutor(th)
    \/ RecordSuccess(th)
    \/ RecordFailure(th)

-----------------------------------------------------------------------------
(* POST /approvals/{id}/approve and /reject. *)

BeginDecision(h, t, n) ==
    /\ Open(t)
    /\ n \in DOMAIN approval[t]
    /\ Begin(h, "approve", t, n) \/ Begin(h, "reject", t, n)
    /\ OnlyThread

\* The grant's token goes straight into engine.execute.
Approve(h) ==
    /\ at[h] = "approve"
    /\ LET t == on[h].task  n == on[h].approval IN
       IF approval[t][n] = "pending"
       THEN SetApproval(t, n, "approved") /\ Goto(h, "register")
       ELSE UNCHANGED approval /\ Goto(h, "idle")
    /\ OnlyApproval

Reject(h) ==
    /\ at[h] = "reject"
    /\ LET t == on[h].task  n == on[h].approval IN
       IF approval[t][n] = "pending"
       THEN SetApproval(t, n, "rejected") /\ Goto(h, "cancelTask")
       ELSE UNCHANGED approval /\ Goto(h, "idle")
    /\ OnlyApproval

-----------------------------------------------------------------------------
(* POST /tasks/{id}/cancel and /retry: both read the task, then the job,   *)
(* and both refuse a job that carries another owner.                       *)

BeginPending(h, t) ==
    /\ task[t] = "pending"
    /\ Begin(h, "cancelRead", t, 0) \/ Begin(h, "retryRead", t, 0)
    /\ OnlyThread

CancelRead(h) ==
    /\ at[h] = "cancelRead"
    /\ LET t == on[h].task IN
       Goto(h, CASE job[t] = "absent" \/ ~ours[t] -> "idle"
                 [] job[t] = "cancelled"          -> "cancelTask"
                 [] OTHER                         -> "cancelJob")
    /\ OnlyThread

CancelAnyJob(h) ==              \* mutant: a claimed job is cancelled too
    /\ at[h] = "cancelJob"
    /\ LET t == on[h].task IN
       IF job[t] \in {"waiting", "delivered"}
       THEN SetJob(t, "cancelled") /\ Goto(h, "cancelTask")
       ELSE UNCHANGED job /\ Goto(h, "idle")
    /\ UNCHANGED <<left, ours>>
    /\ OnlyQueue

CancelJob(h) ==
    /\ at[h] = "cancelJob"
    /\ LET t == on[h].task IN
       IF job[t] = "waiting"
       THEN SetJob(t, "cancelled") /\ Goto(h, "cancelTask")
       ELSE UNCHANGED job /\ Goto(h, "idle")
    /\ UNCHANGED <<left, ours>>
    /\ OnlyQueue

CancelTask(h) ==
    /\ at[h] = "cancelTask"
    /\ LET t == on[h].task IN
       IF MayBecome(t, "cancelled") THEN SetTask(t, "cancelled") ELSE UNCHANGED task
    /\ Goto(h, "idle")
    /\ OnlyTask

RetryRead(h) ==
    /\ at[h] = "retryRead"
    /\ LET t == on[h].task IN
       Goto(h, IF job[t] = "failed" /\ ours[t] THEN "retry" ELSE "idle")
    /\ OnlyThread

RetryFailed(h) ==
    /\ at[h] = "retry"
    /\ LET t == on[h].task IN
       IF job[t] = "failed"
       THEN /\ SetJob(t, "waiting")
            /\ \E max \in 1..MaxAttempts : left' = [left EXCEPT ![t] = max]
       ELSE UNCHANGED <<job, left>>
    /\ Goto(h, "idle")
    /\ UNCHANGED ours
    /\ OnlyQueue

HandlerStep(h) ==
    \/ Enqueue(h)
    \/ Approve(h)
    \/ Reject(h)
    \/ CancelRead(h)
    \/ CancelJob(h)
    \/ CancelTask(h)
    \/ RetryRead(h)
    \/ RetryFailed(h)

WorkerStep ==
    \/ Inspect
    \/ QueueComplete
    \/ QueueFail
    \/ QueueDrop

-----------------------------------------------------------------------------
(* Storage that refuses a write, approvals that expire, and restarts. *)

Writes == {"enqueue", "complete", "fail", "drop", "deny", "markWaiting", "create",
           "consume", "markRunning", "succeed", "abort", "approve", "reject",
           "cancelJob", "cancelTask", "retry"}

\* Nothing is written; the exception goes where the code lets it go.
OnFailure(th) ==
    CASE at[th] = "enqueue"                            -> "cancelTask"
      [] at[th] \in {"complete", "drop"}               -> "fail"
      [] at[th] \in {"deny", "markWaiting", "create"}  -> Raise(th)
      [] at[th] = "consume"                            -> "find"
      [] at[th] = "succeed"                            -> "abort"
      [] at[th] \in {"markRunning", "abort"}           -> Return(th)
      [] OTHER                                         -> "idle"

StorageFails(th) ==
    /\ at[th] \in Writes
    /\ faults < MaxFaults
    /\ faults' = faults + 1
    /\ Goto(th, OnFailure(th))
    /\ UNCHANGED <<taskVars, queueVars, approval, envVars>>

Expire(t, n) ==
    /\ mode \in {"up", "booting"}
    /\ approval[t][n] \in {"pending", "approved"}
    /\ SetApproval(t, n, "expired")
    /\ UNCHANGED <<taskVars, queueVars, at, on, envVars, faults>>

ThreadsEnd ==
    /\ at' = [th \in Threads |-> "idle"]
    /\ on' = [th \in Threads |-> Null]

Crash ==
    /\ mode \in {"up", "booting"}
    /\ exits < MaxExits
    /\ exits' = exits + 1
    /\ mode' = "down" /\ todo' = {}
    /\ ThreadsEnd
    /\ UNCHANGED <<taskVars, queueVars, approval, kept, faults>>

\* An orderly stop, once the requests in flight are answered, waits for the
\* worker's round to end and disables the persistence of both registries, not
\* of the queue.  It does so too when it gives up waiting.
Stop ==
    /\ mode = "up"
    /\ exits < MaxExits
    /\ \A h \in Handlers : at[h] = "idle"
    /\ at[Worker] = "idle" \/ JoinTimesOut
    /\ exits' = exits + 1
    /\ mode' = "stopping"
    /\ kept' = [task |-> task, approval |-> approval]
    /\ UNCHANGED <<taskVars, queueVars, approval, at, on, todo, faults>>

\* The process ends, and a worker that was given up on with it.
Exit ==
    /\ mode = "stopping"
    /\ mode' = "down"
    /\ ThreadsEnd
    /\ UNCHANGED <<taskVars, queueVars, approval, kept, todo, exits, faults>>

\* Mutants: an interrupted task is queued again, or left as it is.
RecoveredAsPending(status) == IF status = "running" THEN "pending" ELSE status
NotRecovered(status) == status

\* restore(recover_interrupted=True).
Recovered(status) == IF status = "running" THEN "failed" ELSE status

Restart ==
    /\ mode = "down"
    /\ mode' = "booting" /\ todo' = Tasks
    /\ LET stored == IF kept = Null THEN [task |-> task, approval |-> approval] ELSE kept IN
       /\ task' = [t \in Tasks |-> Recovered(stored.task[t])]
       /\ approval' = stored.approval
    /\ kept' = Null
    /\ UNCHANGED <<decision, runs, queueVars, at, on, exits, faults>>

ReconciledJobKeepsMissing(t) ==     \* mutant: a missing job stays missing
    CASE task[t] # "pending" /\ job[t] \in {"waiting", "delivered"} -> "cancelled"
      [] task[t] = "pending" /\ job[t] = "delivered"                -> GivenBack(t)
      [] OTHER                                                      -> job[t]

ReconciledJobKeepsClaims(t) ==      \* mutant: claims of the dead process stay
    CASE task[t] # "pending" /\ job[t] \in {"waiting", "delivered"} -> "cancelled"
      [] task[t] = "pending" /\ job[t] = "absent"                   -> "waiting"
      [] OTHER                                                      -> job[t]

ReconciledJob(t) ==
    CASE task[t] # "pending" /\ job[t] \in {"waiting", "delivered"} -> "cancelled"
      [] task[t] = "pending" /\ job[t] = "delivered"                -> GivenBack(t)
      [] task[t] = "pending" /\ job[t] = "absent"                   -> "waiting"
      [] OTHER                                                      -> job[t]

ReconciledTask(t) ==
    IF \/ task[t] = "running" /\ job[t] # "absent"
       \/ task[t] = "pending" /\ job[t] \in {"completed", "cancelled"}
    THEN "cancelled" ELSE task[t]

\* One record of the pass; a job it recreates gets the default owner.
Reconcile(t) ==
    /\ mode = "booting" /\ t \in todo
    /\ todo' = todo \ {t}
    /\ SetTask(t, ReconciledTask(t))
    /\ SetJob(t, ReconciledJob(t))
    /\ IF job[t] = "absent" /\ job'[t] = "waiting"
       THEN /\ left' = [left EXCEPT ![t] = MaxAttempts]
            /\ ours' = [ours EXCEPT ![t] = FALSE]
       ELSE UNCHANGED <<left, ours>>
    /\ UNCHANGED <<decision, runs, approval, at, on, mode, kept, exits, faults>>

Serve ==
    /\ mode = "booting" /\ todo = {}
    /\ mode' = "up"
    /\ UNCHANGED <<taskVars, queueVars, approval, at, on, kept, todo, exits, faults>>

-----------------------------------------------------------------------------

Request(h) ==
    \E t \in Tasks :
        \/ Register(h, t)
        \/ BeginPending(h, t)
        \/ \E n \in 1..MaxApprovals : BeginDecision(h, t, n)

Next ==
    \/ Poll
    \/ WorkerStep
    \/ \E th \in Threads : EngineStep(th) \/ StorageFails(th)
    \/ \E h \in Handlers : Request(h) \/ HandlerStep(h)
    \/ \E t \in Tasks : Reconcile(t) \/ \E n \in DOMAIN approval[t] : Expire(t, n)
    \/ Crash
    \/ Stop
    \/ Exit
    \/ Restart
    \/ Serve

Spec == Init /\ [][Next]_vars

\* Every call of a live thread returns, the worker loop keeps polling and a
\* dead process is started again (the container restarts it).
Fairness ==
    /\ WF_vars(Poll)
    /\ WF_vars(WorkerStep)
    /\ \A th \in Threads : WF_vars(EngineStep(th))
    /\ \A h \in Handlers : WF_vars(HandlerStep(h))
    /\ WF_vars(Exit)
    /\ WF_vars(Restart)
    /\ WF_vars(\E t \in Tasks : Reconcile(t))
    /\ WF_vars(Serve)

FairSpec == Spec /\ Fairness

-----------------------------------------------------------------------------
(* Properties. *)

PCs == {"idle", "inspect", "register", "require", "find", "check", "execute",
        "cancelRead", "retryRead"} \cup Writes

Statuses == [Tasks -> DOMAIN Allowed \cup {Null}]
Approvals == [Tasks -> Seq({"pending", "approved", "rejected", "expired", "consumed"})]
Work == [task : Tasks, approval : 0..MaxApprovals]

\* Every variable keeps its type; a thread names a task exactly while it works.
TypeOK ==
    /\ task \in Statuses
    /\ decision \in [Tasks -> Decisions \cup {Null}]
    /\ job \in [Tasks -> {"absent", "waiting", "delivered", "completed", "failed", "cancelled"}]
    /\ left \in [Tasks -> 0..MaxAttempts]
    /\ ours \in [Tasks -> BOOLEAN]
    /\ approval \in Approvals
    /\ \A t \in Tasks : Len(approval[t]) <= MaxApprovals
    /\ runs \in [Tasks -> Nat]
    /\ at \in [Threads -> PCs]
    /\ on \in [Threads -> Work \cup {Null}]
    /\ \A th \in Threads : on[th] \in IF at[th] = "idle" THEN {Null} ELSE Work
    /\ mode \in {"up", "stopping", "down", "booting"}
    /\ kept # Null =>
          mode \in {"stopping", "down"} /\ kept \in [task : Statuses, approval : Approvals]
    /\ todo \subseteq Tasks
    /\ exits \in 0..MaxExits /\ faults \in 0..MaxFaults

Busy(t) == \E th \in Threads : on[th] # Null /\ on[th].task = t

\* A command is executed at most once, whatever is redelivered, retried,
\* approved again or interrupted by a restart (engine._mark_running is a
\* check and a later act; only the order of everything else protects it).
AtMostOnce == \A t \in Tasks : runs[t] <= 1

\* A sensitive command is executed only after one of its approvals was
\* consumed, and a denied one never, even when a token is refused, an approval
\* expires under way or a write fails.
RunsHadConsent ==
    \A t \in Tasks : runs[t] > 0 =>
        /\ decision[t] # "deny"
        /\ decision[t] = "require_approval" =>
              \E n \in DOMAIN approval[t] : approval[t][n] = "consumed"

\* A task never has two approval requests that could still lead to an
\* execution, and no second one is consumed: find-then-create in the engine
\* is not atomic, and a refused token makes a handler create a request.
ApprovalsExclusive ==
    \A t \in Tasks :
        Cardinality({n \in DOMAIN approval[t] :
                        approval[t][n] \in {"pending", "approved", "consumed"}}) <= 1

\* What the owner is told was cancelled never ran and will not run: the API
\* cancels the queue job and the task in two steps while a worker may claim.
CancelledNeverRan ==
    \A t \in Tasks : task[t] = "cancelled" =>
        /\ runs[t] = 0
        /\ \A th \in Threads :
              on[th] # Null /\ on[th].task = t => at[th] \notin {"execute", "succeed", "abort"}

\* A job is completed with its task still pending only if a write failed.
DeliveredIsSettled ==
    \A t \in Tasks : job[t] = "completed" /\ task[t] = "pending" => faults > 0

\* When the API opens again after a restart, tasks and jobs agree: pending
\* tasks have a job to run or to retry, no claim and no run is left over and
\* no other task has a job to run, however often the pass was cut short.
ReconciledAgree ==
    [][mode = "booting" /\ mode' = "up" =>
          \A t \in Tasks :
              /\ task[t] = "pending" => job[t] \in {"waiting", "failed"}
              /\ job[t] = "waiting" => task[t] = "pending"
              /\ job[t] # "delivered" /\ task[t] # "running"]_vars

\* The runtime keeps the promise made to the owner of each task.
Promise == INSTANCE TaskPromise WITH
    status <- [t \in Tasks |->
                  IF task[t] = Null THEN "absent" ELSE IF Open(t) THEN "open" ELSE task[t]],
    decision <- [t \in Tasks |-> IF task[t] = Null THEN "none" ELSE decision[t]],
    consent <- [t \in Tasks |->
                  \E n \in DOMAIN approval[t] : approval[t][n] = "consumed"]

TaskPromiseSpec == Promise!Spec

\* The runtime uses the queue as JobLifecycle allows.
Lifecycle == INSTANCE JobLifecycle WITH phase <- job

JobLifecycleSpec == Lifecycle!Spec

\* An accepted task does not stay pending: it starts, waits for approval or
\* ends, or at least its job ends (failed: to be retried by hand).  Only if
\* the write of its job failed and then the write that reports it, does it
\* wait for the next start of the process (chat.py, queue_reconciler.py).
PendingIsServed ==
    \A t \in Tasks :
        task[t] = "pending" ~>
            \/ task[t] # "pending"
            \/ job[t] \in {"completed", "failed", "cancelled"}
            \/ faults > 1 /\ job[t] = "absent"

\* A task that runs ends, by its outcome or by the next restart, unless a
\* write failed and nobody works on it any more.
RunningEnds ==
    \A t \in Tasks :
        task[t] = "running" ~> task[t] \in Terminal \/ (faults > 0 /\ ~Busy(t))

\* In every state that is well formed (TypeOK): no command runs twice, and
\* none without the consent it needs (engine.execute).
RuntimeInv == TypeOK /\ AtMostOnce /\ RunsHadConsent

\* An accepted task is served, and one that runs ends.
TasksProgress == PendingIsServed /\ RunningEnds

=============================================================================
