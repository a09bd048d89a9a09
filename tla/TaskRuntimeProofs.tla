------------------------- MODULE TaskRuntimeProofs -------------------------
(***************************************************************************)
(* Theorems about the task runtime, for any tasks and handlers, any budget *)
(* of deliveries and any number of requests, restarts and failed writes.   *)
(*                                                                         *)
(* The inductive invariant IInv says of every thread what its task, its    *)
(* job and its approval look like at the call it makes next (Stage), which *)
(* threads exclude each other (Alone), and how far a reconciliation pass   *)
(* has come (ModeOK).  Everything here assumes StopsWait: an orderly stop  *)
(* that gives up on a busy worker lets the database and the memory drift   *)
(* apart, which no invariant of the running process survives.              *)
(*                                                                         *)
(* CleanInv is a second layer, true as long as no write of the storage has *)
(* failed: then jobs and tasks also agree while the process runs.  What    *)
(* the owner of a task is promised (TaskPromise) rests on that layer.      *)
(***************************************************************************)
EXTENDS TaskRuntime, SequenceTheorems, FiniteSetTheorems, TLAPS

\* A task whose command was handed to the executor.
Started == {"running"} \cup Terminal

\* The task and the approval request a thread works on.
T(th) == on[th].task
N(th) == on[th].approval

LastApproval(t) == approval[t][Len(approval[t])]

\* What RunsHadConsent needs, as the engine sees it before it runs a command.
Consented(t) ==
    \/ decision[t] = "allow"
    \/ decision[t] = "require_approval" /\ approval[t] # <<>> /\ LastApproval(t) = "consumed"

\* A task and its job: a task that runs or ran had consent, and ran once.
TaskOK(t) ==
    /\ task[t] # Null => decision[t] \in Decisions
    /\ task[t] = Null => job[t] = "absent"
    /\ job[t] = "waiting" => left[t] > 0
    /\ runs[t] \in {0, 1}
    /\ runs[t] = 1 => task[t] \in Started
    /\ task[t] = "running" \/ runs[t] = 1 => Consented(t)

\* Only the last request of a task is still open.
ApprovalOK(t) ==
    /\ approval[t] # <<>> => decision[t] = "require_approval" /\ task[t] \notin {Null, "pending"}
    /\ \A n \in 1..(Len(approval[t]) - 1) : approval[t][n] \in {"rejected", "expired"}

\* The calls of a delivery before the command is started, those that carry a
\* granted or expired request, those that start a command, and the others
\* that a handler makes.
First == {"register", "deny", "require", "markWaiting", "find", "create"}
Carrying == {"register", "consume", "find", "create"}
Starting == {"check", "markRunning", "execute", "succeed", "abort"}
Requests == {"enqueue", "approve", "reject", "cancelRead", "cancelJob", "cancelTask",
             "retryRead", "retry"}

\* What is true of the task of a thread at each of its calls.
AtWork(th) ==
    LET t == T(th) IN
    /\ task[t] # Null
    /\ at[th] \in {"check", "markRunning"} => task[t] # "running" /\ runs[t] = 0
    /\ at[th] = "execute" => task[t] \in Started /\ runs[t] = 0
    /\ at[th] \in {"succeed", "abort"} => runs[t] = 1

\* The worker makes no request and starts only what the policy allows.
WorkerAtWork ==
    LET t == T(Worker)  pc == at[Worker] IN
    /\ N(Worker) = 0
    /\ pc \in {"inspect", "complete", "fail", "drop"} \cup First \cup Starting
    /\ pc \in First \cup Starting => approval[t] = <<>>
    /\ pc \in First => task[t] # "running" /\ runs[t] = 0
    /\ pc = "deny" => decision[t] = "deny"
    /\ pc \in {"require", "markWaiting", "find", "create"} => decision[t] = "require_approval"
    /\ pc \in Starting => decision[t] = "allow"
    /\ pc \in {"find", "create"} => task[t] # "pending"

\* A handler starts only what the request it has consumed grants.
HandlerAtWork(h) ==
    LET t == T(h)  n == N(h)  pc == at[h] IN
    /\ pc \in Requests \cup Carrying \cup Starting \cup {"require"}
    /\ pc \in {"approve", "reject", "require"} \cup Carrying \cup Starting =>
          n \in 1..Len(approval[t])
    /\ pc \in {"enqueue", "cancelRead", "cancelJob", "retryRead", "retry"} => n = 0
    /\ pc = "enqueue" => job[t] = "absent"
    /\ pc \in Carrying => n = Len(approval[t]) /\ approval[t][n] \in {"approved", "expired"}
    /\ pc = "create" => approval[t][n] = "expired"
    /\ pc \in Starting => n = Len(approval[t]) /\ approval[t][n] = "consumed"
    /\ pc = "cancelTask" /\ n > 0 => n = Len(approval[t]) /\ approval[t][n] = "rejected"

\* Where a thread stands.
Stage(th) ==
    at[th] # "idle" =>
        /\ AtWork(th)
        /\ th = Worker => WorkerAtWork
        /\ th # Worker => HandlerAtWork(th)

\* A handler on its way from a decided request to the end of the command.
Engaged(h) == at[h] \in Carrying \cup Starting

\* No two of them are for one task, and a new task is enqueued by one handler.
Alone == \A h1, h2 \in Handlers :
    /\ (Engaged(h1) /\ Engaged(h2)) \/ (at[h1] = "enqueue" /\ at[h2] = "enqueue")
    /\ T(h1) = T(h2)
    => h1 = h2

\* What a reconciliation pass leaves behind for a task it has visited.
Agreed(t) ==
    /\ task[t] = "pending" => job[t] \in {"waiting", "failed"}
    /\ job[t] = "waiting" => task[t] = "pending"
    /\ job[t] # "delivered" /\ task[t] # "running"

\* Nobody works while the process is not up, and what SQLite holds then is
\* what the process had in memory.
ModeOK ==
    /\ mode # "up" => \A th \in Threads : at[th] = "idle"
    /\ kept # Null => kept.task = task /\ kept.approval = approval
    /\ mode = "booting" => /\ \A t \in Tasks : task[t] # "running"
                           /\ \A t \in Tasks \ todo : Agreed(t)

\* A job that was completed has moved its task on, unless a write failed.
Settled(t) == job[t] = "completed" /\ task[t] = "pending" => faults > 0

WorkerSettles == at[Worker] = "complete" => task[T(Worker)] # "pending" \/ faults > 0

TasksOK == \A t \in Tasks : TaskOK(t) /\ ApprovalOK(t) /\ Settled(t)
StagesOK == \A th \in Threads : Stage(th)

\* The inductive invariant.
IInv == TypeOK /\ TasksOK /\ StagesOK /\ Alone /\ WorkerSettles /\ ModeOK

-----------------------------------------------------------------------------
(* What a step of one thread leaves alone *)

\* The part of TypeOK about threads.
ControlOK ==
    /\ at \in [Threads -> PCs]
    /\ on \in [Threads -> Work \cup {Null}]
    /\ \A th \in Threads : on[th] \in IF at[th] = "idle" THEN {Null} ELSE Work

\* A thread goes on to its next call, or gives its task up; no other moves.
Moved(th, pc) ==
    /\ at'[th] = pc
    /\ pc # "idle" => on'[th] = on[th]
    /\ \A x \in Threads \ {th} : at'[x] = at[x] /\ on'[x] = on[x]

\* What Goto does.
LEMMA GotoFacts ==
    ASSUME ControlOK, NEW th \in Threads, at[th] # "idle", NEW pc \in PCs, Goto(th, pc)
    PROVE  ControlOK' /\ Moved(th, pc)
BY DEF ControlOK, Goto, Moved, PCs

\* What the invariant says of a thread that is busy.
LEMMA ThreadFacts ==
    ASSUME IInv, NEW th \in Threads, at[th] # "idle"
    PROVE  /\ ControlOK /\ on[th] \in Work /\ T(th) \in Tasks /\ N(th) \in 0..MaxApprovals
           /\ mode = "up" /\ kept = Null
           /\ Stage(th) /\ AtWork(th)
           /\ TaskOK(T(th)) /\ ApprovalOK(T(th)) /\ Settled(T(th))
BY DEF IInv, TypeOK, ControlOK, Work, T, N, ModeOK, StagesOK, Stage, TasksOK

\* A step that leaves a task, its job and its requests alone keeps what holds
\* of them, and of a thread that works on it.
Same(t) ==
    /\ task'[t] = task[t] /\ decision'[t] = decision[t] /\ runs'[t] = runs[t]
    /\ job'[t] = job[t] /\ left'[t] = left[t] /\ approval'[t] = approval[t]

LEMMA SameTask ==
    ASSUME NEW t \in Tasks, Same(t), faults' >= faults, faults \in Nat, faults' \in Nat,
           TaskOK(t), ApprovalOK(t), Settled(t)
    PROVE  TaskOK(t)' /\ ApprovalOK(t)' /\ Settled(t)'
BY DEF Same, TaskOK, ApprovalOK, Settled, Consented, LastApproval

LEMMA SameStage ==
    ASSUME NEW x \in Threads, Stage(x), at'[x] = at[x], on'[x] = on[x], Same(T(x))
    PROVE  Stage(x)'
BY DEF Same, Stage, AtWork, WorkerAtWork, HandlerAtWork, T, N

\* A step of one thread about its task: what is left to be shown of it.
LEMMA ThreadStep ==
    ASSUME IInv, NEW th \in Threads, at[th] # "idle", NEW t \in Tasks, t = T(th),
           NEW pc \in PCs, Moved(th, pc), TypeOK', UNCHANGED envVars, faults' >= faults,
           \A u \in Tasks \ {t} : Same(u),
           TaskOK(t)', ApprovalOK(t)', Settled(t)',
           \A x \in Threads \ {th} : at[x] # "idle" /\ T(x) = t => Stage(x)',
           Stage(th)',
           pc \in Carrying \cup Starting /\ th # Worker =>
               Engaged(th) \/ \A x \in Handlers \ {th} : T(x) = t => ~Engaged(x),
           pc # "enqueue",
           th # Worker /\ at[Worker] = "complete" /\ T(Worker) = t /\ task[t] # "pending" =>
               task'[t] # "pending",
           th = Worker /\ pc = "complete" => task'[t] # "pending" \/ faults' > 0
    PROVE  IInv'
<1>0. mode = "up" /\ kept = Null /\ T(th) \in Tasks
  BY ThreadFacts
<1>1. faults \in Nat /\ faults' \in Nat
  BY RuntimeAssumption DEF IInv, TypeOK
<1>2. TasksOK'
  <2> SUFFICES ASSUME NEW u \in Tasks, u # t
               PROVE  TaskOK(u)' /\ ApprovalOK(u)' /\ Settled(u)'
    BY <1>0 DEF TasksOK
  <2> QED
    BY <1>1, SameTask DEF IInv, TasksOK
<1>3. StagesOK'
  <2> SUFFICES ASSUME NEW x \in Threads, x # th, at[x] # "idle", T(x) # t PROVE Stage(x)'
    BY DEF StagesOK, Moved, Stage
  <2> QED
    BY ThreadFacts, SameStage DEF Moved
<1>4. Alone'
  <2> SUFFICES ASSUME NEW h1 \in Handlers, NEW h2 \in Handlers, T(h1)' = T(h2)',
                      ((Engaged(h1) /\ Engaged(h2)) \/ (at[h1] = "enqueue" /\ at[h2] = "enqueue"))'
               PROVE  h1 = h2
    BY DEF Alone
  <2>1. \A h \in Handlers : Engaged(h)' \/ at'[h] = "enqueue" => T(h)' = T(h)
    BY DEF Moved, T, Engaged, Carrying, Starting, Threads
  <2>2. \A h \in Handlers : h # Worker /\ h \in Threads
    BY RuntimeAssumption DEF Threads
  <2>3. \A h \in Handlers :
           /\ h # th /\ Engaged(h)' => Engaged(h)
           /\ at'[h] = "enqueue" => at[h] = "enqueue"
    BY <2>2 DEF Moved, Engaged
  <2>4. (Engaged(h1) /\ Engaged(h2))' \/ (at'[h1] = "enqueue" /\ at'[h2] = "enqueue")
    OBVIOUS
  <2>5. T(h1) = T(h2)
    BY <2>1, <2>4
  <2>6. CASE at'[h1] = "enqueue" /\ at'[h2] = "enqueue"
    <3>1. at[h1] = "enqueue" /\ at[h2] = "enqueue"
      BY <2>3, <2>6
    <3> QED
      BY <2>5, <3>1 DEF IInv, Alone
  <2>7. CASE Engaged(h1)' /\ Engaged(h2)' /\ Engaged(h1) /\ Engaged(h2)
    BY <2>5, <2>7 DEF IInv, Alone
  <2>8. CASE Engaged(h1)' /\ Engaged(h2)' /\ ~(Engaged(h1) /\ Engaged(h2))
    <3>1. th \in {h1, h2} /\ ~Engaged(th)
      BY <2>3, <2>8
    <3>2. th # Worker /\ pc \in Carrying \cup Starting
      BY <2>2, <2>8, <3>1 DEF Moved, Engaged
    <3>3. \A x \in Handlers \ {th} : T(x) = t => ~Engaged(x)
      BY <3>1, <3>2
    <3> QED
      BY <2>3, <2>5, <2>8, <3>1, <3>3
  <2> QED
    BY <2>4, <2>6, <2>7, <2>8
<1>5. WorkerSettles'
  <2>1. CASE th = Worker
    BY <2>1 DEF WorkerSettles, Moved, T
  <2>2. CASE th # Worker /\ at'[Worker] = "complete"
    <3>1. at[Worker] = "complete" /\ T(Worker)' = T(Worker) /\ Worker \in Threads
      BY <2>2 DEF Moved, T, Threads
    <3>2. T(Worker) \in Tasks
      BY <3>1, ThreadFacts
    <3> QED
      BY <1>1, <2>2, <3>1, <3>2 DEF IInv, WorkerSettles, Same
  <2> QED
    BY <2>1, <2>2 DEF WorkerSettles
<1>6. ModeOK'
  BY <1>0 DEF ModeOK, envVars
<1> QED
  BY <1>2, <1>3, <1>4, <1>5, <1>6 DEF IInv

-----------------------------------------------------------------------------
(* Steps that only move a thread.  Each keeps the invariant, by ThreadStep;  *)
(* so do the steps of the next sections. *)

LEMMA SameTypes ==
    ASSUME TypeOK, ControlOK', faults' \in 0..MaxFaults,
           UNCHANGED <<taskVars, queueVars, approval, envVars>>
    PROVE  TypeOK'
BY DEF TypeOK, ControlOK, taskVars, queueVars, envVars, Approvals, Statuses, Work

LEMMA ThreadOnly ==
    ASSUME IInv, NEW th \in Threads, at[th] # "idle", NEW pc \in PCs, Goto(th, pc),
           UNCHANGED <<taskVars, queueVars, approval, envVars>>,
           faults' \in 0..MaxFaults, faults' >= faults,
           pc # "idle" => Stage(th)',
           pc \in Carrying \cup Starting /\ th # Worker => Engaged(th),
           pc # "enqueue",
           th = Worker /\ pc = "complete" => task[T(th)] # "pending" \/ faults' > 0
    PROVE  IInv'
<1>0. PICK t \in Tasks : t = T(th)
  BY ThreadFacts
<1>1. ControlOK /\ ControlOK' /\ Moved(th, pc) /\ T(th) \in Tasks
  BY ThreadFacts, GotoFacts
<1>2. TypeOK'
  BY <1>1, SameTypes DEF IInv
<1>3. \A u \in Tasks : Same(u)
  BY DEF Same, taskVars, queueVars
<1>4. Stage(th)'
  BY <1>1 DEF Stage, Moved
<1>5. faults \in Nat /\ faults' \in Nat
  BY RuntimeAssumption DEF IInv, TypeOK
<1>6. TaskOK(t)' /\ ApprovalOK(t)' /\ Settled(t)'
  BY <1>0, <1>3, <1>5, SameTask DEF IInv, TasksOK
<1>7. \A x \in Threads \ {th} : at[x] # "idle" /\ T(x) = t => Stage(x)'
  BY <1>1, <1>3, SameStage DEF Moved, IInv, StagesOK
<1> QED
  BY <1>0, <1>1, <1>2, <1>3, <1>4, <1>6, <1>7, ThreadStep DEF taskVars
-----------------------------------------------------------------------------

\* The thread itself, when it goes on with its task.
LEMMA OwnStage ==
    ASSUME IInv, NEW th \in Threads, at[th] # "idle", NEW pc \in PCs \ {"idle"}, Goto(th, pc),
           UNCHANGED <<taskVars, queueVars, approval>>
    PROVE  /\ at'[th] = pc /\ on'[th] = on[th] /\ T(th)' = T(th) /\ N(th)' = N(th)
           /\ T(th) \in Tasks /\ Same(T(th))
BY ThreadFacts, GotoFacts DEF Moved, T, N, Same, taskVars, queueVars

LEMMA FaultsStay == IInv /\ UNCHANGED faults => faults' \in 0..MaxFaults /\ faults' >= faults
BY RuntimeAssumption DEF IInv, TypeOK

LEMMA Roles == Worker \in Threads /\ Worker \notin Handlers /\ Handlers = Threads \ {Worker}
BY RuntimeAssumption DEF Threads

LEMMA InspectKeeps == IInv /\ Inspect => IInv'
<1> SUFFICES ASSUME IInv, Inspect PROVE IInv'
  OBVIOUS
<1> DEFINE t == T(Worker)  pc == Verdict(t)
<1>0. Worker \in Threads /\ at[Worker] = "inspect" /\ Goto(Worker, pc)
  BY Roles DEF Inspect, T
<1>1. pc \in {"fail", "drop", "register", "complete"} /\ pc \in PCs \ {"idle"}
  BY DEF Verdict, PCs, Writes
<1>2. UNCHANGED <<taskVars, queueVars, approval, envVars>> /\ UNCHANGED faults
  BY DEF Inspect, OnlyThread
<1>3. WorkerAtWork /\ AtWork(Worker) /\ TaskOK(t) /\ ApprovalOK(t)
  BY <1>0, ThreadFacts DEF Stage
<1>4. pc = "register" => task[t] = "pending"
  BY DEF Verdict
<1>5. pc = "complete" => task[t] # "pending"
  BY DEF Verdict
<1>6. Stage(Worker)'
  BY <1>0, <1>1, <1>2, <1>3, <1>4, OwnStage
  DEF Stage, AtWork, WorkerAtWork, First, Starting, Same, TaskOK, ApprovalOK, Started, Terminal
<1> QED
  BY <1>0, <1>1, <1>2, <1>5, <1>6, FaultsStay, ThreadOnly DEF Carrying, Starting

LEMMA EnsureRegisteredKeeps ==
    ASSUME IInv, NEW th \in Threads, EnsureRegistered(th)
    PROVE  IInv'
<1> DEFINE t == T(th)  pc == IF Open(t) THEN Assessed(th) ELSE Return(th)
<1>0. at[th] = "register" /\ Goto(th, pc)
  BY DEF EnsureRegistered, T
<1>1. pc \in {"idle", "complete", "deny", "check", "require", "consume"} /\ pc \in PCs
  BY DEF Assessed, Return, PCs, Writes
<1>2. UNCHANGED <<taskVars, queueVars, approval, envVars>> /\ UNCHANGED faults
  BY DEF EnsureRegistered, OnlyThread
<1>3. AtWork(th) /\ TaskOK(t) /\ ApprovalOK(t) /\ t \in Tasks
  BY <1>0, ThreadFacts
<1>4. CASE th = Worker
  <2>1. WorkerAtWork
    BY <1>0, <1>4, ThreadFacts DEF Stage
  <2>2. pc = "complete" => task[t] # "pending"
    BY DEF Open, Assessed, Return
  <2>3. pc # "idle" /\ pc # "consume"
    BY <1>4, <2>1, <1>0 DEF Assessed, Return, WorkerAtWork, N
  <2>4. Stage(th)'
    BY <1>0, <1>1, <1>2, <1>3, <1>4, <2>1, <2>3, OwnStage
    DEF Stage, AtWork, WorkerAtWork, First, Starting, Same, TaskOK, Started, Terminal,
        Assessed, T, Return, Decisions
  <2> QED
    BY <1>0, <1>1, <1>2, <1>4, <2>2, <2>4, FaultsStay, ThreadOnly
<1>5. CASE th # Worker
  <2>1. HandlerAtWork(th)
    BY <1>0, <1>5, ThreadFacts DEF Stage
  <2>2. decision[t] = "require_approval" /\ N(th) # 0
    BY <1>0, <1>3, <2>1 DEF HandlerAtWork, Carrying, ApprovalOK
  <2>3. pc \in {"idle", "consume"}
    BY <1>5, <2>2 DEF Assessed, Return, T, N
  <2>4. pc # "idle" => Stage(th)'
    BY <1>0, <1>1, <1>2, <1>3, <1>5, <2>1, <2>3, OwnStage
    DEF Stage, AtWork, HandlerAtWork, Carrying, Starting, Requests, Same
  <2> QED
    BY <1>0, <1>1, <1>2, <1>5, <2>3, <2>4, FaultsStay, ThreadOnly DEF Engaged, Carrying
<1> QED
  BY <1>4, <1>5

LEMMA RequireTaskKeeps ==
    ASSUME IInv, NEW th \in Threads, RequireTask(th)
    PROVE  IInv'
<1> DEFINE t == T(th)
           pc == IF task[t] = "pending" THEN "markWaiting" ELSE AfterWaiting(th)
<1>0. at[th] = "require" /\ Goto(th, pc)
  BY DEF RequireTask, T
<1>1. pc \in {"markWaiting", "find", "complete", "idle"} /\ pc \in PCs
  BY DEF AfterWaiting, Return, PCs, Writes
<1>2. UNCHANGED <<taskVars, queueVars, approval, envVars>> /\ UNCHANGED faults
  BY DEF RequireTask, OnlyThread
<1>3. AtWork(th) /\ TaskOK(t) /\ ApprovalOK(t) /\ t \in Tasks
  BY <1>0, ThreadFacts
<1>4. CASE th = Worker
  <2>1. WorkerAtWork
    BY <1>0, <1>4, ThreadFacts DEF Stage
  <2>2. pc \in {"markWaiting", "find"} /\ (pc = "find" => task[t] # "pending")
    BY <1>0, <1>4, <2>1 DEF AfterWaiting, WorkerAtWork, N
  <2>3. Stage(th)'
    BY <1>0, <1>1, <1>2, <1>3, <1>4, <2>1, <2>2, OwnStage
    DEF Stage, AtWork, WorkerAtWork, First, Starting, Same
  <2> QED
    BY <1>0, <1>1, <1>2, <1>4, <2>2, <2>3, FaultsStay, ThreadOnly
<1>5. CASE th # Worker
  <2>1. HandlerAtWork(th)
    BY <1>0, <1>5, ThreadFacts DEF Stage
  <2>2. N(th) # 0 /\ task[t] # "pending"
    BY <1>0, <1>3, <2>1 DEF HandlerAtWork, ApprovalOK
  <2>3. pc = "idle"
    BY <1>5, <2>2 DEF AfterWaiting, Return, N
  <2> QED
    BY <1>0, <1>1, <1>2, <1>5, <2>3, FaultsStay, ThreadOnly DEF Carrying, Starting
<1> QED
  BY <1>4, <1>5

LEMMA FindActiveApprovalKeeps ==
    ASSUME IInv, NEW th \in Threads, FindActiveApproval(th)
    PROVE  IInv'
<1> DEFINE t == T(th)
           pc == IF ActiveApproval(t) THEN AfterRequest(th) ELSE "create"
<1>0. at[th] = "find" /\ Goto(th, pc)
  BY DEF FindActiveApproval, T
<1>1. pc \in {"create", "complete", "require", "idle"} /\ pc \in PCs
  BY DEF AfterRequest, Return, PCs, Writes
<1>2. UNCHANGED <<taskVars, queueVars, approval, envVars>> /\ UNCHANGED faults
  BY DEF FindActiveApproval, OnlyThread
<1>3. AtWork(th) /\ TaskOK(t) /\ ApprovalOK(t) /\ t \in Tasks
  BY <1>0, ThreadFacts
<1>4. CASE th = Worker
  <2>1. WorkerAtWork
    BY <1>0, <1>4, ThreadFacts DEF Stage
  <2>2. pc \in {"create", "complete"} /\ task[t] # "pending"
    BY <1>0, <1>4, <2>1 DEF AfterRequest, Return, WorkerAtWork, N
  <2>3. Stage(th)'
    BY <1>0, <1>1, <1>2, <1>3, <1>4, <2>1, <2>2, OwnStage
    DEF Stage, AtWork, WorkerAtWork, First, Starting, Same
  <2> QED
    BY <1>0, <1>1, <1>2, <1>4, <2>2, <2>3, FaultsStay, ThreadOnly
<1>5. CASE th # Worker
  <2>1. HandlerAtWork(th)
    BY <1>0, <1>5, ThreadFacts DEF Stage
  <2>2. N(th) # 0 /\ N(th) \in 1..Len(approval[t])
    BY <1>0, <2>1 DEF HandlerAtWork, Carrying
  <2>3. pc \in {"create", "require"}
    BY <2>2 DEF AfterRequest, N
  <2>4. pc = "create" => approval[t][N(th)] = "expired"
    <3>1. DOMAIN approval[t] = 1..Len(approval[t])
      BY <1>3 DEF IInv, TypeOK, Approvals
    <3>2. approval[t][N(th)] \in {"approved", "expired"}
      BY <1>0, <2>1 DEF HandlerAtWork, Carrying
    <3> QED
      BY <2>2, <3>1, <3>2 DEF ActiveApproval, AfterRequest, N
  <2>5. Stage(th)'
    BY <1>0, <1>1, <1>2, <1>3, <1>5, <2>1, <2>2, <2>3, <2>4, OwnStage
    DEF Stage, AtWork, HandlerAtWork, Carrying, Starting, Requests, Same
  <2> QED
    BY <1>0, <1>1, <1>2, <1>5, <2>3, <2>5, FaultsStay, ThreadOnly DEF Engaged, Carrying
<1> QED
  BY <1>4, <1>5

LEMMA CheckStartKeeps ==
    ASSUME IInv, NEW th \in Threads, CheckStart(th)
    PROVE  IInv'
<1> DEFINE t == T(th)
           pc == IF Open(t) THEN "markRunning" ELSE Return(th)
<1>0. at[th] = "check" /\ Goto(th, pc)
  BY DEF CheckStart, T
<1>1. pc \in {"markRunning", "complete", "idle"} /\ pc \in PCs
  BY DEF Return, PCs, Writes
<1>2. UNCHANGED <<taskVars, queueVars, approval, envVars>> /\ UNCHANGED faults
  BY DEF CheckStart, OnlyThread
<1>3. AtWork(th) /\ TaskOK(t) /\ ApprovalOK(t) /\ t \in Tasks
  BY <1>0, ThreadFacts
<1>4. th = Worker => WorkerAtWork /\ pc \in {"markRunning", "complete"}
  BY <1>0, ThreadFacts DEF Stage, Return
<1>5. th # Worker => HandlerAtWork(th) /\ pc \in {"markRunning", "idle"}
  BY <1>0, ThreadFacts DEF Stage, Return
<1>6. pc = "complete" => task[t] # "pending"
  BY DEF Open, Return
<1>7. pc # "idle" => Stage(th)'
  BY <1>0, <1>1, <1>2, <1>3, <1>4, <1>5, OwnStage
  DEF Stage, AtWork, WorkerAtWork, HandlerAtWork, First, Starting, Carrying, Requests, Same
<1> QED
  BY <1>0, <1>1, <1>2, <1>6, <1>7, FaultsStay, ThreadOnly DEF Engaged, Starting

LEMMA CancelReadKeeps ==
    ASSUME IInv, NEW h \in Handlers, CancelRead(h)
    PROVE  IInv'
<1> DEFINE t == T(h)
           pc == CASE job[t] = "absent" \/ ~ours[t] -> "idle"
                   [] job[t] = "cancelled"          -> "cancelTask"
                   [] OTHER                         -> "cancelJob"
<1>0. at[h] = "cancelRead" /\ Goto(h, pc) /\ h \in Threads /\ h # Worker
  BY Roles DEF CancelRead, T
<1>1. pc \in {"idle", "cancelTask", "cancelJob"} /\ pc \in PCs
  <2>1. CASE job[t] = "absent" \/ ~ours[t]
    BY <2>1 DEF PCs, Writes
  <2>2. CASE ~(job[t] = "absent" \/ ~ours[t])
    BY <2>2 DEF PCs, Writes
  <2> QED
    BY <2>1, <2>2
<1>2. UNCHANGED <<taskVars, queueVars, approval, envVars>> /\ UNCHANGED faults
  BY DEF CancelRead, OnlyThread
<1>3. AtWork(h) /\ HandlerAtWork(h)
  BY <1>0, ThreadFacts DEF Stage
<1>4. pc # "idle" => Stage(h)'
  BY <1>0, <1>1, <1>2, <1>3, OwnStage
  DEF Stage, AtWork, HandlerAtWork, Carrying, Starting, Requests, Same
<1> HIDE DEF pc
<1> QED
  BY <1>0, <1>1, <1>2, <1>4, FaultsStay, ThreadOnly DEF Carrying, Starting

LEMMA RetryReadKeeps ==
    ASSUME IInv, NEW h \in Handlers, RetryRead(h)
    PROVE  IInv'
<1> DEFINE t == T(h)  pc == IF job[t] = "failed" /\ ours[t] THEN "retry" ELSE "idle"
<1>0. at[h] = "retryRead" /\ Goto(h, pc) /\ h \in Threads /\ h # Worker
  BY Roles DEF RetryRead, T
<1>1. pc \in {"idle", "retry"} /\ pc \in PCs
  BY DEF PCs, Writes
<1>2. UNCHANGED <<taskVars, queueVars, approval, envVars>> /\ UNCHANGED faults
  BY DEF RetryRead, OnlyThread
<1>3. AtWork(h) /\ HandlerAtWork(h)
  BY <1>0, ThreadFacts DEF Stage
<1>4. pc # "idle" => Stage(h)'
  BY <1>0, <1>1, <1>2, <1>3, OwnStage
  DEF Stage, AtWork, HandlerAtWork, Carrying, Starting, Requests, Same
<1> QED
  BY <1>0, <1>1, <1>2, <1>4, FaultsStay, ThreadOnly DEF Carrying, Starting

LEMMA StorageFailsKeeps ==
    ASSUME IInv, NEW th \in Threads, StorageFails(th)
    PROVE  IInv'
<1> DEFINE t == T(th)  pc == OnFailure(th)
<1>0. at[th] \in Writes /\ at[th] # "idle" /\ Goto(th, pc)
  BY DEF StorageFails, Writes
<1>1. /\ at[th] = "enqueue" => pc = "cancelTask"
      /\ at[th] \in {"complete", "drop"} => pc = "fail"
      /\ at[th] \in {"deny", "markWaiting", "create"} => pc = Raise(th)
      /\ at[th] = "consume" => pc = "find"
      /\ at[th] = "succeed" => pc = "abort"
      /\ at[th] \in {"markRunning", "abort"} => pc = Return(th)
      /\ at[th] \notin {"enqueue", "complete", "drop", "deny", "markWaiting", "create",
                        "consume", "succeed", "markRunning", "abort"} => pc = "idle"
  BY DEF OnFailure
<1> HIDE DEF pc
<1>2. pc \in {"cancelTask", "fail", "idle", "find", "abort", "complete"} /\ pc \in PCs
  BY <1>0, <1>1 DEF Raise, Return, PCs, Writes
<1>3. UNCHANGED <<taskVars, queueVars, approval, envVars>>
  BY DEF StorageFails
<1>4. faults' \in 0..MaxFaults /\ faults' > 0 /\ faults' >= faults
  BY RuntimeAssumption DEF StorageFails, IInv, TypeOK
<1>5. AtWork(th) /\ (th = Worker => WorkerAtWork) /\ (th # Worker => HandlerAtWork(th))
  BY <1>0, ThreadFacts DEF Stage
<1>6. th = Worker => pc \in {"fail", "complete", "abort", "idle"}
  BY <1>0, <1>1, <1>5
  DEF WorkerAtWork, Raise, Return, Writes, First, Starting
<1>7. th # Worker => pc \in {"cancelTask", "idle", "find", "abort"}
  BY <1>0, <1>1, <1>5
  DEF HandlerAtWork, Raise, Return, Writes, Requests, Carrying, Starting
<1>8. /\ pc = "cancelTask" => at[th] = "enqueue"
      /\ pc = "find" => at[th] = "consume"
      /\ pc = "abort" => at[th] = "succeed"
  BY <1>0, <1>1 DEF Raise, Return, Writes
<1>9. pc # "idle" => Stage(th)'
  <2> SUFFICES ASSUME pc # "idle" PROVE Stage(th)'
    OBVIOUS
  <2>1. /\ at'[th] = pc /\ on'[th] = on[th] /\ T(th)' = t /\ N(th)' = N(th)
        /\ t \in Tasks /\ Same(t)
    BY <1>0, <1>2, <1>3, OwnStage
  <2>2. AtWork(th)'
    BY <1>2, <1>5, <1>8, <2>1 DEF AtWork, Same
  <2>3. th = Worker => WorkerAtWork'
    BY <1>5, <1>6, <1>8, <2>1 DEF WorkerAtWork, First, Starting, Same
  <2>4. th # Worker => HandlerAtWork(th)'
    BY <1>5, <1>7, <1>8, <2>1 DEF HandlerAtWork, Requests, Carrying, Starting, Same
  <2> QED
    BY <2>2, <2>3, <2>4 DEF Stage
<1>10. pc \in Carrying \cup Starting /\ th # Worker => Engaged(th)
  BY <1>7, <1>8 DEF Engaged, Carrying, Starting
<1> QED
  BY <1>0, <1>2, <1>3, <1>4, <1>9, <1>10, ThreadOnly

-----------------------------------------------------------------------------
(* Steps that move a job *)

Phases == {"absent", "waiting", "delivered", "completed", "failed", "cancelled"}

LEMMA JobStep ==
    ASSUME IInv, NEW th \in Threads, at[th] # "idle", NEW t \in Tasks, t = T(th),
           NEW pc \in PCs, Goto(th, pc), OnlyQueue,
           NEW phase \in Phases, SetJob(t, phase),
           NEW n \in 0..MaxAttempts, left' = [left EXCEPT ![t] = n],
           ours' \in [Tasks -> BOOLEAN],
           phase = "waiting" => n > 0,
           phase = job[t] \/ job[t] # "absent" \/ at[th] = "enqueue",
           phase # job[t] => phase # "absent" /\ task[t] # Null,
           phase = "completed" => Settled(t)',
           pc # "idle" => Stage(th)',
           pc \in Carrying \cup Starting /\ th # Worker => Engaged(th),
           pc # "enqueue",
           th = Worker /\ pc = "complete" => task[t] # "pending" \/ faults' > 0
    PROVE  IInv'
<1>1. ControlOK /\ ControlOK' /\ Moved(th, pc)
  BY ThreadFacts, GotoFacts
<1>2. /\ job' \in [Tasks -> Phases] /\ job'[t] = phase
      /\ left' \in [Tasks -> 0..MaxAttempts] /\ left'[t] = n
      /\ \A u \in Tasks \ {t} : job'[u] = job[u] /\ left'[u] = left[u]
  BY DEF IInv, TypeOK, SetJob, Phases
<1>3. TypeOK'
  BY <1>1, <1>2
  DEF IInv, TypeOK, ControlOK, OnlyQueue, taskVars, envVars, Approvals, Statuses, Work, Phases
<1>4. \A u \in Tasks \ {t} : Same(u)
  BY <1>2 DEF Same, OnlyQueue, taskVars
<1>5. TaskOK(t)' /\ ApprovalOK(t)'
  BY <1>2 DEF IInv, TasksOK, TaskOK, ApprovalOK, Consented, LastApproval, OnlyQueue, taskVars
<1>6. Settled(t)'
  BY <1>2 DEF Settled
<1>7. ASSUME NEW x \in Threads \ {th}, at[x] # "idle", T(x) = t PROVE Stage(x)'
  <2>1. at'[x] = at[x] /\ on'[x] = on[x] /\ Stage(x)
    BY <1>1, <1>7 DEF Moved, IInv, StagesOK
  <2>2. ~(x # Worker /\ th # Worker /\ at[x] = "enqueue" /\ at[th] = "enqueue")
    BY <1>7, Roles DEF IInv, Alone
  <2>3. at[th] = "enqueue" => th # Worker
    BY ThreadFacts DEF Stage, WorkerAtWork, First, Starting
  <2>4. at[x] = "enqueue" => x # Worker
    BY <2>1 DEF Stage, WorkerAtWork, First, Starting
  <2>5. at[x] = "enqueue" => job[t] = "absent"
    BY <2>1, <2>4, <1>7 DEF Stage, HandlerAtWork
  <2>6. at[x] = "enqueue" => job'[t] = job[t]
    BY <1>2, <2>2, <2>3, <2>4, <2>5
  <2>7. AtWork(x)'
    BY <1>7, <2>1 DEF Stage, AtWork, T, OnlyQueue, taskVars
  <2>8. x = Worker => WorkerAtWork'
    BY <1>7, <2>1 DEF Stage, WorkerAtWork, T, N, OnlyQueue, taskVars
  <2>9. x # Worker => HandlerAtWork(x)'
    BY <1>7, <2>1, <2>6 DEF Stage, HandlerAtWork, T, N, OnlyQueue, taskVars
  <2> QED
    BY <2>7, <2>8, <2>9 DEF Stage
<1>8. Stage(th)'
  BY <1>1 DEF Stage, Moved
<1>9. UNCHANGED envVars /\ faults' >= faults /\ task'[t] = task[t]
  BY FaultsStay DEF OnlyQueue, taskVars
<1> QED
  BY <1>1, <1>3, <1>4, <1>5, <1>6, <1>7, <1>8, <1>9, ThreadStep

\* A refused call of the queue leaves the job as it is.
LEMMA SameJob ==
    ASSUME IInv, NEW t \in Tasks
    PROVE  /\ job[t] \in Phases /\ left[t] \in 0..MaxAttempts
           /\ UNCHANGED job => SetJob(t, job[t])
           /\ UNCHANGED left => left' = [left EXCEPT ![t] = left[t]]
           /\ UNCHANGED ours => ours' \in [Tasks -> BOOLEAN]
           /\ job[t] = "waiting" => left[t] > 0
           /\ UNCHANGED <<taskVars, faults>> /\ job'[t] = job[t] => Settled(t)'
BY DEF IInv, TypeOK, SetJob, Phases, TasksOK, TaskOK, Settled, taskVars

LEMMA EnqueueKeeps ==
    ASSUME IInv, NEW h \in Handlers, Enqueue(h)
    PROVE  IInv'
<1>0. at[h] = "enqueue" /\ Goto(h, "idle") /\ h \in Threads /\ OnlyQueue
  BY Roles DEF Enqueue
<1>1. PICK t \in Tasks : t = T(h)
  BY <1>0, ThreadFacts
<1>2. SetJob(t, "waiting") /\ left' = [left EXCEPT ![t] = MaxAttempts]
  BY <1>1 DEF Enqueue, T
<1>3. MaxAttempts \in 0..MaxAttempts /\ MaxAttempts > 0
  BY RuntimeAssumption
<1>4. ours' \in [Tasks -> BOOLEAN]
  BY <1>1 DEF Enqueue, T, IInv, TypeOK
<1>5. task[t] # Null
  BY <1>0, <1>1, ThreadFacts DEF AtWork
<1> QED
  BY <1>0, <1>1, <1>2, <1>3, <1>4, <1>5, JobStep DEF PCs, Phases, Carrying, Starting

LEMMA QueueCompleteKeeps == IInv /\ QueueComplete => IInv'
<1> SUFFICES ASSUME IInv, QueueComplete PROVE IInv'
  OBVIOUS
<1>0. at[Worker] = "complete" /\ Worker \in Threads /\ OnlyQueue /\ UNCHANGED <<left, ours>>
  BY Roles DEF QueueComplete
<1>1. PICK t \in Tasks : t = T(Worker)
  BY <1>0, ThreadFacts
<1>2. task[t] # Null /\ WorkerAtWork /\ AtWork(Worker)
  BY <1>0, <1>1, ThreadFacts DEF Stage, AtWork
<1>3. CASE job[t] = "delivered"
  <2>1. SetJob(t, "completed") /\ Goto(Worker, "idle")
    BY <1>1, <1>3 DEF QueueComplete, T
  <2>2. Settled(t)'
    BY <1>0, <1>1 DEF IInv, WorkerSettles, Settled, OnlyQueue, taskVars
  <2> QED
    BY <1>0, <1>1, <1>2, <1>3, <2>1, <2>2, SameJob, JobStep DEF PCs, Phases, Carrying, Starting
<1>4. CASE job[t] # "delivered"
  <2>1. UNCHANGED job /\ Goto(Worker, "fail") /\ "fail" \in PCs \ {"idle"}
    BY <1>1, <1>4 DEF QueueComplete, T, PCs, Writes
  <2>2. UNCHANGED <<taskVars, queueVars, approval, envVars>> /\ UNCHANGED faults
    BY <1>0, <2>1 DEF OnlyQueue, queueVars
  <2>3. Stage(Worker)'
    BY <1>0, <1>2, <2>1, <2>2, OwnStage
    DEF Stage, AtWork, WorkerAtWork, First, Starting, Same
  <2> QED
    BY <1>0, <2>1, <2>2, <2>3, FaultsStay, ThreadOnly DEF Carrying, Starting
<1> QED
  BY <1>3, <1>4

LEMMA QueueFailKeeps == IInv /\ QueueFail => IInv'
<1> SUFFICES ASSUME IInv, QueueFail PROVE IInv'
  OBVIOUS
<1>0. /\ at[Worker] = "fail" /\ Worker \in Threads /\ OnlyQueue /\ UNCHANGED <<left, ours>>
      /\ Goto(Worker, "idle") /\ "idle" \in PCs
  BY Roles DEF QueueFail, PCs
<1>1. PICK t \in Tasks : t = T(Worker)
  BY <1>0, ThreadFacts
<1>2. task[t] # Null
  BY <1>0, <1>1, ThreadFacts DEF AtWork
<1>3. CASE job[t] = "delivered"
  <2>1. SetJob(t, GivenBack(t)) /\ GivenBack(t) \in {"waiting", "failed"}
    BY <1>1, <1>3 DEF QueueFail, T, GivenBack
  <2>2. GivenBack(t) = "waiting" => left[t] > 0
    BY DEF GivenBack
  <2> HIDE DEF GivenBack
  <2> QED
    BY <1>0, <1>1, <1>2, <1>3, <2>1, <2>2, SameJob, JobStep DEF Phases, Carrying, Starting
<1>4. CASE job[t] # "delivered"
  <2>1. UNCHANGED job
    BY <1>1, <1>4 DEF QueueFail, T
  <2>2. UNCHANGED <<taskVars, queueVars, approval, envVars>> /\ UNCHANGED faults
    BY <1>0, <2>1 DEF OnlyQueue, queueVars
  <2> QED
    BY <1>0, <2>2, FaultsStay, ThreadOnly DEF Carrying, Starting
<1> QED
  BY <1>3, <1>4

LEMMA QueueDropKeeps == IInv /\ QueueDrop => IInv'
<1> SUFFICES ASSUME IInv, QueueDrop PROVE IInv'
  OBVIOUS
<1>0. at[Worker] = "drop" /\ Worker \in Threads /\ OnlyQueue /\ UNCHANGED <<left, ours>>
  BY Roles DEF QueueDrop
<1>1. PICK t \in Tasks : t = T(Worker)
  BY <1>0, ThreadFacts
<1>2. task[t] # Null /\ WorkerAtWork /\ AtWork(Worker)
  BY <1>0, <1>1, ThreadFacts DEF Stage, AtWork
<1>3. CASE job[t] \in {"waiting", "delivered"}
  <2>1. SetJob(t, "cancelled") /\ Goto(Worker, "idle")
    BY <1>1, <1>3 DEF QueueDrop, T
  <2> QED
    BY <1>0, <1>1, <1>2, <1>3, <2>1, SameJob, JobStep DEF PCs, Phases, Carrying, Starting
<1>4. CASE job[t] \notin {"waiting", "delivered"}
  <2>1. UNCHANGED job /\ Goto(Worker, "fail") /\ "fail" \in PCs \ {"idle"}
    BY <1>1, <1>4 DEF QueueDrop, T, PCs, Writes
  <2>2. UNCHANGED <<taskVars, queueVars, approval, envVars>> /\ UNCHANGED faults
    BY <1>0, <2>1 DEF OnlyQueue, queueVars
  <2>3. Stage(Worker)'
    BY <1>0, <1>2, <2>1, <2>2, OwnStage
    DEF Stage, AtWork, WorkerAtWork, First, Starting, Same
  <2> QED
    BY <1>0, <2>1, <2>2, <2>3, FaultsStay, ThreadOnly DEF Carrying, Starting
<1> QED
  BY <1>3, <1>4

LEMMA CancelJobKeeps ==
    ASSUME IInv, NEW h \in Handlers, CancelJob(h)
    PROVE  IInv'
<1>0. /\ at[h] = "cancelJob" /\ h \in Threads /\ h # Worker
      /\ OnlyQueue /\ UNCHANGED <<left, ours>>
  BY Roles DEF CancelJob
<1>1. PICK t \in Tasks : t = T(h)
  BY <1>0, ThreadFacts
<1>2. task[t] # Null /\ HandlerAtWork(h) /\ AtWork(h)
  BY <1>0, <1>1, ThreadFacts DEF Stage, AtWork
<1>3. CASE job[t] = "waiting"
  <2>1. SetJob(t, "cancelled") /\ Goto(h, "cancelTask") /\ "cancelTask" \in PCs
    BY <1>1, <1>3 DEF CancelJob, T, PCs, Writes
  <2>2. at'[h] = "cancelTask" /\ on'[h] = on[h]
    BY <1>0, <2>1, ThreadFacts, GotoFacts DEF Moved
  <2>3. Stage(h)'
    BY <1>0, <1>1, <1>2, <2>2
    DEF Stage, AtWork, HandlerAtWork, Requests, Carrying, Starting, T, N, OnlyQueue, taskVars
  <2> QED
    BY <1>0, <1>1, <1>2, <1>3, <2>1, <2>3, SameJob, JobStep DEF PCs, Phases, Carrying, Starting
<1>4. CASE job[t] # "waiting"
  <2>1. UNCHANGED job /\ Goto(h, "idle") /\ "idle" \in PCs
    BY <1>1, <1>4 DEF CancelJob, T, PCs
  <2>2. UNCHANGED <<taskVars, queueVars, approval, envVars>> /\ UNCHANGED faults
    BY <1>0, <2>1 DEF OnlyQueue, queueVars
  <2> QED
    BY <1>0, <2>1, <2>2, FaultsStay, ThreadOnly DEF Carrying, Starting
<1> QED
  BY <1>3, <1>4

LEMMA RetryFailedKeeps ==
    ASSUME IInv, NEW h \in Handlers, RetryFailed(h)
    PROVE  IInv'
<1>0. /\ at[h] = "retry" /\ h \in Threads /\ OnlyQueue /\ UNCHANGED ours
      /\ Goto(h, "idle") /\ "idle" \in PCs
  BY Roles DEF RetryFailed, PCs
<1>1. PICK t \in Tasks : t = T(h)
  BY <1>0, ThreadFacts
<1>2. task[t] # Null
  BY <1>0, <1>1, ThreadFacts DEF AtWork
<1>3. CASE job[t] = "failed"
  <2>1. SetJob(t, "waiting")
    BY <1>1, <1>3 DEF RetryFailed, T
  <2>2. PICK max \in 1..MaxAttempts : left' = [left EXCEPT ![t] = max]
    BY <1>1, <1>3 DEF RetryFailed, T
  <2>3. max \in 0..MaxAttempts /\ max > 0
    BY RuntimeAssumption
  <2> QED
    BY <1>0, <1>1, <1>2, <1>3, <2>1, <2>2, <2>3, SameJob, JobStep DEF Phases, Carrying, Starting
<1>4. CASE job[t] # "failed"
  <2>1. UNCHANGED <<job, left>>
    BY <1>1, <1>4 DEF RetryFailed, T
  <2>2. UNCHANGED <<taskVars, queueVars, approval, envVars>> /\ UNCHANGED faults
    BY <1>0, <2>1 DEF OnlyQueue, queueVars
  <2> QED
    BY <1>0, <2>2, FaultsStay, ThreadOnly DEF Carrying, Starting
<1> QED
  BY <1>3, <1>4

-----------------------------------------------------------------------------
(* Steps that move a task *)

\* While a thread starts a task, or carries an approval of it, no other one
\* does.
LEMMA SoleStarter ==
    ASSUME IInv, NEW th \in Threads, at[th] \in Starting,
           NEW x \in Threads \ {th}, at[x] # "idle", T(x) = T(th)
    PROVE  at[x] \notin Starting /\ (x = Worker => at[x] \notin First)
<1>0. at[th] # "idle"
  BY DEF Starting
<1>1. T(th) \in Tasks /\ Len(approval[T(th)]) \in Nat
       /\ (approval[T(th)] = <<>> => Len(approval[T(th)]) = 0)
  BY <1>0, ThreadFacts DEF IInv, TypeOK, Approvals
<1>2. CASE th = Worker
  <2>1. approval[T(th)] = <<>>
    BY <1>0, <1>2, ThreadFacts DEF Stage, WorkerAtWork
  <2>2. HandlerAtWork(x)
    BY <1>2, ThreadFacts DEF Stage
  <2> QED
    BY <1>1, <1>2, <2>1, <2>2 DEF HandlerAtWork
<1>3. CASE x = Worker
  <2>1. HandlerAtWork(th)
    BY <1>0, <1>3, ThreadFacts DEF Stage
  <2>2. at[x] \in First \cup Starting => approval[T(th)] = <<>>
    BY <1>3, ThreadFacts DEF Stage, WorkerAtWork
  <2> QED
    BY <1>1, <1>3, <2>1, <2>2 DEF HandlerAtWork
<1>4. CASE th # Worker /\ x # Worker
  <2>1. th \in Handlers /\ x \in Handlers
    BY <1>4, Roles
  <2> QED
    BY <1>4, <2>1 DEF IInv, Alone, Engaged
<1> QED
  BY <1>2, <1>3, <1>4

LEMMA TaskStep ==
    ASSUME IInv, NEW th \in Threads, at[th] # "idle", NEW t \in Tasks, t = T(th),
           NEW pc \in PCs, Goto(th, pc), OnlyTask,
           NEW status \in {"waiting"} \cup Started, SetTask(t, status),
           task[t] \in Started => status \in Started,
           status = "running" => Consented(t) /\ at[th] \in Starting,
           pc # "idle" => Stage(th)',
           pc \in Carrying \cup Starting /\ th # Worker => Engaged(th),
           pc # "enqueue"
    PROVE  IInv'
<1>1. ControlOK /\ ControlOK' /\ Moved(th, pc)
  BY ThreadFacts, GotoFacts
<1>2. /\ task' \in Statuses /\ task'[t] = status /\ status \notin {"pending", Null}
      /\ \A u \in Tasks \ {t} : task'[u] = task[u]
  BY RuntimeAssumption
  DEF IInv, TypeOK, SetTask, Statuses, Allowed, Started, Terminal
<1>3. TypeOK'
  BY <1>1, <1>2
  DEF IInv, TypeOK, ControlOK, OnlyTask, queueVars, envVars, Approvals, Work
<1>4. \A u \in Tasks \ {t} : Same(u)
  BY <1>2 DEF Same, OnlyTask, queueVars
<1>5. task[t] # Null
  BY ThreadFacts DEF AtWork
<1>6. TaskOK(t)' /\ ApprovalOK(t)'
  BY <1>2, <1>5
  DEF IInv, TasksOK, TaskOK, ApprovalOK, Consented, LastApproval, OnlyTask, queueVars,
      Started, Terminal
<1>7. Settled(t)'
  BY <1>2 DEF Settled
<1>8. ASSUME NEW x \in Threads \ {th}, at[x] # "idle", T(x) = t PROVE Stage(x)'
  <2>1. at'[x] = at[x] /\ on'[x] = on[x] /\ Stage(x)
    BY <1>1, <1>8 DEF Moved, IInv, StagesOK
  <2>2. status = "running" => at[x] \notin Starting /\ (x = Worker => at[x] \notin First)
    BY <1>8, SoleStarter
  <2>3. UNCHANGED <<decision, runs, approval, job>>
    BY DEF OnlyTask, queueVars
  <2>4. AtWork(x)'
    BY <1>2, <1>8, <2>1, <2>2, <2>3 DEF Stage, AtWork, T, Starting
  <2>5. x = Worker => WorkerAtWork'
    BY <1>2, <1>8, <2>1, <2>2, <2>3 DEF Stage, WorkerAtWork, T, N
  <2>6. x # Worker => HandlerAtWork(x)'
    BY <1>8, <2>1, <2>3 DEF Stage, HandlerAtWork, T, N
  <2> QED
    BY <2>4, <2>5, <2>6 DEF Stage
<1>9. Stage(th)'
  BY <1>1 DEF Stage, Moved
<1>10. UNCHANGED envVars /\ faults' >= faults
  BY FaultsStay DEF OnlyTask
<1> QED
  BY <1>1, <1>2, <1>3, <1>4, <1>6, <1>7, <1>8, <1>9, <1>10, ThreadStep

\* A refused call of the registry leaves the task as it is.
LEMMA RefusedOnly ==
    OnlyTask /\ UNCHANGED task =>
        UNCHANGED <<taskVars, queueVars, approval, envVars>> /\ UNCHANGED faults
BY DEF OnlyTask, taskVars

\* What the transition table lets a task become.
LEMMA Transitions ==
    ASSUME IInv, NEW t \in Tasks, task[t] # Null, NEW status
    PROVE  /\ MayBecome(t, "running") => task[t] \in {"pending", "waiting", "running"}
           /\ MayBecome(t, "waiting") => task[t] \in {"pending", "waiting", "running"}
           /\ ~MayBecome(t, "running") => task[t] \in Terminal
           /\ ~MayBecome(t, "succeeded") /\ task[t] \in Started => task[t] \in Terminal
           /\ task[t] = "running" => MayBecome(t, "succeeded") /\ MayBecome(t, "failed")
           /\ task[t] = "pending" \/ task[t] = "waiting" =>
                 MayBecome(t, "failed") /\ MayBecome(t, "cancelled")
           /\ MayBecome(t, "succeeded") => task[t] \in {"running", "succeeded"}
           /\ MayBecome(t, "failed") => task[t] \in {"pending", "waiting", "running", "failed"}
           /\ MayBecome(t, "cancelled") =>
                 task[t] \in {"pending", "waiting", "running", "cancelled"}
<1>1. task[t] \in {"pending", "waiting", "running", "succeeded", "failed", "cancelled"}
  BY DEF IInv, TypeOK, Statuses, Allowed
<1> QED
  BY <1>1 DEF MayBecome, Allowed, Terminal, Started

LEMMA DenyTaskKeeps ==
    ASSUME IInv, NEW th \in Threads, DenyTask(th)
    PROVE  IInv'
<1>0. at[th] = "deny" /\ OnlyTask
  BY DEF DenyTask
<1>1. PICK t \in Tasks : t = T(th)
  BY <1>0, ThreadFacts
<1>2. th = Worker /\ WorkerAtWork /\ AtWork(th) /\ task[t] # Null
  BY <1>0, <1>1, ThreadFacts
  DEF Stage, HandlerAtWork, Requests, Carrying, Starting, AtWork
<1>3. CASE MayBecome(t, "failed")
  <2>1. SetTask(t, "failed") /\ Goto(th, "complete") /\ "complete" \in PCs
    BY <1>1, <1>2, <1>3 DEF DenyTask, T, Return, PCs, Writes
  <2>2. at'[th] = "complete" /\ on'[th] = on[th] /\ task'[t] = "failed"
    BY <1>0, <2>1, ThreadFacts, GotoFacts DEF Moved, SetTask, IInv, TypeOK, Statuses
  <2>3. Stage(th)'
    BY <1>0, <1>1, <1>2, <2>2, RuntimeAssumption
    DEF Stage, AtWork, WorkerAtWork, First, Starting, T, N
  <2> QED
    BY <1>0, <1>1, <2>1, <2>3, TaskStep DEF Started, Terminal, Carrying, Starting
<1>4. CASE ~MayBecome(t, "failed")
  <2>1. UNCHANGED task /\ Goto(th, "fail") /\ "fail" \in PCs \ {"idle"}
    BY <1>1, <1>2, <1>4 DEF DenyTask, T, Raise, PCs, Writes
  <2>2. Stage(th)'
    BY <1>0, <1>2, <2>1, RefusedOnly, OwnStage
    DEF Stage, AtWork, WorkerAtWork, First, Starting, Same
  <2> QED
    BY <1>0, <2>1, <2>2, RefusedOnly, FaultsStay, ThreadOnly DEF Carrying, Starting
<1> QED
  BY <1>3, <1>4

LEMMA MarkWaitingKeeps ==
    ASSUME IInv, NEW th \in Threads, MarkWaiting(th)
    PROVE  IInv'
<1>0. at[th] = "markWaiting" /\ OnlyTask
  BY DEF MarkWaiting
<1>1. PICK t \in Tasks : t = T(th)
  BY <1>0, ThreadFacts
<1>2. th = Worker /\ WorkerAtWork /\ AtWork(th) /\ task[t] # Null
  BY <1>0, <1>1, ThreadFacts
  DEF Stage, HandlerAtWork, Requests, Carrying, Starting, AtWork
<1>3. N(th) = 0 /\ runs[t] = 0 /\ task[t] # "running"
  BY <1>0, <1>1, <1>2 DEF WorkerAtWork, First
<1>4. CASE MayBecome(t, "waiting")
  <2>1. SetTask(t, "waiting") /\ Goto(th, "find") /\ "find" \in PCs
    BY <1>1, <1>3, <1>4 DEF MarkWaiting, T, N, AfterWaiting, PCs, Writes
  <2>2. task[t] \in {"pending", "waiting"}
    BY <1>2, <1>3, <1>4, Transitions
  <2>3. at'[th] = "find" /\ on'[th] = on[th] /\ task'[t] = "waiting"
    BY <1>0, <2>1, ThreadFacts, GotoFacts DEF Moved, SetTask, IInv, TypeOK, Statuses
  <2>4. Stage(th)'
    BY <1>0, <1>1, <1>2, <1>3, <2>3, RuntimeAssumption
    DEF Stage, AtWork, WorkerAtWork, First, Starting, T, N, OnlyTask
  <2> QED
    BY <1>0, <1>1, <1>2, <2>1, <2>2, <2>4, TaskStep DEF Started, Terminal
<1>5. CASE ~MayBecome(t, "waiting")
  <2>1. UNCHANGED task /\ Goto(th, "fail") /\ "fail" \in PCs \ {"idle"}
    BY <1>1, <1>2, <1>5 DEF MarkWaiting, T, Raise, PCs, Writes
  <2>2. Stage(th)'
    BY <1>0, <1>2, <2>1, RefusedOnly, OwnStage
    DEF Stage, AtWork, WorkerAtWork, First, Starting, Same
  <2> QED
    BY <1>0, <2>1, <2>2, RefusedOnly, FaultsStay, ThreadOnly DEF Carrying, Starting
<1> QED
  BY <1>4, <1>5

\* A thread of the engine that starts or ends a run: its role does not matter.
LEMMA StartingStage ==
    ASSUME IInv, NEW th \in Threads, at[th] \in Starting, NEW t \in Tasks, t = T(th),
           at'[th] \in Starting, on'[th] = on[th], UNCHANGED <<decision, approval, job>>,
           AtWork(th)'
    PROVE  Stage(th)'
<1>1. at[th] # "idle"
  BY DEF Starting
<1>2. th = Worker => WorkerAtWork'
  BY <1>1, ThreadFacts DEF Stage, WorkerAtWork, First, Starting, T, N
<1>3. th # Worker => HandlerAtWork(th)'
  BY <1>1, ThreadFacts DEF Stage, HandlerAtWork, Requests, Carrying, Starting, T, N
<1> QED
  BY <1>2, <1>3 DEF Stage

\* It returns to its loop or ends its request.
LEMMA ReturnStage ==
    ASSUME IInv, NEW th \in Threads, at[th] \in Starting, NEW t \in Tasks, t = T(th),
           at'[th] = Return(th), Return(th) # "idle" => on'[th] = on[th], task'[t] # Null
    PROVE  Return(th) \in PCs /\ (Return(th) # "idle" => Stage(th)')
<1>1. at[th] # "idle"
  BY DEF Starting
<1>2. Return(th) \in {"idle", "complete"} /\ (th # Worker => Return(th) = "idle")
  BY DEF Return
<1>3. th = Worker => N(th) = 0
  BY <1>1, ThreadFacts DEF Stage, WorkerAtWork
<1> QED
  BY <1>2, <1>3 DEF Stage, AtWork, WorkerAtWork, First, Starting, T, N, PCs, Writes

LEMMA MarkRunningKeeps ==
    ASSUME IInv, NEW th \in Threads, MarkRunning(th)
    PROVE  IInv'
<1>0. at[th] = "markRunning" /\ at[th] # "idle" /\ at[th] \in Starting /\ OnlyTask
  BY DEF MarkRunning, Starting
<1>1. PICK t \in Tasks : t = T(th)
  BY <1>0, ThreadFacts
<1>2. AtWork(th) /\ task[t] # Null /\ task[t] # "running" /\ runs[t] = 0
  BY <1>0, <1>1, ThreadFacts DEF AtWork
<1>3. CASE MayBecome(t, "running")
  <2>1. SetTask(t, "running") /\ Goto(th, "execute") /\ "execute" \in PCs
    BY <1>1, <1>3 DEF MarkRunning, T, PCs
  <2>2. task[t] \in {"pending", "waiting"}
    BY <1>2, <1>3, Transitions
  <2>3. at'[th] = "execute" /\ on'[th] = on[th] /\ task'[t] = "running"
    BY <1>0, <2>1, ThreadFacts, GotoFacts DEF Moved, SetTask, IInv, TypeOK, Statuses
  <2>4. AtWork(th)'
    BY <1>0, <1>1, <1>2, <2>3, RuntimeAssumption DEF AtWork, T, OnlyTask, Started
  <2>5. Stage(th)'
    BY <1>0, <1>1, <2>3, <2>4, StartingStage DEF Starting, OnlyTask, queueVars
  <2>6. Consented(t)
    <3>1. th = Worker => decision[t] = "allow"
      BY <1>0, <1>1, ThreadFacts DEF Stage, WorkerAtWork
    <3>2. th # Worker => /\ Len(approval[t]) # 0
                         /\ LastApproval(t) = "consumed" /\ ApprovalOK(t)
      BY <1>0, <1>1, ThreadFacts DEF Stage, HandlerAtWork, LastApproval
    <3> QED
      BY <3>1, <3>2 DEF Consented, ApprovalOK
  <2> QED
    BY <1>0, <1>1, <2>1, <2>2, <2>5, <2>6, TaskStep
    DEF Started, Terminal, Engaged
<1>4. CASE ~MayBecome(t, "running")
  <2>1. UNCHANGED task /\ Goto(th, Return(th))
    BY <1>1, <1>4 DEF MarkRunning, T
  <2>2. Return(th) \in {"idle", "complete"} /\ Return(th) \in PCs
    BY DEF Return, PCs, Writes
  <2>3. at'[th] = Return(th) /\ (Return(th) # "idle" => on'[th] = on[th])
    BY <1>0, <2>1, <2>2, ThreadFacts, GotoFacts DEF Moved
  <2>4. Return(th) # "idle" => Stage(th)'
    BY <1>0, <1>1, <1>2, <2>1, <2>3, ReturnStage
  <2>5. task[t] # "pending"
    BY <1>2, <1>4, Transitions DEF Terminal
  <2> QED
    BY <1>0, <1>1, <2>1, <2>2, <2>4, <2>5, RefusedOnly, FaultsStay, ThreadOnly
    DEF Carrying, Starting
<1> QED
  BY <1>3, <1>4

LEMMA RecordSuccessKeeps ==
    ASSUME IInv, NEW th \in Threads, RecordSuccess(th)
    PROVE  IInv'
<1>0. at[th] = "succeed" /\ at[th] # "idle" /\ at[th] \in Starting /\ OnlyTask
  BY DEF RecordSuccess, Starting
<1>1. PICK t \in Tasks : t = T(th)
  BY <1>0, ThreadFacts
<1>2. AtWork(th) /\ task[t] # Null /\ runs[t] = 1
  BY <1>0, <1>1, ThreadFacts DEF AtWork
<1>3. CASE MayBecome(t, "succeeded")
  <2>1. SetTask(t, "succeeded") /\ Goto(th, Return(th))
    BY <1>1, <1>3 DEF RecordSuccess, T
  <2>2. Return(th) \in {"idle", "complete"} /\ Return(th) \in PCs
    BY DEF Return, PCs, Writes
  <2>3. at'[th] = Return(th) /\ (Return(th) # "idle" => on'[th] = on[th])
    BY <1>0, <2>1, <2>2, ThreadFacts, GotoFacts DEF Moved
  <2>4. task'[t] = "succeeded"
    BY <2>1 DEF SetTask, IInv, TypeOK, Statuses
  <2>5. Return(th) # "idle" => Stage(th)'
    BY <1>0, <1>1, <2>3, <2>4, ReturnStage, RuntimeAssumption
  <2> QED
    BY <1>0, <1>1, <2>1, <2>2, <2>5, TaskStep DEF Started, Terminal, Carrying, Starting
<1>4. CASE ~MayBecome(t, "succeeded")
  <2>1. UNCHANGED task /\ Goto(th, "abort") /\ "abort" \in PCs \ {"idle"}
    BY <1>1, <1>4 DEF RecordSuccess, T, PCs, Writes
  <2>2. at'[th] = "abort" /\ on'[th] = on[th]
    BY <1>0, <2>1, RefusedOnly, OwnStage
  <2>3. AtWork(th)'
    BY <1>0, <1>1, <1>2, <2>1, <2>2 DEF AtWork, T, OnlyTask
  <2>4. Stage(th)'
    BY <1>0, <1>1, <2>2, <2>3, StartingStage DEF Starting, OnlyTask, queueVars
  <2> QED
    BY <1>0, <2>1, <2>4, RefusedOnly, FaultsStay, ThreadOnly DEF Engaged
<1> QED
  BY <1>3, <1>4

LEMMA RecordFailureKeeps ==
    ASSUME IInv, NEW th \in Threads, RecordFailure(th)
    PROVE  IInv'
<1>0. at[th] = "abort" /\ at[th] # "idle" /\ at[th] \in Starting /\ OnlyTask
      /\ Goto(th, Return(th))
  BY DEF RecordFailure, Starting
<1>1. PICK t \in Tasks : t = T(th)
  BY <1>0, ThreadFacts
<1>2. task[t] \in Started /\ task[t] # Null
  BY <1>0, <1>1, ThreadFacts DEF AtWork, TaskOK
<1>3. Return(th) \in {"idle", "complete"} /\ Return(th) \in PCs
  BY DEF Return, PCs, Writes
<1>4. at'[th] = Return(th) /\ (Return(th) # "idle" => on'[th] = on[th])
  BY <1>0, <1>3, ThreadFacts, GotoFacts DEF Moved
<1>5. CASE MayBecome(t, "failed")
  <2>1. SetTask(t, "failed")
    BY <1>1, <1>5 DEF RecordFailure, T
  <2>2. task'[t] = "failed"
    BY <2>1 DEF SetTask, IInv, TypeOK, Statuses
  <2>3. Return(th) # "idle" => Stage(th)'
    BY <1>0, <1>1, <1>4, <2>2, ReturnStage, RuntimeAssumption
  <2> QED
    BY <1>0, <1>1, <1>3, <2>1, <2>3, TaskStep DEF Started, Terminal, Carrying, Starting
<1>6. CASE ~MayBecome(t, "failed")
  <2>1. UNCHANGED task
    BY <1>1, <1>6 DEF RecordFailure, T
  <2>2. Return(th) # "idle" => Stage(th)'
    BY <1>0, <1>1, <1>2, <1>4, <2>1, ReturnStage
  <2>3. task[t] # "pending"
    BY <1>2 DEF Started, Terminal
  <2> QED
    BY <1>0, <1>1, <1>3, <2>1, <2>2, <2>3, RefusedOnly, FaultsStay, ThreadOnly
    DEF Carrying, Starting
<1> QED
  BY <1>5, <1>6

LEMMA CancelTaskKeeps ==
    ASSUME IInv, NEW h \in Handlers, CancelTask(h)
    PROVE  IInv'
<1>0. /\ at[h] = "cancelTask" /\ OnlyTask /\ h \in Threads
      /\ Goto(h, "idle") /\ "idle" \in PCs
  BY Roles DEF CancelTask, PCs
<1>1. PICK t \in Tasks : t = T(h)
  BY <1>0, ThreadFacts
<1>2. CASE MayBecome(t, "cancelled")
  BY <1>0, <1>1, <1>2, TaskStep DEF CancelTask, T, Started, Terminal, Carrying, Starting
<1>3. CASE ~MayBecome(t, "cancelled")
  BY <1>0, <1>1, <1>3, RefusedOnly, FaultsStay, ThreadOnly
  DEF CancelTask, T, Carrying, Starting
<1> QED
  BY <1>2, <1>3

-----------------------------------------------------------------------------
(* Steps that move an approval request *)

ApprovalStatuses == {"pending", "approved", "rejected", "expired", "consumed"}

LEMMA SetApprovalFacts ==
    ASSUME TypeOK, NEW t \in Tasks, NEW n \in 1..Len(approval[t]),
           NEW status \in ApprovalStatuses, SetApproval(t, n, status)
    PROVE  /\ approval' \in Approvals
           /\ Len(approval'[t]) = Len(approval[t])
           /\ \A k \in 1..Len(approval[t]) :
                 approval'[t][k] = IF k = n THEN status ELSE approval[t][k]
           /\ \A u \in Tasks \ {t} : approval'[u] = approval[u]
           /\ \A u \in Tasks : Len(approval'[u]) <= MaxApprovals
           /\ approval'[t] # <<>>
<1>1. approval \in [Tasks -> Seq(ApprovalStatuses)] /\ approval[t] \in Seq(ApprovalStatuses)
  BY DEF TypeOK, Approvals, ApprovalStatuses
<1> DEFINE new == [approval[t] EXCEPT ![n] = status]
<1>2. /\ new \in Seq(ApprovalStatuses) /\ Len(new) = Len(approval[t])
      /\ \A k \in 1..Len(approval[t]) : new[k] = IF k = n THEN status ELSE approval[t][k]
  BY <1>1, ExceptSeq
<1>3. approval' = [approval EXCEPT ![t] = new]
  BY <1>1 DEF SetApproval
<1> HIDE DEF new
<1>4. approval' \in [Tasks -> Seq(ApprovalStatuses)] /\ approval'[t] = new
      /\ \A u \in Tasks \ {t} : approval'[u] = approval[u]
  BY <1>1, <1>2, <1>3
<1>5. \A u \in Tasks : Len(approval'[u]) <= MaxApprovals
  <2> SUFFICES ASSUME NEW u \in Tasks PROVE Len(approval'[u]) <= MaxApprovals
    OBVIOUS
  <2>1. Len(approval[t]) <= MaxApprovals /\ Len(approval[u]) <= MaxApprovals
    BY DEF TypeOK
  <2> QED
    BY <1>2, <1>4, <2>1
<1>6. new # <<>>
  <2>1. Len(approval[t]) \in Nat
    BY <1>1
  <2> QED
    BY <1>2, <2>1
<1> QED
  BY <1>2, <1>4, <1>5, <1>6 DEF Approvals, ApprovalStatuses

LEMMA AddApprovalFacts ==
    ASSUME TypeOK, NEW t \in Tasks, Len(approval[t]) < MaxApprovals,
           approval' = [approval EXCEPT ![t] = Append(@, "pending")]
    PROVE  /\ approval' \in Approvals
           /\ Len(approval'[t]) = Len(approval[t]) + 1 /\ Len(approval[t]) \in Nat
           /\ \A k \in 1..Len(approval[t]) : approval'[t][k] = approval[t][k]
           /\ approval'[t][Len(approval[t]) + 1] = "pending"
           /\ \A u \in Tasks \ {t} : approval'[u] = approval[u]
           /\ \A u \in Tasks : Len(approval'[u]) <= MaxApprovals
           /\ approval'[t] # <<>>
<1>1. approval \in [Tasks -> Seq(ApprovalStatuses)] /\ approval[t] \in Seq(ApprovalStatuses)
  BY DEF TypeOK, Approvals, ApprovalStatuses
<1> DEFINE new == Append(approval[t], "pending")
<1>2. /\ new \in Seq(ApprovalStatuses) /\ Len(new) = Len(approval[t]) + 1 /\ new # <<>>
      /\ \A k \in 1..Len(approval[t]) : new[k] = approval[t][k]
      /\ new[Len(approval[t]) + 1] = "pending"
  BY <1>1, AppendProperties DEF ApprovalStatuses
<1>3. approval' = [approval EXCEPT ![t] = new] /\ Len(approval[t]) \in Nat
  BY <1>1
<1> HIDE DEF new
<1>4. approval' \in [Tasks -> Seq(ApprovalStatuses)] /\ approval'[t] = new
      /\ \A u \in Tasks \ {t} : approval'[u] = approval[u]
  BY <1>1, <1>2, <1>3
<1>5. \A u \in Tasks : Len(approval'[u]) <= MaxApprovals
  <2> SUFFICES ASSUME NEW u \in Tasks PROVE Len(approval'[u]) <= MaxApprovals
    OBVIOUS
  <2>1. Len(approval[u]) <= MaxApprovals
    BY DEF TypeOK
  <2> QED
    BY <1>2, <1>3, <1>4, <2>1, RuntimeAssumption
<1> QED
  BY <1>2, <1>3, <1>4, <1>5 DEF Approvals, ApprovalStatuses

\* Only the last request of a task can still lead to a run.
LEMMA LastOnly ==
    ASSUME IInv, NEW t \in Tasks, NEW n \in 1..Len(approval[t]),
           approval[t][n] \in {"pending", "approved", "consumed"}
    PROVE  /\ n = Len(approval[t]) /\ approval[t] # <<>> /\ LastApproval(t) = approval[t][n]
           /\ Len(approval[t]) \in Nat /\ Len(approval[t]) > 0
<1>1. Len(approval[t]) \in Nat /\ (approval[t] = <<>> => Len(approval[t]) = 0)
  BY DEF IInv, TypeOK, Approvals
<1>2. n \notin 1..(Len(approval[t]) - 1)
  BY DEF IInv, TasksOK, ApprovalOK
<1>3. n = Len(approval[t])
  BY <1>1, <1>2
<1> QED
  BY <1>1, <1>3 DEF LastApproval

\* The last request of t is decided, spent or expires: its task and the other
\* threads at work on it do not mind.
LEMMA RequestMoves ==
    ASSUME IInv, NEW t \in Tasks, NEW n \in 1..Len(approval[t]),
           approval[t][n] \in {"pending", "approved"},
           NEW status \in ApprovalStatuses, SetApproval(t, n, status),
           UNCHANGED <<taskVars, queueVars, faults>>
    PROVE  /\ TaskOK(t)' /\ ApprovalOK(t)' /\ Settled(t)'
           /\ \A u \in Tasks \ {t} : Same(u)
           /\ \A x \in Threads :
                 /\ at[x] # "idle" /\ T(x) = t /\ at'[x] = at[x] /\ on'[x] = on[x]
                 /\ status = "expired" \/ ~(x # Worker /\ Engaged(x))
                 => Stage(x)'
<1>1. /\ n = Len(approval[t]) /\ approval[t] # <<>> /\ LastApproval(t) = approval[t][n]
      /\ Len(approval[t]) \in Nat /\ Len(approval[t]) > 0
  BY LastOnly
<1>2. /\ Len(approval'[t]) = Len(approval[t]) /\ approval'[t] # <<>>
      /\ \A k \in 1..Len(approval[t]) :
            approval'[t][k] = IF k = n THEN status ELSE approval[t][k]
      /\ \A u \in Tasks \ {t} : approval'[u] = approval[u]
  BY SetApprovalFacts DEF IInv
<1>3. ~(LastApproval(t) = "consumed") /\ decision[t] = "require_approval"
  BY <1>1 DEF IInv, TasksOK, ApprovalOK
<1>4. TaskOK(t) /\ ApprovalOK(t) /\ Settled(t)
  BY DEF IInv, TasksOK
<1>5. ~Consented(t)
  BY <1>3 DEF Consented
<1>6. TaskOK(t)'
  BY <1>4, <1>5 DEF TaskOK, taskVars, queueVars
<1>7. ApprovalOK(t)'
  <2>1. \A k \in 1..(Len(approval'[t]) - 1) : approval'[t][k] \in {"rejected", "expired"}
    BY <1>1, <1>2, <1>4 DEF ApprovalOK
  <2> QED
    BY <1>1, <1>4, <2>1 DEF ApprovalOK, taskVars
<1>8. Settled(t)'
  BY <1>4 DEF Settled, taskVars, queueVars
<1>9. \A u \in Tasks \ {t} : Same(u)
  BY <1>2 DEF Same, taskVars, queueVars
<1>10. ASSUME NEW x \in Threads, at[x] # "idle", T(x) = t, at'[x] = at[x], on'[x] = on[x],
              status = "expired" \/ ~(x # Worker /\ Engaged(x))
       PROVE  Stage(x)'
  <2>1. Stage(x)
    BY DEF IInv, StagesOK
  <2>2. AtWork(x)'
    BY <1>10, <2>1 DEF Stage, AtWork, T, taskVars
  <2>3. x = Worker => WorkerAtWork'
    BY <1>1, <1>10, <2>1 DEF Stage, WorkerAtWork, T, N, taskVars
  <2>4. ASSUME x # Worker PROVE HandlerAtWork(x)'
    <3>1. HandlerAtWork(x)
      BY <1>10, <2>1, <2>4 DEF Stage
    <3>2. at[x] \notin Starting /\ at[x] # "create" /\ ~(at[x] = "cancelTask" /\ N(x) > 0)
      BY <1>1, <1>10, <3>1 DEF HandlerAtWork, Carrying
    <3>3. at[x] \in Carrying => status = "expired"
      BY <1>10, <2>4 DEF Engaged
    <3> QED
      BY <1>1, <1>2, <1>10, <3>1, <3>2, <3>3 DEF HandlerAtWork, T, N, queueVars
  <2> QED
    BY <2>2, <2>3, <2>4 DEF Stage
<1> QED
  BY <1>6, <1>7, <1>8, <1>9, <1>10

\* A handler that carries an approval carries the last one, and it is decided.
LEMMA EngagedLast ==
    ASSUME IInv, NEW h \in Handlers, Engaged(h)
    PROVE  LET t == T(h) IN
           /\ N(h) = Len(approval[t]) /\ N(h) \in 1..Len(approval[t])
           /\ approval[t][N(h)] \in {"approved", "expired", "consumed"}
           /\ HandlerAtWork(h)
<1>1. at[h] # "idle" /\ h \in Threads /\ h # Worker
  BY Roles DEF Engaged, Carrying, Starting
<1>2. HandlerAtWork(h)
  BY <1>1, ThreadFacts DEF Stage
<1> QED
  BY <1>2 DEF HandlerAtWork, Engaged, Carrying, Starting

LEMMA ApprovalStep ==
    ASSUME IInv, NEW th \in Threads, at[th] # "idle", NEW t \in Tasks, t = T(th),
           NEW n \in 1..Len(approval[t]), approval[t][n] \in {"pending", "approved"},
           NEW status \in ApprovalStatuses, SetApproval(t, n, status), OnlyApproval,
           NEW pc \in PCs \ {"enqueue", "complete"}, Goto(th, pc),
           \A x \in Handlers \ {th} : T(x) = t => ~Engaged(x),
           pc # "idle" => Stage(th)'
    PROVE  IInv'
<1>1. ControlOK /\ ControlOK' /\ Moved(th, pc)
  BY ThreadFacts, GotoFacts
<1>2. TypeOK'
  BY <1>1, SetApprovalFacts
  DEF IInv, TypeOK, ControlOK, OnlyApproval, taskVars, queueVars, envVars, Work
<1>3. UNCHANGED <<taskVars, queueVars, faults>> /\ UNCHANGED envVars
  BY DEF OnlyApproval
<1>4. /\ TaskOK(t)' /\ ApprovalOK(t)' /\ Settled(t)'
      /\ \A u \in Tasks \ {t} : Same(u)
  BY <1>3, RequestMoves
<1>5. ASSUME NEW x \in Threads \ {th}, at[x] # "idle", T(x) = t PROVE Stage(x)'
  <2>1. at'[x] = at[x] /\ on'[x] = on[x] /\ ~(x # Worker /\ Engaged(x))
    BY <1>1, <1>5, Roles DEF Moved
  <2> QED
    BY <1>3, <1>5, <2>1, RequestMoves
<1>6. Stage(th)'
  BY <1>1 DEF Stage, Moved
<1>7. faults' >= faults
  BY <1>3, FaultsStay
<1>8. task' = task
  BY <1>3 DEF taskVars
<1> QED
  BY <1>1, <1>2, <1>3, <1>4, <1>5, <1>6, <1>7, <1>8, ThreadStep

LEMMA OnlyApprovalSame ==
    OnlyApproval /\ UNCHANGED approval =>
        UNCHANGED <<taskVars, queueVars, approval, envVars>> /\ UNCHANGED faults
BY DEF OnlyApproval

\* A decided request: nobody was engaged with it while it was pending.
LEMMA PendingIsFree ==
    ASSUME IInv, NEW t \in Tasks, NEW n \in 1..Len(approval[t]), approval[t][n] = "pending"
    PROVE  \A x \in Handlers : T(x) = t => ~Engaged(x)
<1> SUFFICES ASSUME NEW x \in Handlers, T(x) = t, Engaged(x) PROVE FALSE
  OBVIOUS
<1>1. n = Len(approval[t])
  BY LastOnly
<1> QED
  BY <1>1, EngagedLast

LEMMA ApproveKeeps ==
    ASSUME IInv, NEW h \in Handlers, Approve(h)
    PROVE  IInv'
<1>0. at[h] = "approve" /\ OnlyApproval /\ h \in Threads /\ h # Worker
  BY Roles DEF Approve
<1>1. PICK t \in Tasks : t = T(h)
  BY <1>0, ThreadFacts
<1>2. PICK n \in 1..Len(approval[t]) : n = N(h)
  BY <1>0, <1>1, ThreadFacts DEF Stage, HandlerAtWork
<1>3. CASE approval[t][n] = "pending"
  <2>1. SetApproval(t, n, "approved") /\ Goto(h, "register")
        /\ "register" \in PCs \ {"enqueue", "complete", "idle"}
    BY <1>1, <1>2, <1>3 DEF Approve, T, N, PCs
  <2>2. n = Len(approval[t])
    BY <1>3, LastOnly
  <2>3. /\ Len(approval'[t]) = Len(approval[t]) /\ approval'[t][n] = "approved"
    BY <2>1, SetApprovalFacts DEF IInv, ApprovalStatuses
  <2>4. at'[h] = "register" /\ on'[h] = on[h]
    BY <1>0, <2>1, ThreadFacts, GotoFacts DEF Moved
  <2>5. task[t] # Null
    BY <1>0, <1>1, ThreadFacts DEF AtWork
  <2>6. AtWork(h)'
    BY <1>0, <1>1, <2>4, <2>5 DEF AtWork, T, OnlyApproval, taskVars
  <2>7. HandlerAtWork(h)'
    BY <1>1, <1>2, <2>2, <2>3, <2>4
    DEF HandlerAtWork, T, N, Carrying, Starting, Requests
  <2> QED
    BY <1>0, <1>1, <1>3, <2>1, <2>6, <2>7, PendingIsFree, ApprovalStep
    DEF Stage, ApprovalStatuses
<1>4. CASE approval[t][n] # "pending"
  <2>1. UNCHANGED approval /\ Goto(h, "idle") /\ "idle" \in PCs
    BY <1>1, <1>2, <1>4 DEF Approve, T, N, PCs
  <2> QED
    BY <1>0, <2>1, OnlyApprovalSame, FaultsStay, ThreadOnly DEF Carrying, Starting
<1> QED
  BY <1>3, <1>4

LEMMA RejectKeeps ==
    ASSUME IInv, NEW h \in Handlers, Reject(h)
    PROVE  IInv'
<1>0. at[h] = "reject" /\ OnlyApproval /\ h \in Threads /\ h # Worker
  BY Roles DEF Reject
<1>1. PICK t \in Tasks : t = T(h)
  BY <1>0, ThreadFacts
<1>2. PICK n \in 1..Len(approval[t]) : n = N(h)
  BY <1>0, <1>1, ThreadFacts DEF Stage, HandlerAtWork
<1>3. CASE approval[t][n] = "pending"
  <2>1. SetApproval(t, n, "rejected") /\ Goto(h, "cancelTask")
        /\ "cancelTask" \in PCs \ {"enqueue", "complete", "idle"}
    BY <1>1, <1>2, <1>3 DEF Reject, T, N, PCs, Writes
  <2>2. n = Len(approval[t])
    BY <1>3, LastOnly
  <2>3. /\ Len(approval'[t]) = Len(approval[t]) /\ approval'[t][n] = "rejected"
    BY <2>1, SetApprovalFacts DEF IInv, ApprovalStatuses
  <2>4. at'[h] = "cancelTask" /\ on'[h] = on[h]
    BY <1>0, <2>1, ThreadFacts, GotoFacts DEF Moved
  <2>5. task[t] # Null
    BY <1>0, <1>1, ThreadFacts DEF AtWork
  <2>6. AtWork(h)'
    BY <1>0, <1>1, <2>4, <2>5 DEF AtWork, T, OnlyApproval, taskVars
  <2>7. HandlerAtWork(h)'
    BY <1>1, <1>2, <2>2, <2>3, <2>4
    DEF HandlerAtWork, T, N, Carrying, Starting, Requests
  <2> QED
    BY <1>0, <1>1, <1>3, <2>1, <2>6, <2>7, PendingIsFree, ApprovalStep
    DEF Stage, ApprovalStatuses
<1>4. CASE approval[t][n] # "pending"
  <2>1. UNCHANGED approval /\ Goto(h, "idle") /\ "idle" \in PCs
    BY <1>1, <1>2, <1>4 DEF Reject, T, N, PCs
  <2> QED
    BY <1>0, <2>1, OnlyApprovalSame, FaultsStay, ThreadOnly DEF Carrying, Starting
<1> QED
  BY <1>3, <1>4

LEMMA ConsumeApprovalKeeps ==
    ASSUME IInv, NEW th \in Threads, ConsumeApproval(th)
    PROVE  IInv'
<1>0. at[th] = "consume" /\ OnlyApproval
  BY DEF ConsumeApproval
<1>1. PICK t \in Tasks : t = T(th)
  BY <1>0, ThreadFacts
<1>2. th # Worker /\ th \in Handlers /\ HandlerAtWork(th) /\ Engaged(th)
  BY <1>0, ThreadFacts, Roles
  DEF Stage, WorkerAtWork, First, Starting, Engaged, Carrying
<1>3. PICK n \in 1..Len(approval[t]) :
          n = N(th) /\ n = Len(approval[t]) /\ approval[t][n] \in {"approved", "expired"}
  BY <1>0, <1>1, <1>2 DEF HandlerAtWork, Carrying
<1>4. task[t] # Null /\ TaskOK(t) /\ ApprovalOK(t)
  BY <1>0, <1>1, ThreadFacts DEF AtWork
<1>5. CASE approval[t][n] = "approved"
  <2>1. SetApproval(t, n, "consumed") /\ Goto(th, "check")
        /\ "check" \in PCs \ {"enqueue", "complete", "idle"}
    BY <1>1, <1>3, <1>5 DEF ConsumeApproval, T, N, PCs
  <2>2. \A x \in Handlers \ {th} : T(x) = t => ~Engaged(x)
    BY <1>1, <1>2 DEF IInv, Alone
  <2>3. /\ Len(approval'[t]) = Len(approval[t]) /\ approval'[t][n] = "consumed"
    BY <2>1, SetApprovalFacts DEF IInv, ApprovalStatuses
  <2>4. at'[th] = "check" /\ on'[th] = on[th]
    BY <1>0, <2>1, ThreadFacts, GotoFacts DEF Moved
  <2>5. ~Consented(t)
    BY <1>3, <1>5, LastOnly, <1>4 DEF Consented, ApprovalOK
  <2>6. task[t] # "running" /\ runs[t] = 0
    BY <1>4, <2>5 DEF TaskOK
  <2>7. AtWork(th)'
    BY <1>0, <1>1, <1>4, <2>4, <2>6 DEF AtWork, T, OnlyApproval, taskVars
  <2>8. HandlerAtWork(th)'
    BY <1>1, <1>3, <2>3, <2>4
    DEF HandlerAtWork, T, N, Carrying, Starting, Requests
  <2> QED
    BY <1>0, <1>1, <1>2, <1>5, <2>1, <2>2, <2>7, <2>8, ApprovalStep
    DEF Stage, ApprovalStatuses
<1>6. CASE approval[t][n] # "approved"
  <2>1. UNCHANGED approval /\ Goto(th, "find") /\ "find" \in PCs \ {"idle"}
    BY <1>1, <1>3, <1>6 DEF ConsumeApproval, T, N, PCs
  <2>2. UNCHANGED <<taskVars, queueVars, approval, envVars>> /\ UNCHANGED faults
    BY <1>0, <2>1, OnlyApprovalSame
  <2>3. /\ at'[th] = "find" /\ on'[th] = on[th] /\ T(th)' = T(th) /\ N(th)' = N(th)
        /\ Same(T(th))
    BY <1>0, <2>1, <2>2, OwnStage
  <2>4. AtWork(th)'
    BY <1>0, <1>1, <2>3, ThreadFacts DEF AtWork, Same
  <2>5. HandlerAtWork(th)'
    BY <1>0, <1>2, <2>3 DEF HandlerAtWork, Carrying, Starting, Requests, Same
  <2> QED
    BY <1>0, <1>2, <2>1, <2>2, <2>4, <2>5, FaultsStay, ThreadOnly DEF Stage
<1> QED
  BY <1>5, <1>6

LEMMA CreateApprovalKeeps ==
    ASSUME IInv, NEW th \in Threads, CreateApproval(th)
    PROVE  IInv'
<1>0. at[th] = "create" /\ OnlyApproval
  BY DEF CreateApproval
<1>1. PICK t \in Tasks : t = T(th)
  BY <1>0, ThreadFacts
<1> DEFINE m == Len(approval[t])
<1>2. /\ m < MaxApprovals /\ approval' = [approval EXCEPT ![t] = Append(@, "pending")]
      /\ Goto(th, AfterRequest(th))
  BY <1>1 DEF CreateApproval, T
<1>3. /\ m \in Nat /\ Len(approval'[t]) = m + 1 /\ approval'[t] # <<>>
      /\ \A k \in 1..m : approval'[t][k] = approval[t][k]
      /\ approval'[t][m + 1] = "pending"
      /\ \A u \in Tasks \ {t} : approval'[u] = approval[u]
  BY <1>2, AddApprovalFacts DEF IInv
<1>4. approval[t] = <<>> => m = 0
  OBVIOUS
<1>5. AtWork(th) /\ TaskOK(t) /\ ApprovalOK(t) /\ Settled(t) /\ task[t] # Null
  BY <1>0, <1>1, ThreadFacts DEF AtWork
<1>6. th = Worker => /\ WorkerAtWork /\ approval[t] = <<>> /\ N(th) = 0
                     /\ decision[t] = "require_approval" /\ task[t] # "pending"
                     /\ task[t] # "running" /\ runs[t] = 0
  BY <1>0, <1>1, ThreadFacts DEF Stage, WorkerAtWork, First
<1>7. th # Worker => /\ HandlerAtWork(th) /\ th \in Handlers /\ Engaged(th)
                     /\ N(th) = m /\ m > 0 /\ approval[t][m] = "expired"
                     /\ approval[t] # <<>>
  BY <1>0, <1>1, <1>3, <1>4, Roles, ThreadFacts
  DEF Stage, HandlerAtWork, Carrying, Engaged
<1>8. task[t] # "running" /\ runs[t] = 0
  <2>1. CASE th # Worker
    BY <1>5, <1>7, <2>1 DEF TaskOK, ApprovalOK, Consented, LastApproval
  <2> QED
    BY <1>6, <2>1
<1>9. \A k \in 1..m : approval[t][k] \in {"rejected", "expired"}
  <2> SUFFICES ASSUME NEW k \in 1..m PROVE approval[t][k] \in {"rejected", "expired"}
    OBVIOUS
  <2>1. th # Worker
    BY <1>3, <1>4, <1>6
  <2>2. CASE k = m
    BY <1>7, <2>1, <2>2
  <2>3. CASE k # m
    BY <1>3, <1>5, <2>3 DEF ApprovalOK
  <2> QED
    BY <2>2, <2>3
<1>10. decision[t] = "require_approval" /\ task[t] # "pending"
  BY <1>5, <1>6, <1>7 DEF ApprovalOK
<1> HIDE DEF m
<1>11. UNCHANGED <<taskVars, queueVars, faults>> /\ UNCHANGED envVars
  BY <1>0 DEF OnlyApproval
<1>12. ApprovalOK(t)'
  <2>1. \A k \in 1..(Len(approval'[t]) - 1) : approval'[t][k] \in {"rejected", "expired"}
    BY <1>3, <1>9
  <2> QED
    BY <1>5, <1>10, <1>11, <2>1 DEF ApprovalOK, taskVars
<1>13. TaskOK(t)' /\ Settled(t)'
  BY <1>5, <1>8, <1>11 DEF TaskOK, Settled, taskVars, queueVars
<1>14. \A u \in Tasks \ {t} : Same(u)
  BY <1>3, <1>11 DEF Same, taskVars, queueVars
<1>15. /\ AfterRequest(th) \in PCs \ {"idle", "enqueue"}
       /\ th = Worker => AfterRequest(th) = "complete"
       /\ th # Worker => AfterRequest(th) = "require"
  BY <1>6, <1>7 DEF AfterRequest, Return, N, PCs, Writes
<1>16. ControlOK /\ ControlOK' /\ Moved(th, AfterRequest(th))
  BY <1>0, <1>2, <1>15, ThreadFacts, GotoFacts
<1>17. TypeOK'
  BY <1>2, <1>11, <1>16, AddApprovalFacts
  DEF IInv, TypeOK, ControlOK, taskVars, queueVars, envVars, Work, m
<1>18. Stage(th)'
  <2>1. AtWork(th)'
    BY <1>5, <1>11, <1>15, <1>16 DEF AtWork, Moved, T, taskVars
  <2>2. th = Worker => WorkerAtWork'
    BY <1>6, <1>15, <1>16 DEF WorkerAtWork, Moved, T, N, First, Starting
  <2>3. th # Worker => HandlerAtWork(th)'
    BY <1>1, <1>3, <1>7, <1>15, <1>16
    DEF HandlerAtWork, Moved, T, N, Carrying, Starting, Requests
  <2> QED
    BY <2>1, <2>2, <2>3 DEF Stage
<1>19. ASSUME NEW x \in Threads \ {th}, at[x] # "idle", T(x) = t PROVE Stage(x)'
  <2>1. at'[x] = at[x] /\ on'[x] = on[x] /\ Stage(x)
    BY <1>16, <1>19 DEF Moved, IInv, StagesOK
  <2>2. AtWork(x)'
    BY <1>11, <1>19, <2>1 DEF Stage, AtWork, T, taskVars
  <2>3. x = Worker => WorkerAtWork'
    BY <1>7, <1>11, <1>19, <2>1 DEF Stage, WorkerAtWork, T, N, taskVars
  <2>4. ASSUME x # Worker PROVE HandlerAtWork(x)'
    <3>1. HandlerAtWork(x) /\ x \in Handlers
      BY <1>19, <2>1, <2>4, Roles DEF Stage
    <3>2. ~Engaged(x)
      <4>1. CASE th = Worker
        BY <1>3, <1>4, <1>6, <1>19, <3>1, <4>1, EngagedLast DEF m
      <4>2. CASE th # Worker
        BY <1>1, <1>7, <1>19, <3>1, <4>2 DEF IInv, Alone
      <4> QED
        BY <4>1, <4>2
    <3>3. ~(at[x] = "cancelTask" /\ N(x) > 0)
      BY <1>3, <1>4, <1>6, <1>7, <1>19, <3>1 DEF HandlerAtWork, m
    <3>4. at[x] \notin Carrying \cup Starting
      BY <3>2 DEF Engaged
    <3>5. N(x) \in 1..Len(approval[t]) => N(x) \in 1..Len(approval'[t])
      BY <1>3 DEF m
    <3>6. T(x)' = t /\ N(x)' = N(x) /\ at'[x] = at[x] /\ job' = job
      BY <1>11, <1>19, <2>1 DEF T, N, queueVars
    <3> QED
      BY <1>19, <3>1, <3>3, <3>4, <3>5, <3>6 DEF HandlerAtWork, Carrying
  <2> QED
    BY <2>2, <2>3, <2>4 DEF Stage
<1>20. task' = task /\ faults' >= faults
  BY <1>11, FaultsStay DEF taskVars
<1> QED
  BY <1>0, <1>1, <1>10, <1>11, <1>12, <1>13, <1>14, <1>15, <1>16, <1>17, <1>18, <1>19,
     <1>20, ThreadStep DEF Carrying, Starting

LEMMA RunExecutorKeeps ==
    ASSUME IInv, NEW th \in Threads, RunExecutor(th)
    PROVE  IInv'
<1>0. at[th] = "execute" /\ at[th] # "idle" /\ at[th] \in Starting
  BY DEF RunExecutor, Starting
<1>1. PICK t \in Tasks : t = T(th)
  BY <1>0, ThreadFacts
<1>2. PICK pc \in {"succeed", "abort"} : Goto(th, pc)
  BY DEF RunExecutor
<1>3. UNCHANGED <<task, decision, queueVars, approval, envVars, faults>>
  BY DEF RunExecutor
<1>4. /\ runs' \in [Tasks -> Nat] /\ runs'[t] = runs[t] + 1
      /\ \A u \in Tasks \ {t} : runs'[u] = runs[u]
  BY <1>1 DEF RunExecutor, T, IInv, TypeOK
<1>5. AtWork(th) /\ TaskOK(t) /\ ApprovalOK(t) /\ Settled(t) /\ task[t] \in Started
      /\ runs[t] = 0 /\ task[t] # Null
  BY <1>0, <1>1, ThreadFacts DEF AtWork
<1>6. pc \in PCs \ {"idle", "enqueue", "complete"}
  BY DEF PCs, Writes
<1>7. ControlOK /\ ControlOK' /\ Moved(th, pc)
  BY <1>0, <1>2, <1>6, ThreadFacts, GotoFacts
<1>8. TypeOK'
  BY <1>3, <1>4, <1>7
  DEF IInv, TypeOK, ControlOK, queueVars, envVars, Approvals, Statuses, Work
<1>9. Consented(t)
  <2>1. th = Worker => decision[t] = "allow"
    BY <1>0, <1>1, ThreadFacts DEF Stage, WorkerAtWork
  <2>2. th # Worker => Len(approval[t]) # 0 /\ LastApproval(t) = "consumed"
    BY <1>0, <1>1, ThreadFacts DEF Stage, HandlerAtWork, LastApproval
  <2> QED
    BY <1>5, <2>1, <2>2 DEF Consented, ApprovalOK
<1>10. TaskOK(t)' /\ ApprovalOK(t)' /\ Settled(t)'
  BY <1>3, <1>4, <1>5, <1>9
  DEF TaskOK, ApprovalOK, Settled, Consented, LastApproval, queueVars
<1>11. \A u \in Tasks \ {t} : Same(u)
  BY <1>3, <1>4 DEF Same, queueVars
<1>12. AtWork(th)'
  BY <1>1, <1>3, <1>4, <1>5, <1>7 DEF AtWork, Moved, T
<1>13. Stage(th)'
  BY <1>0, <1>1, <1>3, <1>6, <1>7, <1>12, StartingStage DEF Moved, Starting, queueVars
<1>14. ASSUME NEW x \in Threads \ {th}, at[x] # "idle", T(x) = t PROVE Stage(x)'
  <2>1. at'[x] = at[x] /\ on'[x] = on[x] /\ Stage(x)
    BY <1>7, <1>14 DEF Moved, IInv, StagesOK
  <2>2. at[x] \notin Starting /\ (x = Worker => at[x] \notin First)
    BY <1>0, <1>1, <1>14, SoleStarter
  <2>3. AtWork(x)'
    BY <1>3, <1>14, <2>1, <2>2 DEF Stage, AtWork, T, Starting
  <2>4. x = Worker => WorkerAtWork'
    BY <1>3, <1>14, <2>1, <2>2 DEF Stage, WorkerAtWork, T, N
  <2>5. x # Worker => HandlerAtWork(x)'
    BY <1>3, <1>14, <2>1 DEF Stage, HandlerAtWork, T, N, queueVars
  <2> QED
    BY <2>3, <2>4, <2>5 DEF Stage
<1>15. UNCHANGED envVars /\ faults' >= faults
  BY <1>3, FaultsStay
<1> QED
  BY <1>0, <1>1, <1>3, <1>6, <1>7, <1>8, <1>10, <1>11, <1>13, <1>14, <1>15, ThreadStep
  DEF Engaged

-----------------------------------------------------------------------------
(* Steps that put a thread to work *)

LEMMA BeginFacts ==
    ASSUME IInv, NEW th \in Threads, NEW t \in Tasks, NEW n \in 0..MaxApprovals,
           NEW pc \in PCs \ {"idle"}, Begin(th, pc, t, n)
    PROVE  /\ ControlOK' /\ mode = "up" /\ kept = Null /\ at[th] = "idle"
           /\ at'[th] = pc /\ T(th)' = t /\ N(th)' = n
           /\ \A x \in Threads \ {th} : at'[x] = at[x] /\ on'[x] = on[x]
<1>1. [task |-> t, approval |-> n] \in Work
  BY DEF Work
<1>2. /\ at \in [Threads -> PCs] /\ on \in [Threads -> Work \cup {Null}]
      /\ \A x \in Threads : on[x] \in IF at[x] = "idle" THEN {Null} ELSE Work
  BY DEF IInv, TypeOK
<1>3. /\ at' = [at EXCEPT ![th] = pc] /\ mode = "up" /\ at[th] = "idle"
      /\ on' = [on EXCEPT ![th] = [task |-> t, approval |-> n]]
  BY DEF Begin
<1>4. /\ at'[th] = pc /\ on'[th] = [task |-> t, approval |-> n]
      /\ \A x \in Threads \ {th} : at'[x] = at[x] /\ on'[x] = on[x]
      /\ at' \in [Threads -> PCs] /\ on' \in [Threads -> Work \cup {Null}]
  BY <1>1, <1>2, <1>3
<1>5. ControlOK'
  BY <1>1, <1>2, <1>4 DEF ControlOK
<1>6. kept = Null
  BY <1>3 DEF IInv, TypeOK
<1> QED
  BY <1>3, <1>4, <1>5, <1>6 DEF T, N

\* A thread that starts its work with a call that is neither engaged nor final.
LEMMA BeginStep ==
    ASSUME IInv, NEW th \in Threads, NEW t \in Tasks, NEW n \in 0..MaxApprovals,
           NEW pc \in PCs \ ({"idle", "complete"} \cup Carrying \cup Starting),
           Begin(th, pc, t, n), TypeOK', UNCHANGED <<envVars, approval, faults>>,
           TasksOK',
           \A x \in Threads \ {th} : at[x] # "idle" => Stage(x)',
           Stage(th)',
           pc = "enqueue" => \A h \in Handlers : at[h] # "idle" => T(h) # t,
           at[Worker] = "complete" => task'[T(Worker)] = task[T(Worker)]
    PROVE  IInv'
<1>1. /\ mode = "up" /\ kept = Null /\ at[th] = "idle"
      /\ at'[th] = pc /\ T(th)' = t /\ N(th)' = n
      /\ \A x \in Threads \ {th} : at'[x] = at[x] /\ on'[x] = on[x]
  BY BeginFacts
<1>2. StagesOK'
  <2> SUFFICES ASSUME NEW x \in Threads, x # th, at'[x] # "idle" PROVE Stage(x)'
    BY DEF StagesOK, Stage
  <2> QED
    BY <1>1
<1>3. Alone'
  <2> SUFFICES ASSUME NEW h1 \in Handlers, NEW h2 \in Handlers, T(h1)' = T(h2)',
                      ((Engaged(h1) /\ Engaged(h2)) \/ (at[h1] = "enqueue" /\ at[h2] = "enqueue"))'
               PROVE  h1 = h2
    BY DEF Alone
  <2>1. h1 \in Threads /\ h2 \in Threads
    BY Roles
  <2>2. CASE Engaged(h1)' /\ Engaged(h2)'
    <3>1. h1 # th /\ h2 # th
      BY <1>1, <2>2 DEF Engaged
    <3>2. Engaged(h1) /\ Engaged(h2) /\ T(h1) = T(h2)
      BY <1>1, <2>1, <2>2, <3>1 DEF Engaged, T
    <3> QED
      BY <3>2 DEF IInv, Alone
  <2>3. CASE at'[h1] = "enqueue" /\ at'[h2] = "enqueue"
    <3>1. CASE h1 # th /\ h2 # th
      <4>1. at[h1] = "enqueue" /\ at[h2] = "enqueue" /\ T(h1) = T(h2)
        BY <1>1, <2>1, <2>3, <3>1 DEF T
      <4> QED
        BY <4>1 DEF IInv, Alone
    <3>2. ASSUME NEW x \in Handlers, x # th, at'[x] = "enqueue", pc = "enqueue"
          PROVE  T(x)' # t
      <4>1. at[x] # "idle" /\ T(x)' = T(x)
        BY <1>1, <3>2, Roles DEF T
      <4> QED
        BY <3>2, <4>1
    <3>3. CASE h1 = th /\ h2 # th
      BY <1>1, <2>3, <3>2, <3>3
    <3>4. CASE h1 # th /\ h2 = th
      BY <1>1, <2>3, <3>2, <3>4
    <3> QED
      BY <3>1, <3>3, <3>4
  <2> QED
    BY <2>2, <2>3
<1>4. WorkerSettles'
  <2> SUFFICES ASSUME at'[Worker] = "complete" PROVE (task[T(Worker)] # "pending" \/ faults > 0)'
    BY DEF WorkerSettles
  <2>1. at[Worker] = "complete" /\ T(Worker)' = T(Worker)
    BY <1>1, Roles DEF T
  <2> QED
    BY <2>1 DEF IInv, WorkerSettles
<1>5. ModeOK'
  BY <1>1 DEF ModeOK, envVars
<1> QED
  BY <1>2, <1>3, <1>4, <1>5 DEF IInv

LEMMA BeginOnly ==
    ASSUME IInv, NEW th \in Threads, NEW t \in Tasks, NEW n \in 0..MaxApprovals,
           NEW pc \in PCs \ ({"idle", "complete", "enqueue"} \cup Carrying \cup Starting),
           Begin(th, pc, t, n), OnlyThread, Stage(th)'
    PROVE  IInv'
<1>1. /\ ControlOK' /\ \A x \in Threads \ {th} : at'[x] = at[x] /\ on'[x] = on[x]
  BY BeginFacts
<1>2. UNCHANGED <<taskVars, queueVars, approval, envVars>> /\ UNCHANGED faults
  BY DEF OnlyThread
<1>3. TypeOK'
  BY <1>1, <1>2, SameTypes, FaultsStay DEF IInv
<1>4. \A u \in Tasks : Same(u)
  BY <1>2 DEF Same, taskVars, queueVars
<1>5. TasksOK'
  <2> SUFFICES ASSUME NEW u \in Tasks PROVE TaskOK(u)' /\ ApprovalOK(u)' /\ Settled(u)'
    BY DEF TasksOK
  <2> QED
    BY <1>2, <1>4, SameTask, RuntimeAssumption DEF IInv, TypeOK, TasksOK
<1>6. \A x \in Threads \ {th} : at[x] # "idle" => Stage(x)'
  BY <1>1, <1>4, SameStage, ThreadFacts
<1> QED
  BY <1>2, <1>3, <1>5, <1>6, BeginStep DEF taskVars

LEMMA BeginPendingKeeps ==
    ASSUME IInv, NEW h \in Handlers, NEW t \in Tasks, BeginPending(h, t)
    PROVE  IInv'
<1>1. PICK pc \in {"cancelRead", "retryRead"} : Begin(h, pc, t, 0)
  BY DEF BeginPending
<1>2. pc \in PCs \ ({"idle", "complete", "enqueue"} \cup Carrying \cup Starting)
  BY DEF PCs, Writes, Carrying, Starting
<1>3. h \in Threads /\ h # Worker /\ OnlyThread /\ task[t] = "pending" /\ 0 \in 0..MaxApprovals
  BY Roles, RuntimeAssumption DEF BeginPending
<1>4. at'[h] = pc /\ T(h)' = t /\ N(h)' = 0
  BY <1>1, <1>2, <1>3, BeginFacts
<1>5. AtWork(h)'
  BY <1>3, <1>4, RuntimeAssumption DEF AtWork, OnlyThread, taskVars
<1>6. HandlerAtWork(h)'
  BY <1>4 DEF HandlerAtWork, Carrying, Starting, Requests
<1> QED
  BY <1>1, <1>2, <1>3, <1>5, <1>6, BeginOnly DEF Stage

LEMMA BeginDecisionKeeps ==
    ASSUME IInv, NEW h \in Handlers, NEW t \in Tasks, NEW n \in 1..MaxApprovals,
           BeginDecision(h, t, n)
    PROVE  IInv'
<1>1. PICK pc \in {"approve", "reject"} : Begin(h, pc, t, n)
  BY DEF BeginDecision
<1>2. pc \in PCs \ ({"idle", "complete", "enqueue"} \cup Carrying \cup Starting)
  BY DEF PCs, Writes, Carrying, Starting
<1>3. h \in Threads /\ h # Worker /\ OnlyThread /\ Open(t) /\ n \in 0..MaxApprovals
  BY Roles DEF BeginDecision
<1>4. n \in 1..Len(approval[t])
  BY DEF BeginDecision, IInv, TypeOK, Approvals
<1>5. at'[h] = pc /\ T(h)' = t /\ N(h)' = n
  BY <1>1, <1>2, <1>3, BeginFacts
<1>6. AtWork(h)'
  BY <1>3, <1>5, RuntimeAssumption DEF AtWork, OnlyThread, taskVars, Open
<1>7. HandlerAtWork(h)'
  BY <1>3, <1>4, <1>5 DEF HandlerAtWork, Carrying, Starting, Requests, OnlyThread
<1> QED
  BY <1>1, <1>2, <1>3, <1>6, <1>7, BeginOnly DEF Stage

LEMMA RegisterKeeps ==
    ASSUME IInv, NEW h \in Handlers, NEW t \in Tasks, Register(h, t)
    PROVE  IInv'
<1>0. /\ h \in Threads /\ h # Worker /\ Begin(h, "enqueue", t, 0) /\ 0 \in 0..MaxApprovals
      /\ task[t] = Null /\ SetTask(t, "pending")
      /\ "enqueue" \in PCs \ ({"idle", "complete"} \cup Carrying \cup Starting)
  BY Roles, RuntimeAssumption DEF Register, PCs, Writes, Carrying, Starting
<1>1. PICK d \in Decisions : decision' = [decision EXCEPT ![t] = d]
  BY DEF Register
<1>2. UNCHANGED <<runs, queueVars, approval, envVars, faults>>
  BY DEF Register
<1>3. /\ ControlOK' /\ at'[h] = "enqueue" /\ T(h)' = t /\ N(h)' = 0
      /\ \A x \in Threads \ {h} : at'[x] = at[x] /\ on'[x] = on[x]
  BY <1>0, BeginFacts
<1>4. /\ task' \in Statuses /\ task'[t] = "pending" /\ decision'[t] = d
      /\ decision' \in [Tasks -> Decisions \cup {Null}]
      /\ \A u \in Tasks \ {t} : task'[u] = task[u] /\ decision'[u] = decision[u]
  BY <1>0, <1>1 DEF SetTask, IInv, TypeOK, Statuses, Allowed
<1>5. TypeOK'
  BY <1>2, <1>3, <1>4 DEF IInv, TypeOK, ControlOK, queueVars, envVars, Approvals, Work
<1>6. \A u \in Tasks \ {t} : Same(u)
  BY <1>2, <1>4 DEF Same, queueVars
<1>7. TaskOK(t) /\ ApprovalOK(t) /\ Settled(t)
  BY DEF IInv, TasksOK
<1>8. approval[t] = <<>> /\ job[t] = "absent" /\ runs[t] = 0
  BY <1>0, <1>7, RuntimeAssumption DEF TaskOK, ApprovalOK, Started, Terminal
<1>9. TaskOK(t)' /\ ApprovalOK(t)' /\ Settled(t)'
  BY <1>2, <1>4, <1>8, RuntimeAssumption DEF TaskOK, ApprovalOK, Settled, queueVars
<1>10. TasksOK'
  <2> SUFFICES ASSUME NEW u \in Tasks, u # t
               PROVE  TaskOK(u)' /\ ApprovalOK(u)' /\ Settled(u)'
    BY <1>9 DEF TasksOK
  <2> QED
    BY <1>2, <1>6, SameTask, RuntimeAssumption DEF IInv, TypeOK, TasksOK
<1>11. \A x \in Threads : at[x] # "idle" => T(x) \in Tasks \ {t}
  BY <1>0, ThreadFacts DEF AtWork
<1>12. \A x \in Threads \ {h} : at[x] # "idle" => Stage(x)'
  BY <1>3, <1>6, <1>11, SameStage, ThreadFacts
<1>13. Stage(h)'
  BY <1>0, <1>2, <1>3, <1>4, <1>8, RuntimeAssumption
  DEF Stage, AtWork, HandlerAtWork, Carrying, Starting, Requests, queueVars
<1>14. at[Worker] = "complete" => task'[T(Worker)] = task[T(Worker)]
  BY <1>4, <1>11, Roles
<1> QED
  BY <1>0, <1>2, <1>5, <1>10, <1>11, <1>12, <1>13, <1>14, BeginStep, Roles

\* The jobs a sweep leaves behind are not completed and not new.
LEMMA PollKeeps == IInv /\ Poll => IInv'
<1> SUFFICES ASSUME IInv, Poll PROVE IInv'
  OBVIOUS
<1>0. /\ mode = "up" /\ at[Worker] = "idle" /\ Worker \in Threads
      /\ UNCHANGED <<task, decision, runs, ours, approval, envVars, faults>>
  BY Roles DEF Poll, OnlyQueue, taskVars
<1>1. PICK expired \in SUBSET Expirable :
       LET spent == {t \in expired : left[t] = 0}
           due   == {t \in Tasks : job[t] = "waiting"} \cup (expired \ spent)
           Sweep(t) == IF t \in spent THEN "failed" ELSE job[t]
       IN  \/ /\ due = {} /\ spent # {}
              /\ job' = [t \in Tasks |-> Sweep(t)]
              /\ UNCHANGED <<left, at, on>>
           \/ \E t \in due :
              /\ job' = [k \in Tasks |-> IF k = t THEN "delivered" ELSE Sweep(k)]
              /\ left' = [left EXCEPT ![t] = @ - 1]
              /\ Begin(Worker, "inspect", t, 0)
  BY DEF Poll
<1> DEFINE spent == {t \in expired : left[t] = 0}
           due == {t \in Tasks : job[t] = "waiting"} \cup (expired \ spent)
           Sweep(t) == IF t \in spent THEN "failed" ELSE job[t]
<1>2. \A u \in expired : u \in Tasks /\ job[u] = "delivered"
  BY DEF Expirable
<1>3. \A u \in Tasks : /\ Sweep(u) = job[u] \/ (job[u] = "delivered" /\ Sweep(u) = "failed")
                       /\ Sweep(u) \in Phases
  <2> SUFFICES ASSUME NEW u \in Tasks
               PROVE  /\ Sweep(u) = job[u] \/ (job[u] = "delivered" /\ Sweep(u) = "failed")
                      /\ Sweep(u) \in Phases
    OBVIOUS
  <2>1. job[u] \in Phases
    BY DEF IInv, TypeOK, Phases
  <2>2. CASE u \in spent
    BY <1>2, <2>2 DEF Phases
  <2>3. CASE u \notin spent
    BY <2>1, <2>3
  <2> QED
    BY <2>2, <2>3
<1>4. \A t \in due : /\ t \in Tasks /\ job[t] \in {"waiting", "delivered"}
                     /\ left[t] \in 1..MaxAttempts
  <2> SUFFICES ASSUME NEW t \in due
               PROVE  /\ t \in Tasks /\ job[t] \in {"waiting", "delivered"}
                      /\ left[t] \in 1..MaxAttempts
    OBVIOUS
  <2>0. t \in Tasks /\ job[t] \in {"waiting", "delivered"}
    BY <1>2
  <2>1. left[t] \in 0..MaxAttempts
    BY <2>0 DEF IInv, TypeOK
  <2>2. left[t] # 0
    <3>1. CASE job[t] = "waiting"
      BY <2>0, <2>1, <3>1 DEF IInv, TasksOK, TaskOK
    <3>2. CASE t \in expired \ spent
      BY <3>2
    <3> QED
      BY <3>1, <3>2
  <2> QED
    BY <2>0, <2>1, <2>2, RuntimeAssumption
<1> HIDE DEF spent, due, Sweep
<1>5. ASSUME NEW u \in Tasks, job'[u] \in Phases, left'[u] = left[u] \/ job'[u] # "waiting",
             \/ job'[u] = job[u]
             \/ job[u] \in {"waiting", "delivered"} /\ job'[u] \in {"delivered", "failed"}
      PROVE  TaskOK(u)' /\ ApprovalOK(u)' /\ Settled(u)'
  BY <1>0, <1>5 DEF IInv, TasksOK, TaskOK, ApprovalOK, Settled, Consented, LastApproval
<1>6. ASSUME NEW x \in Threads \ {Worker}, at[x] # "idle", at'[x] = at[x], on'[x] = on[x],
             job[T(x)] # "absent" \/ job'[T(x)] = job[T(x)]
      PROVE  Stage(x)'
  <2>1. Stage(x)
    BY DEF IInv, StagesOK
  <2> QED
    BY <1>0, <1>6, <2>1 DEF Stage, AtWork, HandlerAtWork, T, N
<1>7. CASE /\ job' = [t \in Tasks |-> Sweep(t)]
           /\ UNCHANGED <<left, at, on>>
  <2>1. \A u \in Tasks : job'[u] = Sweep(u)
    BY <1>7
  <2>2. TypeOK'
    <3>1. job' \in [Tasks -> Phases]
      BY <1>3, <1>7
    <3> QED
      BY <1>0, <1>7, <3>1 DEF IInv, TypeOK, envVars, Phases, Approvals, Statuses, Work
  <2>3. TasksOK'
    <3> SUFFICES ASSUME NEW u \in Tasks PROVE TaskOK(u)' /\ ApprovalOK(u)' /\ Settled(u)'
      BY DEF TasksOK
    <3>1. /\ job'[u] \in Phases /\ left'[u] = left[u]
          /\ \/ job'[u] = job[u]
             \/ job[u] \in {"waiting", "delivered"} /\ job'[u] \in {"delivered", "failed"}
      BY <1>3, <1>7, <2>1
    <3> QED
      BY <1>5, <3>1
  <2>4. StagesOK'
    <3> SUFFICES ASSUME NEW x \in Threads, at'[x] # "idle" PROVE Stage(x)'
      BY DEF StagesOK, Stage
    <3>1. at[x] # "idle" /\ x # Worker /\ at'[x] = at[x] /\ on'[x] = on[x]
      BY <1>0, <1>7
    <3>2. T(x) \in Tasks
      BY <3>1, ThreadFacts
    <3> QED
      BY <1>3, <1>6, <2>1, <3>1, <3>2
  <2>5. Alone'
    BY <1>7 DEF IInv, Alone, Engaged, T
  <2>6. WorkerSettles' /\ ModeOK'
    BY <1>0, <1>7 DEF WorkerSettles, IInv, ModeOK, envVars
  <2> QED
    BY <2>2, <2>3, <2>4, <2>5, <2>6 DEF IInv
<1>8. ASSUME NEW t \in due,
             job' = [k \in Tasks |-> IF k = t THEN "delivered" ELSE Sweep(k)],
             left' = [left EXCEPT ![t] = @ - 1],
             Begin(Worker, "inspect", t, 0)
      PROVE  IInv'
  <2>0. 0 \in 0..MaxApprovals /\ t \in Tasks /\ job[t] \in {"waiting", "delivered"}
        /\ "inspect" \in PCs \ ({"idle", "complete", "enqueue"} \cup Carrying \cup Starting)
    BY <1>4, RuntimeAssumption DEF PCs, Writes, Carrying, Starting
  <2>1. /\ ControlOK' /\ at'[Worker] = "inspect" /\ T(Worker)' = t /\ N(Worker)' = 0
        /\ \A x \in Threads \ {Worker} : at'[x] = at[x] /\ on'[x] = on[x]
    BY <1>0, <1>8, <2>0, BeginFacts
  <2>2. /\ job'[t] = "delivered" /\ \A u \in Tasks \ {t} : job'[u] = Sweep(u)
        /\ job' \in [Tasks -> Phases]
    BY <1>3, <1>8, <2>0 DEF Phases
  <2>3. left' \in [Tasks -> 0..MaxAttempts] /\ \A u \in Tasks \ {t} : left'[u] = left[u]
    <3>1. left[t] - 1 \in 0..MaxAttempts
      BY <1>4, RuntimeAssumption
    <3>2. left \in [Tasks -> 0..MaxAttempts]
      BY DEF IInv, TypeOK
    <3> QED
      BY <1>8, <2>0, <3>1, <3>2
  <2>4. TypeOK'
    BY <1>0, <2>1, <2>2, <2>3
    DEF IInv, TypeOK, ControlOK, envVars, Phases, Approvals, Statuses, Work
  <2>5. TasksOK'
    <3> SUFFICES ASSUME NEW u \in Tasks PROVE TaskOK(u)' /\ ApprovalOK(u)' /\ Settled(u)'
      BY DEF TasksOK
    <3>1. /\ job'[u] \in Phases /\ (left'[u] = left[u] \/ job'[u] # "waiting")
          /\ \/ job'[u] = job[u]
             \/ job[u] \in {"waiting", "delivered"} /\ job'[u] \in {"delivered", "failed"}
      BY <1>3, <2>0, <2>2, <2>3 DEF Phases
    <3> QED
      BY <1>5, <3>1
  <2>6. ASSUME NEW x \in Threads \ {Worker}, at[x] # "idle" PROVE Stage(x)'
    <3>1. T(x) \in Tasks
      BY <2>6, ThreadFacts
    <3>2. job[T(x)] # "absent" \/ job'[T(x)] = job[T(x)]
      BY <1>3, <2>0, <2>2, <3>1
    <3> QED
      BY <1>6, <2>1, <2>6, <3>2
  <2>7. Stage(Worker)'
    <3>1. task[t] # Null
      BY <2>0 DEF IInv, TasksOK, TaskOK
    <3> QED
      BY <1>0, <2>0, <2>1, <3>1 DEF Stage, AtWork, WorkerAtWork, First, Starting
  <2> QED
    BY <1>0, <1>8, <2>0, <2>4, <2>5, <2>6, <2>7, BeginStep
<1> QED
  BY <1>1, <1>7, <1>8 DEF spent, due, Sweep

-----------------------------------------------------------------------------
(* Steps of the process and of time: every thread is idle, or is left so *)

LEMMA ExpireKeeps ==
    ASSUME IInv, NEW t \in Tasks, NEW n \in DOMAIN approval[t], Expire(t, n)
    PROVE  IInv'
<1>0. /\ n \in 1..Len(approval[t]) /\ approval[t][n] \in {"pending", "approved"}
      /\ SetApproval(t, n, "expired") /\ "expired" \in ApprovalStatuses
      /\ UNCHANGED <<taskVars, queueVars, faults>> /\ UNCHANGED <<at, on, envVars>>
      /\ mode \in {"up", "booting"}
  BY DEF Expire, IInv, TypeOK, Approvals, ApprovalStatuses
<1>1. TypeOK'
  BY <1>0, SetApprovalFacts DEF IInv, TypeOK, taskVars, queueVars, envVars, Work
<1>2. /\ TaskOK(t)' /\ ApprovalOK(t)' /\ Settled(t)'
      /\ \A u \in Tasks \ {t} : Same(u)
      /\ \A x \in Threads : at[x] # "idle" /\ T(x) = t => Stage(x)'
  BY <1>0, RequestMoves
<1>3. TasksOK'
  <2> SUFFICES ASSUME NEW u \in Tasks, u # t
               PROVE  TaskOK(u)' /\ ApprovalOK(u)' /\ Settled(u)'
    BY <1>2 DEF TasksOK
  <2> QED
    BY <1>0, <1>2, SameTask, RuntimeAssumption DEF IInv, TypeOK, TasksOK
<1>4. StagesOK'
  <2> SUFFICES ASSUME NEW x \in Threads, at[x] # "idle", T(x) # t PROVE Stage(x)'
    BY <1>0, <1>2 DEF StagesOK, Stage
  <2> QED
    BY <1>0, <1>2, SameStage, ThreadFacts
<1>5. Alone' /\ WorkerSettles'
  BY <1>0 DEF IInv, Alone, WorkerSettles, Engaged, T, taskVars
<1>6. ModeOK'
  <2>1. kept = Null
    BY <1>0 DEF IInv, TypeOK
  <2> QED
    BY <1>0, <2>1 DEF IInv, ModeOK, Agreed, envVars, taskVars, queueVars
<1> QED
  BY <1>1, <1>3, <1>4, <1>5, <1>6 DEF IInv

\* Steps of the process after which no thread works.
LEMMA NobodyWorks ==
    (\A th \in Threads : at[th] = "idle") => StagesOK /\ Alone /\ WorkerSettles
BY Roles DEF StagesOK, Stage, Alone, Engaged, Carrying, Starting, WorkerSettles

LEMMA SameTasks ==
    ASSUME IInv, UNCHANGED <<taskVars, queueVars, approval, faults>>
    PROVE  TasksOK'
<1> SUFFICES ASSUME NEW u \in Tasks PROVE TaskOK(u)' /\ ApprovalOK(u)' /\ Settled(u)'
  BY DEF TasksOK
<1> QED
  BY SameTask, RuntimeAssumption DEF IInv, TypeOK, TasksOK, Same, taskVars, queueVars

LEMMA EndKeeps ==
    ASSUME IInv, ThreadsEnd, UNCHANGED <<taskVars, queueVars, approval, kept, faults>>,
           mode' = "down", todo' \subseteq Tasks, exits' \in 0..MaxExits,
           kept # Null => kept.task = task /\ kept.approval = approval
    PROVE  IInv'
<1>1. /\ at' \in [Threads -> PCs] /\ on' \in [Threads -> Work \cup {Null}]
      /\ \A th \in Threads : at'[th] = "idle" /\ on'[th] = Null
  BY DEF ThreadsEnd, PCs
<1>2. TypeOK'
  BY <1>1 DEF IInv, TypeOK, taskVars, queueVars, Approvals, Statuses, Work
<1>3. ModeOK'
  BY <1>1 DEF ModeOK, taskVars
<1>4. StagesOK' /\ Alone' /\ WorkerSettles'
  <2>1. (\A th \in Threads : at[th] = "idle")'
    BY <1>1
  <2> QED
    BY <2>1, NobodyWorks, PTL
<1> QED
  BY <1>2, <1>3, <1>4, SameTasks DEF IInv

LEMMA CrashKeeps == IInv /\ Crash => IInv'
BY RuntimeAssumption, EndKeeps DEF Crash, IInv, TypeOK, ModeOK

LEMMA ExitKeeps == IInv /\ Exit => IInv'
BY EndKeeps DEF Exit, IInv, TypeOK, ModeOK

\* An orderly stop that waits for the round of the worker to end.
LEMMA StopKeeps == IInv /\ Stop /\ at[Worker] = "idle" => IInv'
<1> SUFFICES ASSUME IInv, Stop, at[Worker] = "idle" PROVE IInv'
  OBVIOUS
<1>0. /\ mode' = "stopping" /\ kept' = [task |-> task, approval |-> approval]
      /\ UNCHANGED <<taskVars, queueVars, approval, at, on, todo, faults>>
      /\ exits' = exits + 1 /\ exits < MaxExits
  BY DEF Stop
<1>1. \A th \in Threads : at[th] = "idle" /\ at'[th] = "idle"
  BY <1>0 DEF Stop, Threads
<1>2. TypeOK'
  <2>1. exits' \in 0..MaxExits
    BY <1>0, RuntimeAssumption DEF IInv, TypeOK
  <2>2. kept' \in [task : Statuses, approval : Approvals]
    BY <1>0 DEF IInv, TypeOK
  <2> QED
    BY <1>0, <2>1, <2>2
    DEF IInv, TypeOK, taskVars, queueVars, Approvals, Statuses, Work
<1>3. ModeOK'
  BY <1>0, <1>1 DEF ModeOK, taskVars
<1>4. StagesOK' /\ Alone' /\ WorkerSettles'
  <2>1. (\A th \in Threads : at[th] = "idle")'
    BY <1>1
  <2> QED
    BY <2>1, NobodyWorks, PTL
<1> QED
  BY <1>0, <1>2, <1>3, <1>4, SameTasks DEF IInv

LEMMA ServeKeeps == IInv /\ Serve => IInv'
<1> SUFFICES ASSUME IInv, Serve PROVE IInv'
  OBVIOUS
<1>0. /\ mode = "booting" /\ mode' = "up" /\ kept = Null
      /\ UNCHANGED <<taskVars, queueVars, approval, at, on, kept, todo, exits, faults>>
  BY DEF Serve, IInv, TypeOK
<1>1. \A th \in Threads : at[th] = "idle" /\ at'[th] = "idle"
  BY <1>0 DEF IInv, ModeOK
<1>2. TypeOK'
  BY <1>0 DEF IInv, TypeOK, taskVars, queueVars, Approvals, Statuses, Work
<1>3. ModeOK'
  BY <1>0 DEF ModeOK
<1>4. StagesOK' /\ Alone' /\ WorkerSettles'
  <2>1. (\A th \in Threads : at[th] = "idle")'
    BY <1>1
  <2> QED
    BY <2>1, NobodyWorks, PTL
<1> QED
  BY <1>0, <1>2, <1>3, <1>4, SameTasks DEF IInv

\* What a restart makes of one task: an interrupted one has failed.
LEMMA RecoveredFacts ==
    ASSUME NEW status \in DOMAIN Allowed \cup {Null}
    PROVE  /\ Recovered(status) \in DOMAIN Allowed \cup {Null}
           /\ Recovered(status) # "running"
           /\ Recovered(status) = status \/ (status = "running" /\ Recovered(status) = "failed")
BY RuntimeAssumption DEF Recovered, Allowed

LEMMA RestartKeeps == IInv /\ Restart => IInv'
<1> SUFFICES ASSUME IInv, Restart PROVE IInv'
  OBVIOUS
<1>0. /\ mode = "down" /\ mode' = "booting" /\ todo' = Tasks /\ kept' = Null
      /\ UNCHANGED <<decision, runs, queueVars, at, on, exits, faults>>
  BY DEF Restart
<1>1. task' = [t \in Tasks |-> Recovered(task[t])] /\ approval' = approval
  BY DEF Restart, IInv, ModeOK
<1>2. \A t \in Tasks : task[t] \in DOMAIN Allowed \cup {Null}
  BY DEF IInv, TypeOK, Statuses
<1>3. \A t \in Tasks :
         /\ task'[t] \in DOMAIN Allowed \cup {Null} /\ task'[t] # "running"
         /\ task'[t] = task[t] \/ (task[t] = "running" /\ task'[t] = "failed")
  BY <1>1, <1>2, RecoveredFacts
<1>4. task' \in Statuses
  BY <1>1, <1>3 DEF Statuses
<1>5. \A th \in Threads : at[th] = "idle" /\ at'[th] = "idle"
  BY <1>0 DEF IInv, ModeOK
<1>6. TypeOK'
  BY <1>0, <1>1, <1>4 DEF IInv, TypeOK, queueVars, Approvals, Work
<1>7. TasksOK'
  <2> SUFFICES ASSUME NEW t \in Tasks PROVE TaskOK(t)' /\ ApprovalOK(t)' /\ Settled(t)'
    BY DEF TasksOK
  <2>1. task'[t] = task[t] \/ (task[t] = "running" /\ task'[t] = "failed")
    BY <1>3
  <2>2. TaskOK(t) /\ ApprovalOK(t) /\ Settled(t)
    BY DEF IInv, TasksOK
  <2> QED
    BY <1>0, <1>1, <2>1, <2>2, RuntimeAssumption
    DEF TaskOK, ApprovalOK, Settled, Consented, LastApproval, Started, Terminal, queueVars
<1>8. ModeOK'
  BY <1>0, <1>3, <1>5 DEF ModeOK
<1>9. StagesOK' /\ Alone' /\ WorkerSettles'
  <2>1. (\A th \in Threads : at[th] = "idle")'
    BY <1>5
  <2> QED
    BY <2>1, NobodyWorks, PTL
<1> QED
  BY <1>6, <1>7, <1>8, <1>9 DEF IInv

\* What the pass makes of one record: afterwards task and job agree.
LEMMA ReconciledFacts ==
    ASSUME IInv, NEW t \in Tasks, task[t] # "running"
    PROVE  /\ ReconciledTask(t) = task[t] \/
                 (task[t] = "pending" /\ ReconciledTask(t) = "cancelled")
           /\ ReconciledJob(t) \in Phases
           /\ ReconciledJob(t) # "delivered"
           /\ ReconciledTask(t) = "pending" => ReconciledJob(t) \in {"waiting", "failed"}
           /\ ReconciledJob(t) = "waiting" => ReconciledTask(t) = "pending"
           /\ ReconciledJob(t) = "waiting" => left[t] > 0 \/ job[t] = "absent"
           /\ ReconciledJob(t) = "completed" => job[t] = "completed"
           /\ task[t] = Null => ReconciledJob(t) = "absent"
           /\ ReconciledJob(t) = "waiting" /\ job[t] = "absent" => task[t] = "pending"
           /\ task[t] = "pending" /\ job[t] = "completed" => ReconciledTask(t) = "cancelled"
<1>1. /\ job[t] \in {"absent", "waiting", "delivered", "completed", "failed", "cancelled"}
      /\ task[t] \in DOMAIN Allowed \cup {Null} /\ TaskOK(t)
  BY DEF IInv, TypeOK, Statuses, TasksOK
<1>2. /\ ReconciledTask(t) = task[t] \/
            (task[t] = "pending" /\ ReconciledTask(t) = "cancelled")
      /\ task[t] = "pending" =>
            (ReconciledTask(t) = "cancelled" <=> job[t] \in {"completed", "cancelled"})
  BY <1>1 DEF ReconciledTask
<1>3. CASE task[t] # "pending" /\ job[t] \in {"waiting", "delivered"}
  <2>1. ReconciledJob(t) = "cancelled"
    BY <1>3 DEF ReconciledJob
  <2> QED
    BY <1>1, <1>2, <1>3, <2>1 DEF TaskOK, Phases
<1>4. CASE task[t] = "pending" /\ job[t] = "delivered"
  <2>1. ReconciledJob(t) = GivenBack(t) /\ GivenBack(t) \in {"waiting", "failed"}
        /\ (GivenBack(t) = "waiting" => left[t] > 0)
    BY <1>4 DEF ReconciledJob, GivenBack
  <2> QED
    BY <1>1, <1>2, <1>4, <2>1, RuntimeAssumption DEF Phases
<1>5. CASE task[t] = "pending" /\ job[t] = "absent"
  <2>1. ReconciledJob(t) = "waiting"
    BY <1>5 DEF ReconciledJob
  <2> QED
    BY <1>1, <1>2, <1>5, <2>1, RuntimeAssumption DEF Phases
<1>6. CASE /\ ~(task[t] # "pending" /\ job[t] \in {"waiting", "delivered"})
           /\ ~(task[t] = "pending" /\ job[t] \in {"delivered", "absent"})
  <2>1. ReconciledJob(t) = job[t]
    BY <1>6 DEF ReconciledJob
  <2> QED
    BY <1>1, <1>2, <1>6, <2>1 DEF TaskOK, Phases
<1> QED
  BY <1>1, <1>3, <1>4, <1>5, <1>6

LEMMA ReconcileKeeps ==
    ASSUME IInv, NEW t \in Tasks, Reconcile(t)
    PROVE  IInv'
<1>0. /\ mode = "booting" /\ todo' = todo \ {t} /\ kept = Null
      /\ SetTask(t, ReconciledTask(t)) /\ SetJob(t, ReconciledJob(t))
      /\ UNCHANGED <<decision, runs, approval, at, on, mode, kept, exits, faults>>
  BY DEF Reconcile, IInv, TypeOK
<1>1. task[t] # "running" /\ \A u \in Tasks : task[u] # "running"
  BY <1>0 DEF IInv, ModeOK
<1> DEFINE new == ReconciledTask(t)  phase == ReconciledJob(t)
<1>2. /\ new = task[t] \/ (task[t] = "pending" /\ new = "cancelled")
      /\ phase \in Phases /\ phase # "delivered"
      /\ new = "pending" => phase \in {"waiting", "failed"}
      /\ phase = "waiting" => new = "pending"
      /\ phase = "waiting" => left[t] > 0 \/ job[t] = "absent"
      /\ phase = "completed" => job[t] = "completed"
      /\ task[t] = Null => phase = "absent"
      /\ task[t] = "pending" /\ job[t] = "completed" => new = "cancelled"
  BY <1>1, ReconciledFacts
<1> HIDE DEF new, phase
<1>3. /\ task \in Statuses /\ job \in [Tasks -> Phases] /\ left \in [Tasks -> 0..MaxAttempts]
      /\ ours \in [Tasks -> BOOLEAN] /\ task[t] \in DOMAIN Allowed \cup {Null}
  BY DEF IInv, TypeOK, Phases, Statuses
<1>4. new \in DOMAIN Allowed \cup {Null}
  BY <1>2, <1>3 DEF Allowed
<1>5. /\ task' = [task EXCEPT ![t] = new] /\ job' = [job EXCEPT ![t] = phase]
  BY <1>0 DEF SetTask, SetJob, new, phase
<1>6. /\ task' \in Statuses /\ task'[t] = new
      /\ job' \in [Tasks -> Phases] /\ job'[t] = phase
      /\ \A u \in Tasks \ {t} : task'[u] = task[u] /\ job'[u] = job[u]
  BY <1>2, <1>3, <1>4, <1>5 DEF Statuses
<1>7. \/ /\ job[t] = "absent" /\ phase = "waiting"
         /\ left' = [left EXCEPT ![t] = MaxAttempts] /\ ours' = [ours EXCEPT ![t] = FALSE]
      \/ /\ ~(job[t] = "absent" /\ phase = "waiting")
         /\ UNCHANGED <<left, ours>>
  BY <1>6 DEF Reconcile
<1>8. /\ left' \in [Tasks -> 0..MaxAttempts] /\ ours' \in [Tasks -> BOOLEAN]
      /\ \A u \in Tasks \ {t} : left'[u] = left[u]
      /\ phase = "waiting" => left'[t] > 0
  <2>1. CASE job[t] = "absent" /\ phase = "waiting"
    <3>1. MaxAttempts \in 0..MaxAttempts /\ MaxAttempts > 0 /\ FALSE \in BOOLEAN
      BY RuntimeAssumption
    <3>2. left' = [left EXCEPT ![t] = MaxAttempts] /\ ours' = [ours EXCEPT ![t] = FALSE]
      BY <1>7, <2>1
    <3> QED
      BY <1>3, <3>1, <3>2
  <2>2. CASE ~(job[t] = "absent" /\ phase = "waiting")
    BY <1>2, <1>3, <1>7, <2>2
  <2> QED
    BY <2>1, <2>2
<1>9. TypeOK'
  BY <1>0, <1>6, <1>8 DEF IInv, TypeOK, Phases, Approvals, Work
<1>10. TaskOK(t) /\ ApprovalOK(t) /\ Settled(t)
  BY DEF IInv, TasksOK
<1>11. TaskOK(t)' /\ ApprovalOK(t)' /\ Settled(t)'
  <2>1. TaskOK(t)'
    BY <1>0, <1>1, <1>2, <1>6, <1>8, <1>10, RuntimeAssumption
    DEF TaskOK, Consented, LastApproval, Started, Terminal
  <2>2. ApprovalOK(t)'
    BY <1>0, <1>2, <1>6, <1>10, RuntimeAssumption DEF ApprovalOK
  <2>3. Settled(t)'
    BY <1>0, <1>2, <1>6, <1>10 DEF Settled
  <2> QED
    BY <2>1, <2>2, <2>3
<1>12. TasksOK'
  <2> SUFFICES ASSUME NEW u \in Tasks, u # t
               PROVE  TaskOK(u)' /\ ApprovalOK(u)' /\ Settled(u)'
    BY <1>11 DEF TasksOK
  <2>1. Same(u)
    BY <1>0, <1>6, <1>8 DEF Same
  <2> QED
    BY <1>0, <2>1, SameTask, RuntimeAssumption DEF IInv, TypeOK, TasksOK
<1>13. \A th \in Threads : at[th] = "idle" /\ at'[th] = "idle"
  BY <1>0 DEF IInv, ModeOK
<1>14. ModeOK'
  <2>1. \A u \in Tasks : task'[u] # "running"
    BY <1>1, <1>2, <1>6
  <2>2. Agreed(t)'
    BY <1>2, <1>6, <2>1 DEF Agreed
  <2>3. \A u \in Tasks \ todo' : Agreed(u)'
    <3> SUFFICES ASSUME NEW u \in Tasks, u # t, u \notin todo PROVE Agreed(u)'
      BY <1>0, <2>2
    <3> QED
      BY <1>0, <1>6 DEF IInv, ModeOK, Agreed
  <2> QED
    BY <1>0, <1>13, <2>1, <2>3 DEF ModeOK
<1>15. StagesOK' /\ Alone' /\ WorkerSettles'
  <2>1. (\A th \in Threads : at[th] = "idle")'
    BY <1>13
  <2> QED
    BY <2>1, NobodyWorks, PTL
<1> QED
  BY <1>9, <1>12, <1>14, <1>15 DEF IInv

-----------------------------------------------------------------------------
(* The invariant, when an orderly stop waits for the worker *)

\* The three facts that make IInv inductive are InitInv, StutterKeeps and
\* NextKeeps.
LEMMA InitInv == Init => IInv
<1> SUFFICES ASSUME Init PROVE IInv
  OBVIOUS
<1>1. TypeOK
  BY RuntimeAssumption DEF Init, TypeOK, Statuses, Approvals, Work, PCs
<1>2. TasksOK
  BY RuntimeAssumption
  DEF Init, TasksOK, TaskOK, ApprovalOK, Settled, Started, Terminal
<1>3. StagesOK /\ Alone /\ WorkerSettles
  BY NobodyWorks DEF Init
<1>4. ModeOK
  BY DEF Init, ModeOK
<1> QED
  BY <1>1, <1>2, <1>3, <1>4 DEF IInv

LEMMA StutterKeeps == IInv /\ UNCHANGED vars => IInv'
<1> SUFFICES ASSUME IInv, UNCHANGED vars PROVE IInv'
  OBVIOUS
<1>1. UNCHANGED <<taskVars, queueVars, approval, at, on, envVars, faults>>
  BY DEF vars
<1>2. TypeOK'
  BY <1>1 DEF IInv, TypeOK, taskVars, queueVars, envVars, Statuses, Approvals, Work
<1>3. \A u \in Tasks : Same(u)
  BY <1>1 DEF Same, taskVars, queueVars
<1>4. StagesOK'
  <2> SUFFICES ASSUME NEW x \in Threads, at[x] # "idle" PROVE Stage(x)'
    BY <1>1 DEF StagesOK, Stage
  <2> QED
    BY <1>1, <1>3, SameStage, ThreadFacts
<1>5. Alone' /\ WorkerSettles' /\ ModeOK'
  BY <1>1 DEF IInv, Alone, WorkerSettles, ModeOK, Engaged, Agreed, T,
              taskVars, queueVars, envVars
<1> QED
  BY <1>1, <1>2, <1>4, <1>5, SameTasks DEF IInv

LEMMA EngineKeeps ==
    ASSUME IInv, NEW th \in Threads, EngineStep(th) \/ StorageFails(th)
    PROVE  IInv'
BY EnsureRegisteredKeeps, DenyTaskKeeps, RequireTaskKeeps, MarkWaitingKeeps,
   FindActiveApprovalKeeps, CreateApprovalKeeps, ConsumeApprovalKeeps, CheckStartKeeps,
   MarkRunningKeeps, RunExecutorKeeps, RecordSuccessKeeps, RecordFailureKeeps,
   StorageFailsKeeps DEF EngineStep

LEMMA HandlerKeeps ==
    ASSUME IInv, NEW h \in Handlers, Request(h) \/ HandlerStep(h)
    PROVE  IInv'
BY RegisterKeeps, BeginPendingKeeps, BeginDecisionKeeps, EnqueueKeeps, ApproveKeeps,
   RejectKeeps, CancelReadKeeps, CancelJobKeeps, CancelTaskKeeps, RetryReadKeeps,
   RetryFailedKeeps DEF Request, HandlerStep

\* Every step keeps the invariant.
LEMMA NextKeeps ==
    ASSUME IInv, [Next]_vars, Stop => at[Worker] = "idle"
    PROVE  IInv'
<1>1. CASE Poll \/ WorkerStep
  BY <1>1, PollKeeps, InspectKeeps, QueueCompleteKeeps, QueueFailKeeps, QueueDropKeeps
  DEF WorkerStep
<1>2. CASE \E th \in Threads : EngineStep(th) \/ StorageFails(th)
  BY <1>2, EngineKeeps
<1>3. CASE \E h \in Handlers : Request(h) \/ HandlerStep(h)
  BY <1>3, HandlerKeeps
<1>4. CASE \E t \in Tasks : Reconcile(t) \/ \E n \in DOMAIN approval[t] : Expire(t, n)
  BY <1>4, ReconcileKeeps, ExpireKeeps
<1>5. CASE Crash \/ Stop \/ Exit \/ Restart \/ Serve
  BY <1>5, CrashKeeps, StopKeeps, ExitKeeps, RestartKeeps, ServeKeeps
<1>6. CASE UNCHANGED vars
  BY <1>6, StutterKeeps
<1> QED
  BY <1>1, <1>2, <1>3, <1>4, <1>5, <1>6 DEF Next

\* Orderly stops wait for the round of the worker, however long it takes.
StopsWait == [][Stop => at[Worker] = "idle"]_vars

\* A stop that never gives up waiting is such a stop.
LEMMA NeverGivesUp == ASSUME JoinTimesOut = FALSE PROVE Spec => StopsWait
<1>1. [Next]_vars => [Stop => at[Worker] = "idle"]_vars
  BY DEF Stop
<1> QED
  BY <1>1, PTL DEF Spec, StopsWait

\* The inductive invariant: every thread is where its task, its approval and
\* its job allow it to be, and only one of them is about to start a task.
THEOREM Invariance == Spec /\ StopsWait => []IInv
<1>1. IInv /\ [Next]_vars /\ [Stop => at[Worker] = "idle"]_vars => IInv'
  BY NextKeeps, StutterKeeps
<1> QED
  BY <1>1, InitInv, PTL DEF Spec, StopsWait

\* The properties the runs check follow from it.
LEMMA InvImpliesRuntime == IInv => RuntimeInv
<1> SUFFICES ASSUME IInv PROVE RuntimeInv
  OBVIOUS
<1>1. AtMostOnce
  BY DEF IInv, TasksOK, TaskOK, AtMostOnce
<1>2. ASSUME NEW t \in Tasks, runs[t] > 0
      PROVE  /\ decision[t] # "deny"
             /\ decision[t] = "require_approval" =>
                   \E n \in DOMAIN approval[t] : approval[t][n] = "consumed"
  <2>1. Consented(t)
    BY <1>2 DEF IInv, TasksOK, TaskOK
  <2>2. approval[t] # <<>> => Len(approval[t]) \in DOMAIN approval[t]
    BY DEF IInv, TypeOK, Approvals
  <2> QED
    BY <2>1, <2>2 DEF Consented, LastApproval
<1> QED
  BY <1>1, <1>2 DEF RuntimeInv, IInv, RunsHadConsent

\* No command is executed twice and none without the consent it needs, for
\* any number of tasks, handlers, requests, restarts and failed writes
\* (engine.execute, engine._mark_running).
THEOREM RuntimeInvHolds == Spec /\ StopsWait => []RuntimeInv
BY Invariance, InvImpliesRuntime, PTL

\* At most the last request of a task is open.
LEMMA InvImpliesExclusive == IInv => ApprovalsExclusive
<1> SUFFICES ASSUME IInv, NEW t \in Tasks
             PROVE  Cardinality({n \in DOMAIN approval[t] :
                        approval[t][n] \in {"pending", "approved", "consumed"}}) <= 1
  BY DEF ApprovalsExclusive
<1> DEFINE S == {n \in DOMAIN approval[t] :
                    approval[t][n] \in {"pending", "approved", "consumed"}}
           last == Len(approval[t])
<1>1. DOMAIN approval[t] = 1..last
  BY DEF IInv, TypeOK, Approvals
<1>2. S \subseteq {last}
  BY <1>1, LastOnly
<1> HIDE DEF S
<1>3. IsFiniteSet({last}) /\ Cardinality({last}) = 1
  BY FS_Singleton
<1>4. Cardinality(S) <= Cardinality({last})
  BY <1>2, <1>3, FS_Subset
<1>5. Cardinality(S) <= 1
  BY <1>3, <1>4
<1> QED
  BY <1>5 DEF S

\* A task never has two approval requests that could still lead to a run
\* (engine._request_approval finds, then creates).
THEOREM ApprovalsExclusiveHolds == Spec /\ StopsWait => []ApprovalsExclusive
BY Invariance, InvImpliesExclusive, PTL

\* The worker completes a job with its task still pending only if a write
\* failed (task_worker.process_next).
THEOREM DeliveredIsSettledHolds == Spec /\ StopsWait => []DeliveredIsSettled
<1>1. IInv => DeliveredIsSettled
  BY DEF IInv, TasksOK, Settled, DeliveredIsSettled
<1> QED
  BY <1>1, Invariance, PTL

\* The API opens when the pass is done, in no other way.
LEMMA OnlyServeOpens ==
    ASSUME [Next]_vars, mode = "booting", mode' = "up"
    PROVE  Serve
<1>1. mode' # mode
  OBVIOUS
<1>2. ~Poll /\ ~WorkerStep /\ ~UNCHANGED vars
  BY <1>1 DEF Poll, WorkerStep, Inspect, QueueComplete, QueueFail, QueueDrop, OnlyQueue,
              OnlyThread, envVars, vars
<1>3. ASSUME NEW th \in Threads PROVE ~EngineStep(th) /\ ~StorageFails(th)
  BY <1>1 DEF EngineStep, EnsureRegistered, DenyTask, RequireTask, MarkWaiting,
              FindActiveApproval, CreateApproval, ConsumeApproval, CheckStart, MarkRunning,
              RunExecutor, RecordSuccess, RecordFailure, StorageFails, OnlyTask,
              OnlyApproval, OnlyThread, envVars
<1>4. ASSUME NEW h \in Handlers PROVE ~Request(h) /\ ~HandlerStep(h)
  BY <1>1 DEF Request, Register, BeginPending, BeginDecision, HandlerStep, Enqueue, Approve,
              Reject, CancelRead, CancelJob, CancelTask, RetryRead, RetryFailed, OnlyTask,
              OnlyApproval, OnlyThread, OnlyQueue, envVars
<1>5. ASSUME NEW t \in Tasks PROVE ~Reconcile(t) /\ \A n \in DOMAIN approval[t] : ~Expire(t, n)
  BY <1>1 DEF Reconcile, Expire, envVars
<1>6. ~Crash /\ ~Stop /\ ~Exit /\ ~Restart
  BY <1>1 DEF Crash, Stop, Exit, Restart
<1> QED
  BY <1>2, <1>3, <1>4, <1>5, <1>6 DEF Next

\* When the API opens again, tasks and jobs agree, however often the pass was
\* cut short and whatever failed before (queue_reconciler.reconcile).
THEOREM ReconciledAgreeHolds == Spec /\ StopsWait => ReconciledAgree
<1>1. IInv /\ [Next]_vars => [mode = "booting" /\ mode' = "up" => \A t \in Tasks : Agreed(t)]_vars
  BY OnlyServeOpens DEF IInv, ModeOK, Serve
<1> QED
  BY <1>1, Invariance, PTL DEF Spec, ReconciledAgree, Agreed

-----------------------------------------------------------------------------
(* The runtime uses the queue as JobLifecycle allows *)

\* A job that keeps to the lifecycle makes a step, or none, of JobLifecycle.
LEMMA JobsMove ==
    ASSUME TypeOK', \A u \in Tasks : Lifecycle!Move(u)
    PROVE  Lifecycle!Next
<1>1. job' = [j \in Tasks |-> job'[j]] /\ left' = [j \in Tasks |-> left'[j]]
  BY DEF TypeOK
<1> QED
  BY <1>1 DEF Lifecycle!Next

LEMMA OneJobMoves ==
    ASSUME IInv, IInv', NEW t \in Tasks, Lifecycle!Move(t),
           \A u \in Tasks \ {t} : job'[u] = job[u] /\ left'[u] = left[u]
    PROVE  Lifecycle!Next
<1>1. \A u \in Tasks \ {t} : Lifecycle!Move(u)
  BY DEF Lifecycle!Move, Lifecycle!Stay
<1> QED
  BY <1>1, JobsMove DEF IInv

LEMMA PollMoves == IInv /\ IInv' /\ Poll => Lifecycle!Next
<1> SUFFICES ASSUME IInv, IInv', Poll PROVE Lifecycle!Next
  OBVIOUS
<1>1. PICK expired \in SUBSET Expirable :
       LET spent == {t \in expired : left[t] = 0}
           due   == {t \in Tasks : job[t] = "waiting"} \cup (expired \ spent)
           Sweep(t) == IF t \in spent THEN "failed" ELSE job[t]
       IN  \/ /\ due = {} /\ spent # {}
              /\ job' = [t \in Tasks |-> Sweep(t)]
              /\ UNCHANGED <<left, at, on>>
           \/ \E t \in due :
              /\ job' = [k \in Tasks |-> IF k = t THEN "delivered" ELSE Sweep(k)]
              /\ left' = [left EXCEPT ![t] = @ - 1]
              /\ Begin(Worker, "inspect", t, 0)
  BY DEF Poll
<1> DEFINE spent == {t \in expired : left[t] = 0}
           due == {t \in Tasks : job[t] = "waiting"} \cup (expired \ spent)
           Sweep(t) == IF t \in spent THEN "failed" ELSE job[t]
<1>2. \A u \in expired : u \in Tasks /\ job[u] = "delivered"
  BY DEF Expirable
<1>3. ASSUME NEW u \in Tasks, job'[u] = Sweep(u), left'[u] = left[u] PROVE Lifecycle!Move(u)
  <2>1. CASE u \in spent
    <3>1. job[u] = "delivered" /\ job'[u] = "failed" /\ left[u] = 0
      BY <1>2, <1>3, <2>1
    <3> QED
      BY <1>3, <3>1 DEF Lifecycle!Move, Lifecycle!GiveBack, Lifecycle!Edge
  <2>2. CASE u \notin spent
    BY <1>3, <2>2 DEF Lifecycle!Move, Lifecycle!Stay
  <2> QED
    BY <2>1, <2>2
<1>4. ASSUME NEW t \in due
      PROVE  t \in Tasks /\ job[t] \in {"waiting", "delivered"} /\ left[t] > 0
  <2>0. t \in Tasks /\ job[t] \in {"waiting", "delivered"}
    BY <1>2
  <2>1. left[t] \in 0..MaxAttempts
    BY <2>0 DEF IInv, TypeOK
  <2>2. CASE job[t] = "waiting"
    BY <2>0, <2>2 DEF IInv, TasksOK, TaskOK
  <2>3. CASE t \in expired \ spent
    <3>1. left[t] # 0
      BY <2>3
    <3> QED
      BY <2>0, <2>1, <3>1, RuntimeAssumption
  <2> QED
    BY <2>0, <2>2, <2>3
<1> HIDE DEF spent, due, Sweep
<1>5. CASE job' = [t \in Tasks |-> Sweep(t)] /\ UNCHANGED left
  BY <1>3, <1>5, JobsMove DEF IInv
<1>6. ASSUME NEW t \in due,
             job' = [k \in Tasks |-> IF k = t THEN "delivered" ELSE Sweep(k)],
             left' = [left EXCEPT ![t] = @ - 1]
      PROVE  Lifecycle!Next
  <2>1. left \in [Tasks -> 0..MaxAttempts]
    BY DEF IInv, TypeOK
  <2>2. /\ job'[t] = "delivered" /\ left'[t] = left[t] - 1
        /\ \A u \in Tasks \ {t} : job'[u] = Sweep(u) /\ left'[u] = left[u]
    BY <1>4, <1>6, <2>1
  <2>3. Lifecycle!Move(t)
    BY <1>4, <2>2 DEF Lifecycle!Move, Lifecycle!Deliver, Lifecycle!Edge
  <2> QED
    BY <1>3, <2>2, <2>3, JobsMove DEF IInv
<1> QED
  BY <1>1, <1>5, <1>6 DEF spent, due, Sweep

LEMMA WorkerMoves == IInv /\ IInv' /\ WorkerStep => Lifecycle!Next \/ UNCHANGED <<job, left>>
<1> SUFFICES ASSUME IInv, IInv', WorkerStep PROVE Lifecycle!Next \/ UNCHANGED <<job, left>>
  OBVIOUS
<1>0. CASE UNCHANGED <<job, left>>
  BY <1>0
<1>1. ASSUME at[Worker] # "idle", NEW t \in Tasks, t = T(Worker),
             NEW phase \in Phases, SetJob(t, phase), left' = left,
             \/ job[t] = "delivered" /\ phase \in {"completed", "cancelled"}
             \/ job[t] = "delivered" /\ phase = GivenBack(t)
             \/ job[t] = "waiting" /\ phase = "cancelled"
      PROVE  Lifecycle!Next
  <2>1. /\ job'[t] = phase /\ \A u \in Tasks \ {t} : job'[u] = job[u] /\ left'[u] = left[u]
        /\ left'[t] = left[t] /\ left[t] \in Nat
    BY <1>1, RuntimeAssumption DEF IInv, TypeOK, SetJob
  <2>2. Lifecycle!Move(t)
    BY <1>1, <2>1
    DEF Lifecycle!Move, Lifecycle!Finish, Lifecycle!GiveBack, Lifecycle!Edge, GivenBack
  <2> QED
    BY <2>1, <2>2, OneJobMoves
<1>2. CASE Inspect
  BY <1>2 DEF Inspect, OnlyThread, queueVars
<1>3. CASE QueueComplete
  <2>1. T(Worker) \in Tasks /\ at[Worker] # "idle" /\ left' = left
    BY <1>3, Roles, ThreadFacts DEF QueueComplete
  <2> QED
    BY <1>1, <1>3, <2>1 DEF QueueComplete, T, Phases
<1>4. CASE QueueFail
  <2>1. T(Worker) \in Tasks /\ at[Worker] # "idle" /\ left' = left
    BY <1>4, Roles, ThreadFacts DEF QueueFail
  <2>2. GivenBack(T(Worker)) \in Phases
    BY DEF GivenBack, Phases
  <2> QED
    BY <1>1, <1>4, <2>1, <2>2 DEF QueueFail, T
<1>5. CASE QueueDrop
  <2>1. T(Worker) \in Tasks /\ at[Worker] # "idle" /\ left' = left
    BY <1>5, Roles, ThreadFacts DEF QueueDrop
  <2> QED
    BY <1>1, <1>5, <2>1 DEF QueueDrop, T, Phases
<1> QED
  BY <1>2, <1>3, <1>4, <1>5 DEF WorkerStep

LEMMA HandlerMoves ==
    ASSUME IInv, IInv', NEW h \in Handlers, Request(h) \/ HandlerStep(h)
    PROVE  Lifecycle!Next \/ UNCHANGED <<job, left>>
<1>1. CASE Request(h)
  BY <1>1 DEF Request, Register, BeginPending, BeginDecision, OnlyThread, queueVars
<1>2. ASSUME at[h] # "idle", NEW t \in Tasks, t = T(h), SetJob(t, "waiting"),
             job[t] \in {"absent", "failed"},
             NEW n \in 1..MaxAttempts, left' = [left EXCEPT ![t] = n]
      PROVE  Lifecycle!Next
  <2>1. /\ job'[t] = "waiting" /\ left'[t] = n
        /\ \A u \in Tasks \ {t} : job'[u] = job[u] /\ left'[u] = left[u]
    BY <1>2 DEF IInv, TypeOK, SetJob
  <2>2. Lifecycle!Move(t)
    BY <1>2, <2>1 DEF Lifecycle!Move, Lifecycle!Submit, Lifecycle!Edge
  <2> QED
    BY <2>1, <2>2, OneJobMoves
<1>3. CASE Enqueue(h)
  <2>1. at[h] = "enqueue" /\ h \in Threads /\ h # Worker
    BY <1>3, Roles DEF Enqueue
  <2>2. T(h) \in Tasks /\ job[T(h)] = "absent"
    BY <2>1, ThreadFacts DEF Stage, HandlerAtWork
  <2>3. MaxAttempts \in 1..MaxAttempts
    BY RuntimeAssumption
  <2> QED
    BY <1>2, <1>3, <2>1, <2>2, <2>3 DEF Enqueue, T
<1>4. CASE RetryFailed(h)
  <2>1. T(h) \in Tasks /\ at[h] # "idle"
    BY <1>4, Roles, ThreadFacts DEF RetryFailed
  <2> QED
    BY <1>2, <1>4, <2>1 DEF RetryFailed, T
<1>5. CASE CancelJob(h)
  <2>1. PICK t \in Tasks : t = T(h)
    BY <1>5, Roles, ThreadFacts DEF CancelJob
  <2>2. CASE job[t] = "waiting"
    <3>1. /\ job'[t] = "cancelled" /\ left' = left
          /\ \A u \in Tasks \ {t} : job'[u] = job[u]
      BY <1>5, <2>1, <2>2 DEF CancelJob, T, SetJob, IInv, TypeOK
    <3>2. Lifecycle!Move(t)
      BY <2>2, <3>1 DEF Lifecycle!Move, Lifecycle!Finish, Lifecycle!Edge
    <3> QED
      BY <3>1, <3>2, OneJobMoves
  <2>3. CASE job[t] # "waiting"
    BY <1>5, <2>1, <2>3 DEF CancelJob, T
  <2> QED
    BY <2>2, <2>3
<1>6. CASE Approve(h) \/ Reject(h) \/ CancelRead(h) \/ CancelTask(h) \/ RetryRead(h)
  BY <1>6 DEF Approve, Reject, CancelRead, CancelTask, RetryRead, OnlyApproval, OnlyThread,
              OnlyTask, queueVars
<1> QED
  BY <1>1, <1>3, <1>4, <1>5, <1>6 DEF HandlerStep

LEMMA ReconcileMoves ==
    ASSUME IInv, IInv', NEW t \in Tasks, Reconcile(t)
    PROVE  Lifecycle!Next
<1> DEFINE phase == ReconciledJob(t)
<1>1. /\ SetJob(t, phase)
      /\ IF job[t] = "absent" /\ job'[t] = "waiting"
         THEN left' = [left EXCEPT ![t] = MaxAttempts] ELSE left' = left
  BY DEF Reconcile
<1>2. /\ job'[t] = phase /\ \A u \in Tasks \ {t} : job'[u] = job[u] /\ left'[u] = left[u]
      /\ left[t] \in Nat
      /\ IF job[t] = "absent" /\ phase = "waiting"
         THEN left'[t] = MaxAttempts ELSE left'[t] = left[t]
  <2>1. /\ job'[t] = phase /\ \A u \in Tasks \ {t} : job'[u] = job[u]
        /\ left \in [Tasks -> 0..MaxAttempts]
    BY <1>1 DEF IInv, TypeOK, SetJob
  <2> HIDE DEF phase
  <2> QED
    BY <1>1, <2>1, RuntimeAssumption
<1>3. \/ job[t] \in {"waiting", "delivered"} /\ phase = "cancelled"
      \/ job[t] = "delivered" /\ phase = GivenBack(t)
      \/ job[t] = "absent" /\ phase = "waiting"
      \/ job[t] # "absent" /\ phase = job[t]
      \/ phase = job[t] /\ phase # "waiting"
  <2>1. CASE task[t] # "pending" /\ job[t] \in {"waiting", "delivered"}
    BY <2>1 DEF ReconciledJob
  <2>2. CASE task[t] = "pending" /\ job[t] = "delivered"
    BY <2>2 DEF ReconciledJob
  <2>3. CASE task[t] = "pending" /\ job[t] = "absent"
    BY <2>3 DEF ReconciledJob
  <2>4. CASE /\ ~(task[t] # "pending" /\ job[t] \in {"waiting", "delivered"})
             /\ ~(task[t] = "pending" /\ job[t] \in {"delivered", "absent"})
    <3>1. phase = job[t]
      BY <2>4 DEF ReconciledJob
    <3> QED
      BY <3>1
  <2> QED
    BY <2>1, <2>2, <2>3, <2>4
<1> HIDE DEF phase
<1>4. MaxAttempts \in 1..MaxAttempts
  BY RuntimeAssumption
<1>5. Lifecycle!Move(t)
  BY <1>2, <1>3, <1>4
  DEF Lifecycle!Move, Lifecycle!Finish, Lifecycle!GiveBack, Lifecycle!Submit,
      Lifecycle!Stay, Lifecycle!Edge, GivenBack
<1> QED
  BY <1>2, <1>5, OneJobMoves

\* The runtime keeps to the lifecycle of jobs that the queue promises, through
\* restarts and reconciliation (TaskQueue implements the same lifecycle).
THEOREM JobLifecycleHolds == Spec /\ StopsWait => JobLifecycleSpec
<1>1. Init => Lifecycle!Init
  BY DEF Init, Lifecycle!Init
<1>2. IInv /\ IInv' /\ [Next]_vars => [Lifecycle!Next]_<<job, left>>
  <2> SUFFICES ASSUME IInv, IInv', [Next]_vars
               PROVE  Lifecycle!Next \/ UNCHANGED <<job, left>>
    OBVIOUS
  <2>1. CASE Poll \/ WorkerStep
    BY <2>1, PollMoves, WorkerMoves
  <2>2. ASSUME NEW th \in Threads, EngineStep(th) \/ StorageFails(th)
        PROVE  UNCHANGED <<job, left>>
    BY <2>2 DEF EngineStep, EnsureRegistered, DenyTask, RequireTask, MarkWaiting,
              FindActiveApproval, CreateApproval, ConsumeApproval, CheckStart, MarkRunning,
              RunExecutor, RecordSuccess, RecordFailure, StorageFails, OnlyTask,
              OnlyApproval, OnlyThread, queueVars
  <2>3. CASE \E h \in Handlers : Request(h) \/ HandlerStep(h)
    BY <2>3, HandlerMoves
  <2>4. CASE \E t \in Tasks : Reconcile(t) \/ \E n \in DOMAIN approval[t] : Expire(t, n)
    BY <2>4, ReconcileMoves DEF Expire, queueVars
  <2>5. CASE Crash \/ Stop \/ Exit \/ Restart \/ Serve \/ UNCHANGED vars
    BY <2>5 DEF Crash, Stop, Exit, Restart, Serve, vars, queueVars
  <2> QED
    BY <2>1, <2>2, <2>3, <2>4, <2>5 DEF Next
<1> QED
  BY <1>1, <1>2, Invariance, PTL DEF Spec, JobLifecycleSpec, Lifecycle!Spec

-----------------------------------------------------------------------------
(* While no write has failed *)

\* A job to run belongs to a pending task, a claim is being worked on, a
\* request that could still be granted, or has just expired, keeps its task
\* waiting, and a cancelled task has not run.
CleanTask(t) ==
    /\ job[t] = "waiting" => task[t] = "pending"
    /\ mode = "up" /\ job[t] = "delivered" => at[Worker] # "idle" /\ T(Worker) = t
    /\ approval[t] # <<>> /\ LastApproval(t) \in {"pending", "approved", "expired"} =>
          task[t] = "waiting"
    /\ task[t] = "cancelled" => runs[t] = 0

\* The worker has the job of its task, and the task still waits for it.
CleanWorker ==
    LET t == T(Worker)  pc == at[Worker] IN
    /\ job[t] = "delivered" /\ pc # "drop"
    /\ pc \in {"inspect", "register", "deny", "require", "markWaiting", "check",
               "markRunning", "fail"} => task[t] = "pending"
    /\ pc \in {"find", "create"} => task[t] = "waiting"

\* What a handler has read or done is still so.
CleanHandler(h) ==
    LET t == T(h)  pc == at[h] IN
    /\ pc = "enqueue" => task[t] = "pending"
    /\ pc = "cancelRead" /\ job[t] = "cancelled" => task[t] \in {"pending", "cancelled"}
    /\ pc = "cancelTask" /\ N(h) = 0 =>
          job[t] = "cancelled" /\ task[t] \in {"pending", "cancelled"}
    /\ pc \in {"retryRead", "retry"} /\ job[t] = "failed" => task[t] = "pending"
    /\ pc \in {"check", "markRunning"} => task[t] = "waiting"

CleanStage(th) ==
    at[th] # "idle" =>
        /\ th = Worker => CleanWorker
        /\ th # Worker => CleanHandler(th)
        /\ at[th] \in {"execute", "succeed", "abort"} => task[T(th)] = "running"

\* The second layer.
CleanInv ==
    /\ \A t \in Tasks : CleanTask(t)
    /\ \A th \in Threads : CleanStage(th)

\* What it says of a thread that is busy.
LEMMA CleanFacts ==
    ASSUME IInv, CleanInv, NEW th \in Threads, at[th] # "idle"
    PROVE  /\ CleanTask(T(th)) /\ CleanStage(th)
           /\ th = Worker => CleanWorker
           /\ th # Worker => CleanHandler(th)
           /\ at[th] \in {"execute", "succeed", "abort"} => task[T(th)] = "running"
BY ThreadFacts DEF CleanInv, CleanStage

LEMMA SameClean ==
    ASSUME NEW x \in Threads, CleanStage(x), at'[x] = at[x], on'[x] = on[x],
           task'[T(x)] = task[T(x)], job'[T(x)] = job[T(x)]
    PROVE  CleanStage(x)'
BY DEF CleanStage, CleanWorker, CleanHandler, T, N

\* A step of one thread about its task.
LEMMA CleanStep ==
    ASSUME IInv, CleanInv, NEW th \in Threads, at[th] # "idle", NEW t \in Tasks, t = T(th),
           NEW pc, Moved(th, pc), mode' = mode,
           \A u \in Tasks \ {t} : Same(u),
           CleanTask(t)',
           \A x \in Threads \ {th} : at[x] # "idle" /\ T(x) = t => CleanStage(x)',
           CleanStage(th)'
    PROVE  CleanInv'
<1>1. ASSUME NEW u \in Tasks \ {t} PROVE CleanTask(u)'
  <2>1. CleanTask(u) /\ Same(u)
    BY <1>1 DEF CleanInv
  <2>2. CASE th = Worker
    BY <1>1, <2>1, <2>2, ThreadFacts DEF CleanTask, Same, LastApproval
  <2>3. CASE th # Worker
    <3>1. at'[Worker] = at[Worker] /\ on'[Worker] = on[Worker]
      BY <2>3, Roles DEF Moved
    <3> QED
      BY <1>1, <2>1, <3>1 DEF CleanTask, Same, LastApproval, T
  <2> QED
    BY <2>2, <2>3
<1>2. ASSUME NEW x \in Threads \ {th} PROVE CleanStage(x)'
  <2>1. at'[x] = at[x] /\ on'[x] = on[x] /\ CleanStage(x)
    BY <1>2 DEF Moved, CleanInv
  <2>2. CASE at[x] = "idle"
    BY <2>1, <2>2 DEF CleanStage
  <2>3. CASE at[x] # "idle" /\ T(x) # t
    <3>1. T(x) \in Tasks \ {t}
      BY <2>3, ThreadFacts
    <3> QED
      BY <2>1, <3>1, SameClean DEF Same
  <2> QED
    BY <2>2, <2>3
<1> QED
  BY <1>1, <1>2 DEF CleanInv

\* A call that only reads, or is refused.
LEMMA CleanThread ==
    ASSUME IInv, CleanInv, NEW th \in Threads, at[th] # "idle", NEW pc \in PCs, Goto(th, pc),
           UNCHANGED <<taskVars, queueVars, approval, envVars>>,
           th = Worker => pc # "idle",
           pc # "idle" => CleanStage(th)'
    PROVE  CleanInv'
<1>0. PICK t \in Tasks : t = T(th)
  BY ThreadFacts
<1>1. Moved(th, pc) /\ mode' = mode
  BY ThreadFacts, GotoFacts DEF envVars
<1>2. \A u \in Tasks : Same(u)
  BY DEF Same, taskVars, queueVars
<1>3. CleanTask(t)'
  <2>1. CleanTask(t) /\ Same(t)
    BY <1>2 DEF CleanInv
  <2>2. CASE th = Worker
    <3>1. at'[Worker] # "idle" /\ T(Worker)' = T(Worker)
      BY <1>1, <2>2 DEF Moved, T
    <3> QED
      BY <1>1, <2>1, <3>1 DEF CleanTask, Same, LastApproval
  <2>3. CASE th # Worker
    <3>1. at'[Worker] = at[Worker] /\ on'[Worker] = on[Worker]
      BY <1>1, <2>3, Roles DEF Moved
    <3> QED
      BY <1>1, <2>1, <3>1 DEF CleanTask, Same, LastApproval, T
  <2> QED
    BY <2>2, <2>3
<1>4. ASSUME NEW x \in Threads \ {th}, at[x] # "idle", T(x) = t PROVE CleanStage(x)'
  BY <1>1, <1>2, <1>4, SameClean DEF Moved, Same, CleanInv
<1>5. CleanStage(th)'
  BY <1>1 DEF CleanStage, Moved
<1> QED
  BY <1>0, <1>1, <1>2, <1>3, <1>4, <1>5, CleanStep


\* A handler that carries an approval it has not consumed: its task waits.
LEMMA CarriedWaits ==
    ASSUME IInv, CleanInv, NEW h \in Handlers, at[h] \in Carrying
    PROVE  task[T(h)] = "waiting"
<1>1. at[h] # "idle" /\ h \in Threads /\ h # Worker
  BY Roles DEF Carrying
<1>2. HandlerAtWork(h) /\ T(h) \in Tasks
  BY <1>1, ThreadFacts DEF Stage
<1>3. Len(approval[T(h)]) # 0 /\ LastApproval(T(h)) \in {"approved", "expired"}
  BY <1>2 DEF HandlerAtWork, Carrying, LastApproval
<1>4. approval[T(h)] # <<>>
  BY <1>3
<1> QED
  BY <1>2, <1>3, <1>4 DEF CleanInv, CleanTask

LEMMA EnsureRegisteredClean ==
    ASSUME IInv, CleanInv, NEW th \in Threads, EnsureRegistered(th)
    PROVE  CleanInv'
<1> DEFINE t == T(th)  pc == IF Open(t) THEN Assessed(th) ELSE Return(th)
<1>0. at[th] = "register" /\ at[th] # "idle" /\ Goto(th, pc)
  BY DEF EnsureRegistered, T
<1>1. pc \in {"idle", "complete", "deny", "check", "require", "consume"} /\ pc \in PCs
  BY DEF Assessed, Return, PCs, Writes
<1>2. UNCHANGED <<taskVars, queueVars, approval, envVars>>
  BY DEF EnsureRegistered, OnlyThread
<1>3. CASE th = Worker
  <2>1. WorkerAtWork /\ CleanWorker
    BY <1>0, <1>3, ThreadFacts, CleanFacts DEF Stage
  <2>2. pc # "idle" /\ task[t] = "pending"
    BY <1>0, <1>3, <2>1 DEF Assessed, Return, CleanWorker
  <2>3. CleanStage(th)'
    BY <1>0, <1>1, <1>2, <1>3, <2>1, <2>2, OwnStage
    DEF CleanStage, CleanWorker, Same
  <2> QED
    BY <1>0, <1>1, <1>2, <2>2, <2>3, CleanThread
<1>4. CASE th # Worker
  <2>1. task[t] = "waiting"
    BY <1>0, <1>4, CarriedWaits, Roles DEF Carrying
  <2>2. pc # "idle" => CleanStage(th)'
    BY <1>0, <1>1, <1>2, <1>4, <2>1, OwnStage DEF CleanStage, CleanHandler, Same
  <2> QED
    BY <1>0, <1>1, <1>2, <1>4, <2>2, CleanThread
<1> QED
  BY <1>3, <1>4

LEMMA RequireTaskClean ==
    ASSUME IInv, CleanInv, NEW th \in Threads, RequireTask(th)
    PROVE  CleanInv'
<1> DEFINE t == T(th)
           pc == IF task[t] = "pending" THEN "markWaiting" ELSE AfterWaiting(th)
<1>0. at[th] = "require" /\ at[th] # "idle" /\ Goto(th, pc)
  BY DEF RequireTask, T
<1>1. pc \in {"markWaiting", "find", "complete", "idle"} /\ pc \in PCs
  BY DEF AfterWaiting, Return, PCs, Writes
<1>2. UNCHANGED <<taskVars, queueVars, approval, envVars>>
  BY DEF RequireTask, OnlyThread
<1>3. th = Worker => CleanWorker /\ pc = "markWaiting" /\ task[t] = "pending"
  BY <1>0, CleanFacts DEF CleanWorker
<1>4. pc # "idle" => CleanStage(th)'
  BY <1>0, <1>1, <1>2, <1>3, OwnStage DEF CleanStage, CleanWorker, CleanHandler, Same
<1> QED
  BY <1>0, <1>1, <1>2, <1>3, <1>4, CleanThread

LEMMA FindActiveApprovalClean ==
    ASSUME IInv, CleanInv, NEW th \in Threads, FindActiveApproval(th)
    PROVE  CleanInv'
<1> DEFINE t == T(th)
           pc == IF ActiveApproval(t) THEN AfterRequest(th) ELSE "create"
<1>0. at[th] = "find" /\ at[th] # "idle" /\ Goto(th, pc)
  BY DEF FindActiveApproval, T
<1>1. pc \in {"create", "complete", "require", "idle"} /\ pc \in PCs
  BY DEF AfterRequest, Return, PCs, Writes
<1>2. UNCHANGED <<taskVars, queueVars, approval, envVars>>
  BY DEF FindActiveApproval, OnlyThread
<1>3. th = Worker => /\ CleanWorker /\ task[t] = "waiting"
                     /\ pc \in {"create", "complete"}
  <2> SUFFICES ASSUME th = Worker
               PROVE  CleanWorker /\ task[t] = "waiting" /\ pc \in {"create", "complete"}
    OBVIOUS
  <2>1. CleanWorker /\ WorkerAtWork
    BY <1>0, CleanFacts, ThreadFacts DEF Stage
  <2> QED
    BY <1>0, <2>1 DEF CleanWorker, WorkerAtWork, AfterRequest, Return, N
<1>4. pc # "idle" => CleanStage(th)'
  BY <1>0, <1>1, <1>2, <1>3, OwnStage DEF CleanStage, CleanWorker, CleanHandler, Same
<1> QED
  BY <1>0, <1>1, <1>2, <1>3, <1>4, CleanThread

LEMMA CheckStartClean ==
    ASSUME IInv, CleanInv, NEW th \in Threads, CheckStart(th)
    PROVE  CleanInv'
<1> DEFINE t == T(th)
           pc == IF Open(t) THEN "markRunning" ELSE Return(th)
<1>0. at[th] = "check" /\ at[th] # "idle" /\ Goto(th, pc)
  BY DEF CheckStart, T
<1>1. pc \in {"markRunning", "complete", "idle"} /\ pc \in PCs
  BY DEF Return, PCs, Writes
<1>2. UNCHANGED <<taskVars, queueVars, approval, envVars>>
  BY DEF CheckStart, OnlyThread
<1>3. th = Worker => CleanWorker /\ task[t] = "pending"
  BY <1>0, CleanFacts DEF CleanWorker
<1>4. th # Worker => task[t] = "waiting"
  BY <1>0, CleanFacts DEF CleanHandler
<1>5. pc = "markRunning"
  BY <1>3, <1>4 DEF Open
<1>6. CleanStage(th)'
  BY <1>0, <1>1, <1>2, <1>3, <1>4, <1>5, OwnStage
  DEF CleanStage, CleanWorker, CleanHandler, Same
<1> QED
  BY <1>0, <1>1, <1>2, <1>5, <1>6, CleanThread

LEMMA InspectClean == IInv /\ CleanInv /\ Inspect => CleanInv'
<1> SUFFICES ASSUME IInv, CleanInv, Inspect PROVE CleanInv'
  OBVIOUS
<1> DEFINE t == T(Worker)  pc == Verdict(t)
<1>0. Worker \in Threads /\ at[Worker] = "inspect" /\ at[Worker] # "idle" /\ Goto(Worker, pc)
  BY Roles DEF Inspect, T
<1>1. CleanWorker /\ task[t] = "pending"
  BY <1>0, CleanFacts DEF CleanWorker
<1>2. pc \in {"fail", "register"} /\ pc \in PCs \ {"idle"}
  BY <1>1, RuntimeAssumption DEF Verdict, PCs, Writes
<1>3. UNCHANGED <<taskVars, queueVars, approval, envVars>>
  BY DEF Inspect, OnlyThread
<1>4. CleanStage(Worker)'
  BY <1>0, <1>1, <1>2, <1>3, OwnStage DEF CleanStage, CleanWorker, Same
<1> QED
  BY <1>0, <1>2, <1>3, <1>4, CleanThread

LEMMA CancelReadClean ==
    ASSUME IInv, CleanInv, NEW h \in Handlers, CancelRead(h)
    PROVE  CleanInv'
<1> DEFINE t == T(h)
           pc == CASE job[t] = "absent" \/ ~ours[t] -> "idle"
                   [] job[t] = "cancelled"          -> "cancelTask"
                   [] OTHER                         -> "cancelJob"
<1>0. at[h] = "cancelRead" /\ at[h] # "idle" /\ Goto(h, pc) /\ h \in Threads /\ h # Worker
  BY Roles DEF CancelRead, T
<1>1. pc \in {"idle", "cancelTask", "cancelJob"} /\ pc \in PCs
      /\ (pc = "cancelTask" => job[t] = "cancelled")
  <2>1. CASE job[t] = "absent" \/ ~ours[t]
    BY <2>1 DEF PCs, Writes
  <2>2. CASE ~(job[t] = "absent" \/ ~ours[t])
    BY <2>2 DEF PCs, Writes
  <2> QED
    BY <2>1, <2>2
<1>2. UNCHANGED <<taskVars, queueVars, approval, envVars>>
  BY DEF CancelRead, OnlyThread
<1> HIDE DEF pc
<1>3. CleanHandler(h)
  BY <1>0, CleanFacts
<1>4. pc # "idle" => CleanStage(h)'
  BY <1>0, <1>1, <1>2, <1>3, OwnStage DEF CleanStage, CleanHandler, Same
<1> QED
  BY <1>0, <1>1, <1>2, <1>4, CleanThread

LEMMA RetryReadClean ==
    ASSUME IInv, CleanInv, NEW h \in Handlers, RetryRead(h)
    PROVE  CleanInv'
<1> DEFINE t == T(h)  pc == IF job[t] = "failed" /\ ours[t] THEN "retry" ELSE "idle"
<1>0. at[h] = "retryRead" /\ at[h] # "idle" /\ Goto(h, pc) /\ h \in Threads /\ h # Worker
  BY Roles DEF RetryRead, T
<1>1. pc \in {"idle", "retry"} /\ pc \in PCs
  BY DEF PCs, Writes
<1>2. UNCHANGED <<taskVars, queueVars, approval, envVars>>
  BY DEF RetryRead, OnlyThread
<1>3. CleanHandler(h)
  BY <1>0, CleanFacts
<1>4. pc # "idle" => CleanStage(h)'
  BY <1>0, <1>1, <1>2, <1>3, OwnStage DEF CleanStage, CleanHandler, Same
<1> QED
  BY <1>0, <1>1, <1>2, <1>4, CleanThread

\* A call that moves a job.
LEMMA CleanJob ==
    ASSUME IInv, CleanInv, NEW th \in Threads, at[th] # "idle", NEW t \in Tasks, t = T(th),
           NEW pc \in PCs, Goto(th, pc), OnlyQueue, left' \in [Tasks -> 0..MaxAttempts],
           \A u \in Tasks \ {t} : left'[u] = left[u],
           NEW phase \in Phases \ {"delivered"}, SetJob(t, phase),
           phase \in {"waiting", "failed"} => task[t] = "pending",
           phase = "cancelled" => task[t] \in {"pending", "cancelled"},
           job[t] # "cancelled",
           th = Worker \/ job[t] # "delivered",
           pc # "idle" => CleanStage(th)'
    PROVE  CleanInv'
<1>1. Moved(th, pc) /\ mode' = mode
  BY ThreadFacts, GotoFacts DEF OnlyQueue, envVars
<1>2. /\ job'[t] = phase /\ \A u \in Tasks \ {t} : job'[u] = job[u]
      /\ UNCHANGED <<task, decision, runs, approval>>
  BY DEF SetJob, IInv, TypeOK, OnlyQueue, taskVars
<1>3. \A u \in Tasks \ {t} : Same(u)
  BY <1>2 DEF Same
<1>4. CleanTask(t)'
  <2>1. CleanTask(t)
    BY DEF CleanInv
  <2> QED
    BY <1>2, <2>1 DEF CleanTask, LastApproval
<1>5. ASSUME NEW x \in Threads \ {th}, at[x] # "idle", T(x) = t PROVE CleanStage(x)'
  <2>1. at'[x] = at[x] /\ on'[x] = on[x] /\ CleanStage(x)
    BY <1>1, <1>5 DEF Moved, CleanInv
  <2>2. x # Worker
    BY <1>5, CleanFacts DEF CleanWorker
  <2>3. CleanHandler(x) /\ (at[x] \in {"execute", "succeed", "abort"} => task[t] = "running")
    BY <1>5, <2>2, CleanFacts
  <2>4. CleanHandler(x)'
    BY <1>2, <1>5, <2>1, <2>3 DEF CleanHandler, T, N
  <2> QED
    BY <1>2, <1>5, <2>1, <2>2, <2>3, <2>4 DEF CleanStage, T
<1>6. CleanStage(th)'
  BY <1>1 DEF CleanStage, Moved
<1> QED
  BY <1>1, <1>3, <1>4, <1>5, <1>6, CleanStep

LEMMA EnqueueClean ==
    ASSUME IInv, CleanInv, NEW h \in Handlers, Enqueue(h)
    PROVE  CleanInv'
<1>0. at[h] = "enqueue" /\ at[h] # "idle" /\ h \in Threads /\ h # Worker /\ OnlyQueue
      /\ Goto(h, "idle") /\ "idle" \in PCs
  BY Roles DEF Enqueue, PCs
<1>1. PICK t \in Tasks : t = T(h)
  BY <1>0, ThreadFacts
<1>2. task[t] = "pending" /\ job[t] = "absent"
  BY <1>0, <1>1, CleanFacts, ThreadFacts DEF CleanHandler, Stage, HandlerAtWork
<1>3. SetJob(t, "waiting") /\ left' = [left EXCEPT ![t] = MaxAttempts]
  BY <1>1 DEF Enqueue, T
<1>4. left' \in [Tasks -> 0..MaxAttempts] /\ \A u \in Tasks \ {t} : left'[u] = left[u]
  <2>1. MaxAttempts \in 0..MaxAttempts
    BY RuntimeAssumption
  <2> QED
    BY <1>3, <2>1 DEF IInv, TypeOK
<1> QED
  BY <1>0, <1>1, <1>2, <1>3, <1>4, CleanJob DEF Phases

LEMMA QueueCompleteClean == IInv /\ CleanInv /\ QueueComplete => CleanInv'
<1> SUFFICES ASSUME IInv, CleanInv, QueueComplete PROVE CleanInv'
  OBVIOUS
<1>0. at[Worker] # "idle" /\ Worker \in Threads /\ OnlyQueue /\ left' = left /\ "idle" \in PCs
  BY Roles DEF QueueComplete, PCs
<1>1. PICK t \in Tasks : t = T(Worker)
  BY <1>0, ThreadFacts
<1>2. job[t] = "delivered"
  BY <1>0, <1>1, CleanFacts DEF CleanWorker
<1>3. SetJob(t, "completed") /\ Goto(Worker, "idle")
  BY <1>1, <1>2 DEF QueueComplete, T
<1>4. left' \in [Tasks -> 0..MaxAttempts] /\ \A u \in Tasks \ {t} : left'[u] = left[u]
  BY <1>0 DEF IInv, TypeOK
<1> QED
  BY <1>0, <1>1, <1>2, <1>3, <1>4, CleanJob DEF Phases

LEMMA QueueFailClean == IInv /\ CleanInv /\ QueueFail => CleanInv'
<1> SUFFICES ASSUME IInv, CleanInv, QueueFail PROVE CleanInv'
  OBVIOUS
<1>0. /\ at[Worker] = "fail" /\ at[Worker] # "idle" /\ Worker \in Threads /\ OnlyQueue
      /\ left' = left /\ "idle" \in PCs /\ Goto(Worker, "idle")
  BY Roles DEF QueueFail, PCs
<1>1. PICK t \in Tasks : t = T(Worker)
  BY <1>0, ThreadFacts
<1>2. job[t] = "delivered" /\ task[t] = "pending"
  BY <1>0, <1>1, CleanFacts DEF CleanWorker
<1>3. SetJob(t, GivenBack(t)) /\ GivenBack(t) \in {"waiting", "failed"}
  BY <1>1, <1>2 DEF QueueFail, T, GivenBack
<1>4. left' \in [Tasks -> 0..MaxAttempts] /\ \A u \in Tasks \ {t} : left'[u] = left[u]
  BY <1>0 DEF IInv, TypeOK
<1> QED
  BY <1>0, <1>1, <1>2, <1>3, <1>4, CleanJob DEF Phases

LEMMA CancelJobClean ==
    ASSUME IInv, CleanInv, NEW h \in Handlers, CancelJob(h)
    PROVE  CleanInv'
<1>0. at[h] = "cancelJob" /\ at[h] # "idle" /\ h \in Threads /\ h # Worker /\ OnlyQueue
      /\ left' = left
  BY Roles DEF CancelJob
<1>1. PICK t \in Tasks : t = T(h)
  BY <1>0, ThreadFacts
<1>2. CASE job[t] = "waiting"
  <2>1. SetJob(t, "cancelled") /\ Goto(h, "cancelTask") /\ "cancelTask" \in PCs
    BY <1>1, <1>2 DEF CancelJob, T, PCs, Writes
  <2>2. task[t] = "pending"
    BY <1>2 DEF CleanInv, CleanTask
  <2>3. at'[h] = "cancelTask" /\ on'[h] = on[h]
    BY <1>0, <2>1, ThreadFacts, GotoFacts DEF Moved
  <2>4. job'[t] = "cancelled" /\ task' = task
    BY <1>0, <2>1 DEF SetJob, IInv, TypeOK, OnlyQueue, taskVars
  <2>5. CleanStage(h)'
    BY <1>0, <1>1, <2>2, <2>3, <2>4 DEF CleanStage, CleanHandler, T, N
  <2>6. left' \in [Tasks -> 0..MaxAttempts] /\ \A u \in Tasks \ {t} : left'[u] = left[u]
    BY <1>0 DEF IInv, TypeOK
  <2> QED
    BY <1>0, <1>1, <1>2, <2>1, <2>2, <2>5, <2>6, CleanJob DEF Phases
<1>3. CASE job[t] # "waiting"
  <2>1. UNCHANGED <<taskVars, queueVars, approval, envVars>> /\ Goto(h, "idle") /\ "idle" \in PCs
    BY <1>1, <1>3 DEF CancelJob, T, OnlyQueue, queueVars, PCs
  <2> QED
    BY <1>0, <2>1, CleanThread
<1> QED
  BY <1>2, <1>3

LEMMA RetryFailedClean ==
    ASSUME IInv, CleanInv, NEW h \in Handlers, RetryFailed(h)
    PROVE  CleanInv'
<1>0. at[h] = "retry" /\ at[h] # "idle" /\ h \in Threads /\ h # Worker /\ OnlyQueue
      /\ Goto(h, "idle") /\ "idle" \in PCs
  BY Roles DEF RetryFailed, PCs
<1>1. PICK t \in Tasks : t = T(h)
  BY <1>0, ThreadFacts
<1>2. CASE job[t] = "failed"
  <2>1. task[t] = "pending"
    BY <1>0, <1>1, <1>2, CleanFacts DEF CleanHandler
  <2>2. PICK n \in 1..MaxAttempts : left' = [left EXCEPT ![t] = n] /\ SetJob(t, "waiting")
    BY <1>1, <1>2 DEF RetryFailed, T
  <2>3. left' \in [Tasks -> 0..MaxAttempts] /\ \A u \in Tasks \ {t} : left'[u] = left[u]
    BY <2>2, RuntimeAssumption DEF IInv, TypeOK
  <2> QED
    BY <1>0, <1>1, <1>2, <2>1, <2>2, <2>3, CleanJob DEF Phases
<1>3. CASE job[t] # "failed"
  <2>1. UNCHANGED <<taskVars, queueVars, approval, envVars>>
    BY <1>1, <1>3 DEF RetryFailed, T, OnlyQueue, queueVars
  <2> QED
    BY <1>0, <2>1, CleanThread
<1> QED
  BY <1>2, <1>3

\* Nobody else is told anything by a task that starts or ends.
LEMMA CleanOthers ==
    ASSUME IInv, CleanInv, NEW th \in Threads, at[th] # "idle",
           NEW x \in Threads \ {th}, at[x] # "idle", T(x) = T(th),
           at'[x] = at[x], on'[x] = on[x], UNCHANGED job,
           \/ at[th] \in {"markRunning", "succeed", "abort"}
           \/ th = Worker /\ at[th] \in {"deny", "markWaiting"}
    PROVE  CleanStage(x)'
<1> DEFINE t == T(th)
<1>0. t \in Tasks /\ Len(approval[t]) \in Nat /\ (approval[t] = <<>> => Len(approval[t]) = 0)
  BY ThreadFacts DEF IInv, TypeOK, Approvals
<1>1. CASE th = Worker
  <2>1. job[t] = "delivered" /\ approval[t] = <<>>
    BY <1>1, CleanFacts, ThreadFacts
    DEF CleanWorker, Stage, WorkerAtWork, First, Starting
  <2>2. HandlerAtWork(x) /\ CleanHandler(x) /\ x # Worker
    BY <1>1, CleanFacts, ThreadFacts DEF Stage
  <2>3. at[x] \notin Starting /\ at[x] # "enqueue"
    BY <1>0, <2>1, <2>2 DEF HandlerAtWork
  <2> QED
    BY <2>1, <2>2, <2>3 DEF CleanStage, CleanHandler, Starting, T, N
<1>2. CASE th # Worker
  <2>1. at[th] \in Starting
    BY <1>2 DEF Starting
  <2>2. at[x] \notin Starting /\ (x = Worker => at[x] \notin First)
    BY <2>1, SoleStarter
  <2>3. task[t] \in {"waiting", "running"}
    BY <1>2, CleanFacts DEF CleanHandler
  <2>4. CASE x = Worker
    <3>1. CleanWorker /\ WorkerAtWork
      BY <2>4, CleanFacts, ThreadFacts DEF Stage
    <3>2. at[x] = "complete" /\ job[t] = "delivered"
      BY <2>2, <2>3, <2>4, <3>1 DEF CleanWorker, WorkerAtWork
    <3> QED
      BY <2>4, <3>2 DEF CleanStage, CleanWorker, T
  <2>5. CASE x # Worker
    <3>1. CleanHandler(x)
      BY <2>5, CleanFacts
    <3>2. /\ at[x] # "enqueue" /\ ~(at[x] = "cancelRead" /\ job[t] = "cancelled")
          /\ ~(at[x] = "cancelTask" /\ N(x) = 0)
          /\ ~(at[x] \in {"retryRead", "retry"} /\ job[t] = "failed")
      BY <2>3, <3>1 DEF CleanHandler
    <3> QED
      BY <2>2, <2>5, <3>2 DEF CleanStage, CleanHandler, Starting, T, N
  <2> QED
    BY <2>4, <2>5
<1> QED
  BY <1>1, <1>2

\* A call that moves a task, which waits for no job and no request any more.
LEMMA CleanTaskStep ==
    ASSUME IInv, CleanInv, NEW th \in Threads, at[th] # "idle", NEW t \in Tasks, t = T(th),
           NEW pc \in PCs, Goto(th, pc), OnlyTask,
           NEW status, SetTask(t, status),
           job[t] # "waiting",
           approval[t] # <<>> => LastApproval(t) \notin {"pending", "approved", "expired"},
           status = "cancelled" => runs[t] = 0,
           th = Worker => pc # "idle",
           \A x \in Threads \ {th} : at[x] # "idle" /\ T(x) = t => CleanStage(x)',
           pc # "idle" => CleanStage(th)'
    PROVE  CleanInv'
<1>1. Moved(th, pc) /\ mode' = mode
  BY ThreadFacts, GotoFacts DEF OnlyTask, envVars
<1>2. /\ task'[t] = status /\ \A u \in Tasks \ {t} : task'[u] = task[u]
      /\ UNCHANGED <<job, left, decision, runs, approval>>
  BY DEF SetTask, IInv, TypeOK, Statuses, OnlyTask, queueVars
<1>3. \A u \in Tasks \ {t} : Same(u)
  BY <1>2 DEF Same
<1>4. CleanTask(t)'
  <2>1. CleanTask(t)
    BY DEF CleanInv
  <2>2. at[Worker] # "idle" /\ T(Worker) = t => at'[Worker] # "idle" /\ T(Worker)' = t
    <3>1. CASE th = Worker
      BY <1>1, <3>1 DEF Moved, T
    <3>2. CASE th # Worker
      BY <1>1, <3>2, Roles DEF Moved, T
    <3> QED
      BY <3>1, <3>2
  <2> QED
    BY <1>1, <1>2, <2>1, <2>2 DEF CleanTask, LastApproval
<1>6. CleanStage(th)'
  BY <1>1 DEF CleanStage, Moved
<1> QED
  BY <1>1, <1>3, <1>4, <1>6, CleanStep

\* The task of a thread that has passed its approvals.
LEMMA PassedApprovals ==
    ASSUME IInv, CleanInv, NEW th \in Threads, at[th] # "idle", NEW t \in Tasks, t = T(th),
           at[th] \in Starting \/ (th = Worker /\ at[th] \in First)
    PROVE  /\ approval[t] # <<>> => LastApproval(t) = "consumed"
           /\ th = Worker => job[t] = "delivered"
<1>1. th = Worker => approval[t] = <<>> /\ job[t] = "delivered"
  BY CleanFacts, ThreadFacts DEF Stage, WorkerAtWork, CleanWorker
<1>2. th # Worker => LastApproval(t) = "consumed"
  BY ThreadFacts DEF Stage, HandlerAtWork, LastApproval
<1> QED
  BY <1>1, <1>2

LEMMA DenyTaskClean ==
    ASSUME IInv, CleanInv, NEW th \in Threads, DenyTask(th)
    PROVE  CleanInv'
<1>0. at[th] = "deny" /\ at[th] # "idle" /\ OnlyTask
  BY DEF DenyTask
<1>1. PICK t \in Tasks : t = T(th)
  BY <1>0, ThreadFacts
<1>2. th = Worker
  BY <1>0, ThreadFacts DEF Stage, HandlerAtWork, Requests, Carrying, Starting
<1>3. task[t] = "pending" /\ job[t] = "delivered"
  BY <1>0, <1>1, <1>2, CleanFacts DEF CleanWorker
<1>4. SetTask(t, "failed") /\ Goto(th, "complete") /\ "complete" \in PCs \ {"idle"}
  BY <1>1, <1>2, <1>3, RuntimeAssumption, Transitions DEF DenyTask, T, Return, PCs, Writes
<1>5. at'[th] = "complete" /\ on'[th] = on[th]
      /\ \A x \in Threads \ {th} : at'[x] = at[x] /\ on'[x] = on[x]
  BY <1>0, <1>4, ThreadFacts, GotoFacts DEF Moved
<1>6. UNCHANGED job
  BY <1>0 DEF OnlyTask, queueVars
<1>7. CleanStage(th)'
  BY <1>1, <1>2, <1>3, <1>5, <1>6 DEF CleanStage, CleanWorker, T
<1>8. \A x \in Threads \ {th} : at[x] # "idle" /\ T(x) = t => CleanStage(x)'
  BY <1>0, <1>1, <1>2, <1>5, <1>6, CleanOthers
<1>9. approval[t] # <<>> => LastApproval(t) = "consumed"
  BY <1>0, <1>1, <1>2, PassedApprovals DEF First
<1> QED
  BY <1>0, <1>1, <1>3, <1>4, <1>7, <1>8, <1>9, CleanTaskStep

LEMMA MarkWaitingClean ==
    ASSUME IInv, CleanInv, NEW th \in Threads, MarkWaiting(th)
    PROVE  CleanInv'
<1>0. at[th] = "markWaiting" /\ at[th] # "idle" /\ OnlyTask
  BY DEF MarkWaiting
<1>1. PICK t \in Tasks : t = T(th)
  BY <1>0, ThreadFacts
<1>2. th = Worker /\ N(th) = 0
  BY <1>0, ThreadFacts DEF Stage, HandlerAtWork, WorkerAtWork, Requests, Carrying, Starting
<1>3. task[t] = "pending" /\ job[t] = "delivered"
  BY <1>0, <1>1, <1>2, CleanFacts DEF CleanWorker
<1>4. MayBecome(t, "waiting")
  BY <1>3 DEF MayBecome, Allowed
<1>5. SetTask(t, "waiting") /\ Goto(th, "find") /\ "find" \in PCs \ {"idle"}
  BY <1>1, <1>2, <1>4 DEF MarkWaiting, T, N, AfterWaiting, PCs
<1>6. /\ at'[th] = "find" /\ on'[th] = on[th] /\ task'[t] = "waiting" /\ UNCHANGED job
      /\ \A x \in Threads \ {th} : at'[x] = at[x] /\ on'[x] = on[x]
  BY <1>0, <1>5, ThreadFacts, GotoFacts
  DEF Moved, SetTask, IInv, TypeOK, Statuses, OnlyTask, queueVars
<1>7. CleanStage(th)'
  BY <1>1, <1>2, <1>3, <1>6 DEF CleanStage, CleanWorker, T
<1>8. \A x \in Threads \ {th} : at[x] # "idle" /\ T(x) = t => CleanStage(x)'
  BY <1>0, <1>1, <1>2, <1>6, CleanOthers
<1>9. approval[t] # <<>> => LastApproval(t) = "consumed"
  BY <1>0, <1>1, <1>2, PassedApprovals DEF First
<1> QED
  BY <1>0, <1>1, <1>3, <1>5, <1>7, <1>8, <1>9, CleanTaskStep

LEMMA MarkRunningClean ==
    ASSUME IInv, CleanInv, NEW th \in Threads, MarkRunning(th)
    PROVE  CleanInv'
<1>0. at[th] = "markRunning" /\ at[th] # "idle" /\ OnlyTask /\ at[th] \in Starting
  BY DEF MarkRunning, Starting
<1>1. PICK t \in Tasks : t = T(th)
  BY <1>0, ThreadFacts
<1>2. /\ th = Worker => task[t] = "pending" /\ job[t] = "delivered"
      /\ th # Worker => task[t] = "waiting"
  BY <1>0, <1>1, CleanFacts DEF CleanWorker, CleanHandler
<1>3. MayBecome(t, "running") /\ job[t] # "waiting"
  BY <1>2 DEF MayBecome, Allowed, CleanInv, CleanTask
<1>4. SetTask(t, "running") /\ Goto(th, "execute") /\ "execute" \in PCs \ {"idle"}
  BY <1>1, <1>3 DEF MarkRunning, T, PCs
<1>5. /\ at'[th] = "execute" /\ on'[th] = on[th] /\ task'[t] = "running" /\ UNCHANGED job
      /\ \A x \in Threads \ {th} : at'[x] = at[x] /\ on'[x] = on[x]
  BY <1>0, <1>4, ThreadFacts, GotoFacts
  DEF Moved, SetTask, IInv, TypeOK, Statuses, OnlyTask, queueVars
<1>6. CleanStage(th)'
  BY <1>1, <1>2, <1>5 DEF CleanStage, CleanWorker, CleanHandler, T
<1>7. \A x \in Threads \ {th} : at[x] # "idle" /\ T(x) = t => CleanStage(x)'
  BY <1>0, <1>1, <1>5, CleanOthers
<1>8. approval[t] # <<>> => LastApproval(t) = "consumed"
  BY <1>0, <1>1, PassedApprovals
<1> QED
  BY <1>0, <1>1, <1>3, <1>4, <1>6, <1>7, <1>8, CleanTaskStep

\* The end of a run.
LEMMA EndOfRunClean ==
    ASSUME IInv, CleanInv, NEW th \in Threads, RecordSuccess(th) \/ RecordFailure(th)
    PROVE  CleanInv'
<1>0. at[th] \in {"succeed", "abort"} /\ at[th] # "idle" /\ OnlyTask /\ at[th] \in Starting
  BY DEF RecordSuccess, RecordFailure, Starting
<1>1. PICK t \in Tasks : t = T(th)
  BY <1>0, ThreadFacts
<1>2. task[t] = "running" /\ (th = Worker => job[t] = "delivered") /\ job[t] # "waiting"
      /\ (approval[t] # <<>> => LastApproval(t) = "consumed")
  BY <1>0, <1>1, CleanFacts, PassedApprovals DEF CleanInv, CleanTask
<1>3. MayBecome(t, "succeeded") /\ MayBecome(t, "failed")
  BY <1>2, RuntimeAssumption, Transitions
<1>4. PICK status \in {"succeeded", "failed"} : SetTask(t, status) /\ Goto(th, Return(th))
  BY <1>1, <1>3 DEF RecordSuccess, RecordFailure, T
<1>5. Return(th) \in PCs /\ Return(th) \in {"idle", "complete"}
      /\ (th = Worker => Return(th) = "complete") /\ (th # Worker => Return(th) = "idle")
  BY DEF Return, PCs, Writes
<1>6. /\ at'[th] = Return(th) /\ (Return(th) # "idle" => on'[th] = on[th]) /\ UNCHANGED job
      /\ \A x \in Threads \ {th} : at'[x] = at[x] /\ on'[x] = on[x]
  BY <1>0, <1>4, <1>5, ThreadFacts, GotoFacts DEF Moved, OnlyTask, queueVars
<1>7. Return(th) # "idle" => CleanStage(th)'
  BY <1>1, <1>2, <1>5, <1>6 DEF CleanStage, CleanWorker, T
<1>8. \A x \in Threads \ {th} : at[x] # "idle" /\ T(x) = t => CleanStage(x)'
  BY <1>0, <1>1, <1>6, CleanOthers
<1> QED
  BY <1>0, <1>1, <1>2, <1>4, <1>5, <1>7, <1>8, CleanTaskStep

LEMMA CancelTaskClean ==
    ASSUME IInv, CleanInv, NEW h \in Handlers, CancelTask(h)
    PROVE  CleanInv'
<1>0. /\ at[h] = "cancelTask" /\ at[h] # "idle" /\ OnlyTask /\ h \in Threads /\ h # Worker
      /\ Goto(h, "idle") /\ "idle" \in PCs
  BY Roles DEF CancelTask, PCs
<1>1. PICK t \in Tasks : t = T(h)
  BY <1>0, ThreadFacts
<1>2. CASE ~MayBecome(t, "cancelled")
  <2>1. UNCHANGED <<taskVars, queueVars, approval, envVars>>
    BY <1>0, <1>1, <1>2, RefusedOnly DEF CancelTask, T
  <2> QED
    BY <1>0, <2>1, CleanThread
<1>3. CASE MayBecome(t, "cancelled")
  <2>1. SetTask(t, "cancelled")
    BY <1>1, <1>3 DEF CancelTask, T
  <2>2. /\ task[t] # Null /\ TaskOK(t) /\ ApprovalOK(t) /\ HandlerAtWork(h) /\ CleanHandler(h)
        /\ N(h) \in 0..MaxApprovals
    BY <1>0, <1>1, ThreadFacts, CleanFacts DEF Stage, AtWork
  <2>3. task[t] \in {"pending", "waiting", "running", "cancelled"}
    BY <1>3, <2>2, Transitions
  <2>4. N(h) # 0 => N(h) > 0
    BY <2>2, RuntimeAssumption
  <2>5. CleanTask(t)
    BY DEF CleanInv
  <2>6. N(h) # 0 => /\ LastApproval(t) = "rejected"
                    /\ approval[t] # <<>>
    <3> SUFFICES ASSUME N(h) # 0 PROVE LastApproval(t) = "rejected" /\ approval[t] # <<>>
      OBVIOUS
    <3>1. N(h) = Len(approval[t]) /\ approval[t][N(h)] = "rejected"
      BY <1>0, <1>1, <2>2, <2>4 DEF HandlerAtWork
    <3> QED
      BY <3>1 DEF LastApproval
  <2>7. N(h) = 0 => job[t] = "cancelled" /\ task[t] \in {"pending", "cancelled"}
    BY <1>0, <1>1, <2>2 DEF CleanHandler
  <2>8. N(h) # 0 => task[t] \in {"waiting", "cancelled"} /\ ~Consented(t)
    BY <2>2, <2>3, <2>6 DEF TaskOK, ApprovalOK, Consented
  <2>9. runs[t] = 0
    <3>1. CASE task[t] = "cancelled"
      BY <2>5, <3>1 DEF CleanTask
    <3>2. CASE task[t] = "pending"
      BY <2>2, <3>2 DEF TaskOK, Started, Terminal
    <3>3. CASE task[t] = "waiting"
      BY <2>2, <3>3 DEF TaskOK, Started, Terminal
    <3> QED
      BY <2>7, <2>8, <3>1, <3>2, <3>3
  <2>10. job[t] # "waiting"
    <3>1. CASE N(h) = 0
      BY <2>7, <3>1
    <3>2. CASE N(h) # 0
      BY <2>2, <2>5, <2>6, <3>2 DEF CleanTask, ApprovalOK
    <3> QED
      BY <3>1, <3>2
  <2>11. approval[t] # <<>> => LastApproval(t) \notin {"pending", "approved", "expired"}
    BY <2>2, <2>5, <2>6, <2>7 DEF CleanTask, ApprovalOK
  <2>12. /\ task'[t] = "cancelled" /\ UNCHANGED job
         /\ \A x \in Threads \ {h} : at'[x] = at[x] /\ on'[x] = on[x]
    BY <1>0, <2>1, ThreadFacts, GotoFacts
    DEF Moved, SetTask, IInv, TypeOK, Statuses, OnlyTask, queueVars
  <2>13. ASSUME NEW x \in Threads \ {h}, at[x] # "idle", T(x) = t PROVE CleanStage(x)'
    <3>1. at'[x] = at[x] /\ on'[x] = on[x] /\ T(x)' = t /\ N(x)' = N(x)
      BY <2>12, <2>13 DEF T, N
    <3>2. at[x] \in {"execute", "succeed", "abort"} => task[t] = "running"
      BY <2>13, CleanFacts
    <3>3. at[x] \notin {"execute", "succeed", "abort"}
      BY <2>7, <2>8, <3>2
    <3>4. CASE x = Worker
      <4>1. CleanWorker /\ WorkerAtWork
        BY <2>13, <3>4, CleanFacts, ThreadFacts DEF Stage
      <4>2. N(h) # 0 /\ approval[t] # <<>>
        BY <2>6, <2>7, <2>13, <3>4, <4>1 DEF CleanWorker
      <4>3. at[x] \notin First \cup Starting
        BY <2>13, <3>4, <4>1, <4>2 DEF WorkerAtWork
      <4>4. at[x] \notin {"inspect", "fail"}
        BY <2>8, <2>13, <3>4, <4>1, <4>2 DEF CleanWorker
      <4>5. at[x] = "complete"
        BY <3>4, <4>1, <4>3, <4>4 DEF WorkerAtWork, CleanWorker
      <4> QED
        BY <2>12, <2>13, <3>1, <3>4, <4>1, <4>5 DEF CleanStage, CleanWorker
    <3>5. CASE x # Worker
      <4>1. CleanHandler(x) /\ HandlerAtWork(x)
        BY <2>13, <3>5, CleanFacts, ThreadFacts DEF Stage
      <4>2. at[x] # "enqueue"
        <5>1. CASE N(h) = 0
          BY <2>7, <2>13, <4>1, <5>1 DEF HandlerAtWork
        <5>2. CASE N(h) # 0
          BY <2>8, <2>13, <4>1, <5>2 DEF CleanHandler
        <5> QED
          BY <5>1, <5>2
      <4>3. at[x] \notin {"check", "markRunning"}
        <5>1. CASE N(h) = 0
          BY <2>7, <2>13, <4>1, <5>1 DEF CleanHandler
        <5>2. CASE N(h) # 0
          BY <2>6, <2>13, <4>1, <5>2 DEF HandlerAtWork, Starting, LastApproval
        <5> QED
          BY <5>1, <5>2
      <4>4. ~(at[x] \in {"retryRead", "retry"} /\ job[t] = "failed")
        <5>1. CASE N(h) = 0
          BY <2>7, <5>1
        <5>2. CASE N(h) # 0
          BY <2>8, <2>13, <4>1, <5>2 DEF CleanHandler
        <5> QED
          BY <5>1, <5>2
      <4>5. CleanHandler(x)'
        BY <2>12, <2>13, <3>1, <4>1, <4>2, <4>3, <4>4 DEF CleanHandler
      <4> QED
        BY <3>1, <3>3, <3>5, <4>5 DEF CleanStage
    <3> QED
      BY <3>4, <3>5
  <2> QED
    BY <1>0, <1>1, <2>1, <2>9, <2>10, <2>11, <2>13, CleanTaskStep
<1> QED
  BY <1>2, <1>3

\* A call that moves a request, or runs the command: its task and job stay.
LEMMA CleanRequest ==
    ASSUME IInv, CleanInv, NEW th \in Threads, at[th] # "idle", NEW t \in Tasks, t = T(th),
           NEW pc \in PCs \ {"idle"}, Goto(th, pc),
           UNCHANGED <<task, queueVars, envVars>>,
           \A u \in Tasks \ {t} : approval'[u] = approval[u] /\ runs'[u] = runs[u],
           task[t] = "waiting" \/ approval'[t] = approval[t],
           runs'[t] = runs[t] \/ task[t] # "cancelled",
           decision' = decision,
           CleanStage(th)'
    PROVE  CleanInv'
<1>1. Moved(th, pc) /\ mode' = mode
  BY ThreadFacts, GotoFacts DEF envVars
<1>2. \A u \in Tasks \ {t} : Same(u)
  BY DEF Same, queueVars
<1>3. CleanTask(t)'
  <2>1. CleanTask(t)
    BY DEF CleanInv
  <2>2. at[Worker] # "idle" /\ T(Worker) = t => at'[Worker] # "idle" /\ T(Worker)' = t
    <3>1. CASE th = Worker
      BY <1>1, <3>1 DEF Moved, T
    <3>2. CASE th # Worker
      BY <1>1, <3>2, Roles DEF Moved, T
    <3> QED
      BY <3>1, <3>2
  <2> QED
    BY <1>1, <2>1, <2>2 DEF CleanTask, LastApproval, queueVars
<1>4. ASSUME NEW x \in Threads \ {th}, at[x] # "idle", T(x) = t PROVE CleanStage(x)'
  BY <1>1, <1>4, SameClean DEF Moved, CleanInv, queueVars
<1> QED
  BY <1>1, <1>2, <1>3, <1>4, CleanStep

LEMMA DecisionClean ==
    ASSUME IInv, CleanInv, NEW h \in Handlers, Approve(h) \/ Reject(h)
    PROVE  CleanInv'
<1>0. at[h] \in {"approve", "reject"} /\ at[h] # "idle" /\ OnlyApproval
      /\ h \in Threads /\ h # Worker
  BY Roles DEF Approve, Reject
<1>1. PICK t \in Tasks : t = T(h)
  BY <1>0, ThreadFacts
<1>2. PICK n \in 1..Len(approval[t]) : n = N(h)
  BY <1>0, <1>1, ThreadFacts DEF Stage, HandlerAtWork
<1>3. CASE approval[t][n] = "pending"
  <2>1. PICK status \in ApprovalStatuses, pc \in {"register", "cancelTask"} :
             SetApproval(t, n, status) /\ Goto(h, pc)
    BY <1>1, <1>2, <1>3 DEF Approve, Reject, T, N, ApprovalStatuses
  <2>2. pc \in PCs \ {"idle"}
    BY DEF PCs, Writes
  <2>3. task[t] = "waiting"
    BY <1>3, LastOnly DEF CleanInv, CleanTask
  <2>4. \A u \in Tasks \ {t} : approval'[u] = approval[u]
    BY <2>1, SetApprovalFacts DEF IInv
  <2>5. at'[h] = pc /\ on'[h] = on[h]
    BY <1>0, <2>1, <2>2, ThreadFacts, GotoFacts DEF Moved
  <2>6. CleanStage(h)'
    BY <1>0, <1>2, <2>5 DEF CleanStage, CleanHandler, T, N
  <2> QED
    BY <1>0, <1>1, <2>1, <2>2, <2>3, <2>4, <2>6, CleanRequest DEF OnlyApproval, taskVars
<1>4. CASE approval[t][n] # "pending"
  <2>1. UNCHANGED approval /\ Goto(h, "idle") /\ "idle" \in PCs
    BY <1>1, <1>2, <1>4 DEF Approve, Reject, T, N, PCs
  <2> QED
    BY <1>0, <2>1, OnlyApprovalSame, CleanThread
<1> QED
  BY <1>3, <1>4

LEMMA ConsumeApprovalClean ==
    ASSUME IInv, CleanInv, NEW th \in Threads, ConsumeApproval(th)
    PROVE  CleanInv'
<1>0. at[th] = "consume" /\ at[th] # "idle" /\ OnlyApproval
  BY DEF ConsumeApproval
<1>1. PICK t \in Tasks : t = T(th)
  BY <1>0, ThreadFacts
<1>2. th # Worker /\ th \in Handlers
  BY <1>0, ThreadFacts, Roles DEF Stage, WorkerAtWork, First, Starting
<1>3. PICK n \in 1..Len(approval[t]) : n = N(th)
  BY <1>0, <1>1, <1>2, ThreadFacts DEF Stage, HandlerAtWork, Carrying
<1>4. task[t] = "waiting"
  BY <1>0, <1>1, <1>2, CarriedWaits DEF Carrying
<1>5. CASE approval[t][n] = "approved"
  <2>1. SetApproval(t, n, "consumed") /\ Goto(th, "check") /\ "check" \in PCs \ {"idle"}
    BY <1>1, <1>3, <1>5 DEF ConsumeApproval, T, N, PCs
  <2>2. \A u \in Tasks \ {t} : approval'[u] = approval[u]
    BY <2>1, SetApprovalFacts DEF IInv, ApprovalStatuses
  <2>3. at'[th] = "check" /\ on'[th] = on[th] /\ task' = task
    BY <1>0, <2>1, ThreadFacts, GotoFacts DEF Moved, OnlyApproval, taskVars
  <2>4. CleanStage(th)'
    BY <1>1, <1>2, <1>4, <2>3 DEF CleanStage, CleanHandler, T, N
  <2> QED
    BY <1>0, <1>1, <1>4, <2>1, <2>2, <2>4, CleanRequest DEF OnlyApproval, taskVars
<1>6. CASE approval[t][n] # "approved"
  <2>1. UNCHANGED approval /\ Goto(th, "find") /\ "find" \in PCs \ {"idle"}
    BY <1>1, <1>3, <1>6 DEF ConsumeApproval, T, N, PCs
  <2>2. at'[th] = "find" /\ on'[th] = on[th]
    BY <1>0, <2>1, ThreadFacts, GotoFacts DEF Moved
  <2>3. CleanStage(th)'
    BY <1>2, <2>2 DEF CleanStage, CleanHandler
  <2> QED
    BY <1>0, <2>1, <2>3, OnlyApprovalSame, CleanThread
<1> QED
  BY <1>5, <1>6

LEMMA CreateApprovalClean ==
    ASSUME IInv, CleanInv, NEW th \in Threads, CreateApproval(th)
    PROVE  CleanInv'
<1>0. at[th] = "create" /\ at[th] # "idle" /\ OnlyApproval
  BY DEF CreateApproval
<1>1. PICK t \in Tasks : t = T(th)
  BY <1>0, ThreadFacts
<1>2. /\ Len(approval[t]) < MaxApprovals
      /\ approval' = [approval EXCEPT ![t] = Append(@, "pending")]
      /\ Goto(th, AfterRequest(th))
  BY <1>1 DEF CreateApproval, T
<1>3. \A u \in Tasks \ {t} : approval'[u] = approval[u]
  BY <1>2, AddApprovalFacts DEF IInv
<1>4. th = Worker => N(th) = 0 /\ CleanWorker
  BY <1>0, ThreadFacts, CleanFacts DEF Stage, WorkerAtWork
<1>5. th # Worker => N(th) # 0
  BY <1>0, ThreadFacts DEF Stage, HandlerAtWork, Carrying
<1>6. task[t] = "waiting"
  <2>1. CASE th = Worker
    BY <1>0, <1>1, <1>4, <2>1 DEF CleanWorker
  <2>2. CASE th # Worker
    BY <1>0, <1>1, <2>2, CarriedWaits, Roles DEF Carrying
  <2> QED
    BY <2>1, <2>2
<1>7. /\ AfterRequest(th) \in {"complete", "require"} /\ AfterRequest(th) \in PCs \ {"idle"}
  BY <1>4, <1>5 DEF AfterRequest, Return, N, PCs, Writes
<1>8. at'[th] = AfterRequest(th) /\ on'[th] = on[th] /\ UNCHANGED <<task, job>>
  BY <1>0, <1>2, <1>7, ThreadFacts, GotoFacts DEF Moved, OnlyApproval, taskVars, queueVars
<1>9. CleanStage(th)'
  BY <1>1, <1>4, <1>6, <1>7, <1>8
  DEF CleanStage, CleanHandler, CleanWorker, T, AfterRequest, N, Return
<1> QED
  BY <1>0, <1>1, <1>2, <1>3, <1>6, <1>7, <1>9, CleanRequest DEF OnlyApproval, taskVars

LEMMA RunExecutorClean ==
    ASSUME IInv, CleanInv, NEW th \in Threads, RunExecutor(th)
    PROVE  CleanInv'
<1>0. at[th] = "execute" /\ at[th] # "idle"
  BY DEF RunExecutor
<1>1. PICK t \in Tasks : t = T(th)
  BY <1>0, ThreadFacts
<1>2. PICK pc \in {"succeed", "abort"} : Goto(th, pc)
  BY DEF RunExecutor
<1>3. UNCHANGED <<task, decision, queueVars, approval, envVars, faults>>
  BY DEF RunExecutor
<1>4. \A u \in Tasks \ {t} : runs'[u] = runs[u]
  BY <1>1 DEF RunExecutor, T, IInv, TypeOK
<1>5. task[t] = "running" /\ (th = Worker => job[t] = "delivered")
  BY <1>0, <1>1, CleanFacts DEF CleanWorker
<1>6. pc \in PCs \ {"idle"}
  BY DEF PCs, Writes
<1>7. at'[th] = pc /\ on'[th] = on[th]
  BY <1>0, <1>2, <1>6, ThreadFacts, GotoFacts DEF Moved
<1>8. CleanStage(th)'
  BY <1>1, <1>3, <1>5, <1>7 DEF CleanStage, CleanWorker, CleanHandler, T, queueVars
<1> QED
  BY <1>0, <1>1, <1>2, <1>3, <1>4, <1>5, <1>6, <1>8, CleanRequest

LEMMA ExpireClean ==
    ASSUME IInv, CleanInv, NEW t \in Tasks, NEW n \in DOMAIN approval[t], Expire(t, n)
    PROVE  CleanInv'
<1>0. /\ n \in 1..Len(approval[t]) /\ approval[t][n] \in {"pending", "approved"}
      /\ SetApproval(t, n, "expired") /\ "expired" \in ApprovalStatuses
      /\ UNCHANGED <<taskVars, queueVars, at, on, envVars, faults>>
  BY DEF Expire, IInv, TypeOK, Approvals, ApprovalStatuses
<1>1. task[t] = "waiting"
  BY <1>0, LastOnly DEF CleanInv, CleanTask
<1>2. \A u \in Tasks \ {t} : approval'[u] = approval[u]
  BY <1>0, SetApprovalFacts DEF IInv
<1>3. \A u \in Tasks : CleanTask(u)'
  BY <1>0, <1>1, <1>2
  DEF CleanInv, CleanTask, LastApproval, T, taskVars, queueVars, envVars
<1>4. \A x \in Threads : CleanStage(x)'
  BY <1>0, SameClean DEF CleanInv, taskVars, queueVars
<1> QED
  BY <1>3, <1>4 DEF CleanInv

\* A thread that starts its work.
LEMMA CleanBegin ==
    ASSUME IInv, CleanInv, NEW th \in Threads, NEW t \in Tasks, NEW n \in 0..MaxApprovals,
           NEW pc \in PCs \ {"idle"}, Begin(th, pc, t, n), UNCHANGED <<mode, approval>>,
           \A u \in Tasks \ {t} : Same(u),
           th = Worker => \A u \in Tasks : job[u] # "delivered",
           CleanTask(t)',
           \A x \in Threads \ {th} : at[x] # "idle" /\ T(x) = t => CleanStage(x)',
           CleanStage(th)'
    PROVE  CleanInv'
<1>1. /\ mode = "up" /\ at[th] = "idle"
      /\ \A x \in Threads \ {th} : at'[x] = at[x] /\ on'[x] = on[x]
  BY BeginFacts
<1>2. ASSUME NEW u \in Tasks \ {t} PROVE CleanTask(u)'
  <2>1. CleanTask(u) /\ Same(u)
    BY <1>2 DEF CleanInv
  <2>2. CASE th = Worker
    BY <1>2, <2>1, <2>2 DEF CleanTask, Same, LastApproval
  <2>3. CASE th # Worker
    <3>1. at'[Worker] = at[Worker] /\ on'[Worker] = on[Worker]
      BY <1>1, <2>3, Roles
    <3> QED
      BY <2>1, <3>1 DEF CleanTask, Same, LastApproval, T
  <2> QED
    BY <2>2, <2>3
<1>3. ASSUME NEW x \in Threads \ {th} PROVE CleanStage(x)'
  <2>1. at'[x] = at[x] /\ on'[x] = on[x] /\ CleanStage(x)
    BY <1>1, <1>3 DEF CleanInv
  <2>2. CASE at[x] = "idle"
    BY <2>1, <2>2 DEF CleanStage
  <2>3. CASE at[x] # "idle" /\ T(x) # t
    <3>1. T(x) \in Tasks \ {t}
      BY <2>3, ThreadFacts
    <3> QED
      BY <2>1, <3>1, SameClean DEF Same
  <2> QED
    BY <2>2, <2>3
<1> QED
  BY <1>2, <1>3 DEF CleanInv

LEMMA PollClean == IInv /\ CleanInv /\ Poll => CleanInv'
<1> SUFFICES ASSUME IInv, CleanInv, Poll PROVE CleanInv'
  OBVIOUS
<1>0. /\ mode = "up" /\ at[Worker] = "idle" /\ Worker \in Threads
      /\ UNCHANGED <<task, decision, runs, ours, approval, envVars, faults>>
  BY Roles DEF Poll, OnlyQueue, taskVars
<1>1. \A u \in Tasks : job[u] # "delivered"
  BY <1>0 DEF CleanInv, CleanTask
<1>2. PICK t \in Tasks : /\ job[t] = "waiting"
                         /\ job' = [k \in Tasks |-> IF k = t THEN "delivered" ELSE job[k]]
                         /\ left' = [left EXCEPT ![t] = @ - 1]
                         /\ Begin(Worker, "inspect", t, 0)
  <2>1. Expirable = {}
    BY <1>1 DEF Expirable
  <2> QED
    BY <2>1 DEF Poll
<1>3. /\ job'[t] = "delivered" /\ \A u \in Tasks \ {t} : job'[u] = job[u] /\ left'[u] = left[u]
  BY <1>2 DEF IInv, TypeOK
<1>4. 0 \in 0..MaxApprovals /\ "inspect" \in PCs \ {"idle"}
  BY RuntimeAssumption DEF PCs
<1>5. /\ at'[Worker] = "inspect" /\ T(Worker)' = t
      /\ \A x \in Threads \ {Worker} : at'[x] = at[x] /\ on'[x] = on[x]
  BY <1>0, <1>2, <1>4, BeginFacts
<1>6. task[t] = "pending" /\ CleanTask(t) /\ TaskOK(t)
  BY <1>2 DEF CleanInv, CleanTask, IInv, TasksOK
<1>7. \A u \in Tasks \ {t} : Same(u)
  BY <1>0, <1>3 DEF Same
<1>8. CleanTask(t)'
  BY <1>0, <1>3, <1>5, <1>6 DEF CleanTask, LastApproval
<1>9. CleanStage(Worker)'
  BY <1>0, <1>3, <1>5, <1>6 DEF CleanStage, CleanWorker
<1>10. ASSUME NEW x \in Threads \ {Worker}, at[x] # "idle", T(x) = t PROVE CleanStage(x)'
  <2>1. CleanHandler(x) /\ (at[x] \in {"execute", "succeed", "abort"} => task[t] = "running")
    BY <1>10, CleanFacts
  <2>2. at'[x] = at[x] /\ T(x)' = t /\ N(x)' = N(x)
    BY <1>5, <1>10 DEF T, N
  <2>3. ~(at[x] = "cancelTask" /\ N(x) = 0)
    BY <1>2, <1>10, <2>1 DEF CleanHandler
  <2>4. CleanHandler(x)'
    BY <1>0, <1>3, <1>10, <2>1, <2>2, <2>3 DEF CleanHandler
  <2> QED
    BY <1>0, <2>1, <2>2, <2>4 DEF CleanStage
<1> QED
  BY <1>0, <1>1, <1>2, <1>4, <1>7, <1>8, <1>9, <1>10, CleanBegin DEF envVars

LEMMA RegisterClean ==
    ASSUME IInv, CleanInv, NEW h \in Handlers, NEW t \in Tasks, Register(h, t)
    PROVE  CleanInv'
<1>0. /\ h \in Threads /\ h # Worker /\ Begin(h, "enqueue", t, 0) /\ 0 \in 0..MaxApprovals
      /\ task[t] = Null /\ SetTask(t, "pending") /\ "enqueue" \in PCs \ {"idle"}
      /\ UNCHANGED <<runs, queueVars, approval, envVars, faults>>
  BY Roles, RuntimeAssumption DEF Register, PCs, Writes
<1>1. PICK d \in Decisions : decision' = [decision EXCEPT ![t] = d]
  BY DEF Register
<1>2. /\ task'[t] = "pending"
      /\ \A u \in Tasks \ {t} : task'[u] = task[u] /\ decision'[u] = decision[u]
  BY <1>0, <1>1 DEF SetTask, IInv, TypeOK, Statuses
<1>3. \A u \in Tasks \ {t} : Same(u)
  BY <1>0, <1>2 DEF Same, queueVars
<1>4. approval[t] = <<>> /\ job[t] = "absent"
  BY <1>0 DEF IInv, TasksOK, TaskOK, ApprovalOK
<1>5. CleanTask(t)'
  BY <1>0, <1>2, <1>4 DEF CleanTask, queueVars
<1>6. \A x \in Threads : at[x] # "idle" => T(x) # t
  BY <1>0, ThreadFacts DEF AtWork
<1>7. at'[h] = "enqueue" /\ T(h)' = t
  BY <1>0, BeginFacts
<1>8. CleanStage(h)'
  BY <1>0, <1>2, <1>7 DEF CleanStage, CleanHandler
<1> QED
  BY <1>0, <1>3, <1>5, <1>6, <1>8, CleanBegin DEF envVars

LEMMA BeginClean ==
    ASSUME IInv, CleanInv, NEW h \in Handlers, NEW t \in Tasks,
           BeginPending(h, t) \/ \E n \in 1..MaxApprovals : BeginDecision(h, t, n)
    PROVE  CleanInv'
<1>0. h \in Threads /\ h # Worker /\ OnlyThread
  BY Roles DEF BeginPending, BeginDecision
<1>1. PICK n \in 0..MaxApprovals, pc \in {"cancelRead", "retryRead", "approve", "reject"} :
          /\ Begin(h, pc, t, n)
          /\ pc \in {"cancelRead", "retryRead"} => task[t] = "pending"
  <2>1. CASE BeginPending(h, t)
    <3>1. 0 \in 0..MaxApprovals
      BY RuntimeAssumption
    <3> QED
      BY <2>1, <3>1 DEF BeginPending
  <2>2. CASE \E n \in 1..MaxApprovals : BeginDecision(h, t, n)
    <3>1. \A n \in 1..MaxApprovals : n \in 0..MaxApprovals
      BY RuntimeAssumption
    <3> QED
      BY <2>2, <3>1 DEF BeginDecision
  <2> QED
    BY <2>1, <2>2
<1>2. pc \in PCs \ {"idle"}
  BY DEF PCs, Writes
<1>3. /\ at'[h] = pc /\ T(h)' = t
      /\ \A x \in Threads \ {h} : at'[x] = at[x] /\ on'[x] = on[x]
  BY <1>0, <1>1, <1>2, BeginFacts
<1>4. UNCHANGED <<taskVars, queueVars, approval, envVars>>
  BY <1>0 DEF OnlyThread
<1>5. \A u \in Tasks : Same(u)
  BY <1>4 DEF Same, taskVars, queueVars
<1>6. CleanTask(t)'
  <2>1. at'[Worker] = at[Worker] /\ on'[Worker] = on[Worker] /\ CleanTask(t)
    BY <1>0, <1>3, Roles DEF CleanInv
  <2> QED
    BY <1>4, <2>1 DEF CleanTask, LastApproval, T, taskVars, queueVars, envVars
<1>7. CleanStage(h)'
  BY <1>0, <1>1, <1>3, <1>4 DEF CleanStage, CleanHandler, taskVars, queueVars
<1>8. \A x \in Threads \ {h} : at[x] # "idle" /\ T(x) = t => CleanStage(x)'
  BY <1>3, <1>4, SameClean DEF CleanInv, taskVars, queueVars
<1> QED
  BY <1>0, <1>1, <1>2, <1>4, <1>5, <1>6, <1>7, <1>8, CleanBegin DEF envVars

\* No thread works after a step of the process.
LEMMA CleanAsleep ==
    ASSUME \A th \in Threads : at'[th] = "idle", \A t \in Tasks : CleanTask(t)'
    PROVE  CleanInv'
BY DEF CleanInv, CleanStage

LEMMA EndClean == IInv /\ CleanInv /\ (Crash \/ Exit) => CleanInv'
<1> SUFFICES ASSUME IInv, CleanInv, Crash \/ Exit PROVE CleanInv'
  OBVIOUS
<1>1. ThreadsEnd /\ mode' = "down" /\ UNCHANGED <<taskVars, queueVars, approval>>
  BY DEF Crash, Exit
<1>2. \A t \in Tasks : CleanTask(t)'
  BY <1>1 DEF CleanInv, CleanTask, LastApproval, taskVars, queueVars
<1> QED
  BY <1>1, <1>2, CleanAsleep DEF ThreadsEnd

LEMMA StopClean == IInv /\ CleanInv /\ Stop /\ at[Worker] = "idle" => CleanInv'
<1> SUFFICES ASSUME IInv, CleanInv, Stop, at[Worker] = "idle" PROVE CleanInv'
  OBVIOUS
<1>1. \A th \in Threads : at'[th] = "idle"
  BY DEF Stop, Threads
<1>2. mode' = "stopping" /\ UNCHANGED <<taskVars, queueVars, approval>>
  BY DEF Stop
<1>3. \A t \in Tasks : CleanTask(t)'
  BY <1>2 DEF CleanInv, CleanTask, LastApproval, taskVars, queueVars
<1> QED
  BY <1>1, <1>3, CleanAsleep

LEMMA RestartClean == IInv /\ CleanInv /\ Restart => CleanInv'
<1> SUFFICES ASSUME IInv, CleanInv, Restart PROVE CleanInv'
  OBVIOUS
<1>1. \A th \in Threads : at'[th] = "idle"
  BY DEF Restart, IInv, ModeOK
<1>2. /\ task' = [t \in Tasks |-> Recovered(task[t])] /\ approval' = approval
      /\ mode' = "booting" /\ UNCHANGED <<runs, queueVars>>
  BY DEF Restart, IInv, ModeOK
<1>3. ASSUME NEW t \in Tasks PROVE CleanTask(t)'
  <2>1. task'[t] = task[t] \/ (task[t] = "running" /\ task'[t] = "failed")
    BY <1>2, RecoveredFacts DEF IInv, TypeOK, Statuses
  <2>2. CleanTask(t)
    BY DEF CleanInv
  <2> QED
    BY <1>2, <2>1, <2>2 DEF CleanTask, LastApproval, queueVars
<1> QED
  BY <1>1, <1>3, CleanAsleep

LEMMA ReconcileClean ==
    ASSUME IInv, CleanInv, NEW t \in Tasks, Reconcile(t)
    PROVE  CleanInv'
<1>1. \A th \in Threads : at'[th] = "idle"
  BY DEF Reconcile, IInv, ModeOK
<1>2. /\ mode = "booting" /\ task[t] # "running" /\ SetTask(t, ReconciledTask(t))
      /\ SetJob(t, ReconciledJob(t)) /\ UNCHANGED <<runs, approval, mode>>
  BY DEF Reconcile, IInv, ModeOK
<1> DEFINE new == ReconciledTask(t)  phase == ReconciledJob(t)
<1>3. /\ new = task[t] \/ (task[t] = "pending" /\ new = "cancelled")
      /\ phase = "waiting" => new = "pending"
  BY <1>2, ReconciledFacts
<1> HIDE DEF new, phase
<1>4. /\ task'[t] = new /\ job'[t] = phase
      /\ \A u \in Tasks \ {t} : task'[u] = task[u] /\ job'[u] = job[u]
  BY <1>2 DEF SetTask, SetJob, IInv, TypeOK, Statuses, new, phase
<1>5. CleanTask(t) /\ TaskOK(t) /\ ApprovalOK(t)
  BY DEF CleanInv, IInv, TasksOK
<1>6. CleanTask(t)'
  BY <1>2, <1>3, <1>4, <1>5 DEF CleanTask, TaskOK, ApprovalOK, LastApproval, Started, Terminal
<1>7. ASSUME NEW u \in Tasks \ {t} PROVE CleanTask(u)'
  BY <1>2, <1>4 DEF CleanInv, CleanTask, LastApproval
<1> QED
  BY <1>1, <1>6, <1>7, CleanAsleep

LEMMA ServeClean == IInv /\ CleanInv /\ Serve => CleanInv'
<1> SUFFICES ASSUME IInv, CleanInv, Serve PROVE CleanInv'
  OBVIOUS
<1>1. \A th \in Threads : at'[th] = "idle"
  BY DEF Serve, IInv, ModeOK
<1>2. \A t \in Tasks : job[t] # "delivered"
  BY DEF Serve, IInv, ModeOK, Agreed
<1>3. \A t \in Tasks : CleanTask(t)'
  BY <1>2 DEF Serve, CleanInv, CleanTask, LastApproval, taskVars, queueVars
<1> QED
  BY <1>1, <1>3, CleanAsleep

LEMMA StutterClean == IInv /\ CleanInv /\ UNCHANGED vars => CleanInv'
<1> SUFFICES ASSUME IInv, CleanInv, UNCHANGED vars PROVE CleanInv'
  OBVIOUS
<1>1. UNCHANGED <<taskVars, queueVars, approval, at, on, mode>>
  BY DEF vars, envVars
<1>2. \A t \in Tasks : CleanTask(t)'
  BY <1>1 DEF CleanInv, CleanTask, LastApproval, T, taskVars, queueVars
<1>3. \A x \in Threads : CleanStage(x)'
  BY <1>1, SameClean DEF CleanInv, taskVars, queueVars
<1> QED
  BY <1>2, <1>3 DEF CleanInv

\* Only a failed write counts as one.
\* Only a failed write counts as one.
LEMMA FaultsGrow == [Next]_vars => faults' = faults \/ \E th \in Threads : StorageFails(th)
<1>1. Poll \/ WorkerStep \/ UNCHANGED vars => faults' = faults
  BY DEF Poll, WorkerStep, Inspect, QueueComplete, QueueFail, QueueDrop, OnlyQueue,
         OnlyThread, vars
<1>2. ASSUME NEW th \in Threads PROVE EngineStep(th) => faults' = faults
  BY DEF EngineStep, EnsureRegistered, DenyTask, RequireTask, MarkWaiting,
         FindActiveApproval, CreateApproval, ConsumeApproval, CheckStart, MarkRunning,
         RunExecutor, RecordSuccess, RecordFailure, OnlyTask, OnlyApproval, OnlyThread
<1>3. ASSUME NEW h \in Handlers PROVE Request(h) \/ HandlerStep(h) => faults' = faults
  BY DEF Request, Register, BeginPending, BeginDecision, HandlerStep, Enqueue, Approve,
         Reject, CancelRead, CancelJob, CancelTask, RetryRead, RetryFailed, OnlyTask,
         OnlyApproval, OnlyThread, OnlyQueue
<1>4. ASSUME NEW t \in Tasks
      PROVE  Reconcile(t) \/ (\E n \in DOMAIN approval[t] : Expire(t, n)) => faults' = faults
  BY DEF Reconcile, Expire
<1>5. Crash \/ Stop \/ Exit \/ Restart \/ Serve => faults' = faults
  BY DEF Crash, Stop, Exit, Restart, Serve
<1> QED
  BY <1>1, <1>2, <1>3, <1>4, <1>5 DEF Next

\* Every step without a failed write keeps the second layer.
LEMMA NextClean ==
    ASSUME IInv, CleanInv, [Next]_vars, Stop => at[Worker] = "idle",
           ~\E th \in Threads : StorageFails(th)
    PROVE  CleanInv'
<1>1. CASE Poll \/ WorkerStep
  <2>1. ~QueueDrop
    BY CleanFacts, Roles DEF QueueDrop, CleanWorker
  <2> QED
    BY <1>1, <2>1, PollClean, InspectClean, QueueCompleteClean, QueueFailClean DEF WorkerStep
<1>2. ASSUME NEW th \in Threads, EngineStep(th) PROVE CleanInv'
  BY <1>2, EnsureRegisteredClean, DenyTaskClean, RequireTaskClean, MarkWaitingClean,
     FindActiveApprovalClean, CreateApprovalClean, ConsumeApprovalClean, CheckStartClean,
     MarkRunningClean, RunExecutorClean, EndOfRunClean DEF EngineStep
<1>3. ASSUME NEW h \in Handlers, Request(h) \/ HandlerStep(h) PROVE CleanInv'
  BY <1>3, RegisterClean, BeginClean, EnqueueClean, DecisionClean, CancelReadClean,
     CancelJobClean, CancelTaskClean, RetryReadClean, RetryFailedClean
  DEF Request, HandlerStep
<1>4. CASE \E t \in Tasks : Reconcile(t) \/ \E n \in DOMAIN approval[t] : Expire(t, n)
  BY <1>4, ReconcileClean, ExpireClean
<1>5. CASE Crash \/ Stop \/ Exit \/ Restart \/ Serve
  BY <1>5, EndClean, StopClean, RestartClean, ServeClean
<1>6. CASE UNCHANGED vars
  BY <1>6, StutterClean
<1> QED
  BY <1>1, <1>2, <1>3, <1>4, <1>5, <1>6 DEF Next

\* As long as no write has failed, tasks, jobs, requests and threads agree.
THEOREM CleanInvariance == Spec /\ StopsWait => [](IInv /\ (faults = 0 => CleanInv))
<1>1. Init => CleanInv
  BY DEF Init, CleanInv, CleanTask, CleanStage
<1>2. IInv /\ (faults = 0 => CleanInv) /\ [Next]_vars /\ [Stop => at[Worker] = "idle"]_vars
      => (faults = 0 => CleanInv)'
  <2> SUFFICES ASSUME IInv, faults = 0 => CleanInv, [Next]_vars, faults' = 0,
                      [Stop => at[Worker] = "idle"]_vars
               PROVE  CleanInv'
    OBVIOUS
  <2>1. ~\E th \in Threads : StorageFails(th)
    BY RuntimeAssumption DEF StorageFails, IInv, TypeOK
  <2>2. CleanInv
    BY <2>1, FaultsGrow
  <2> QED
    BY <2>1, <2>2, NextClean, StutterClean
<1> QED
  BY <1>1, <1>2, Invariance, PTL DEF Spec, StopsWait

\* As long as no write has failed, what the owner is told was cancelled never
\* ran and will not run, for any number of tasks, handlers and restarts
\* (tasks.cancel_task cancels the job and then the task; a worker may claim in
\* between).
THEOREM CancelledNeverRanHolds == Spec /\ StopsWait => [](faults = 0 => CancelledNeverRan)
<1>1. IInv /\ CleanInv => CancelledNeverRan
  <2> SUFFICES ASSUME IInv, CleanInv, NEW t \in Tasks, task[t] = "cancelled"
               PROVE  /\ runs[t] = 0
                      /\ \A th \in Threads : on[th] # Null /\ on[th].task = t =>
                            at[th] \notin {"execute", "succeed", "abort"}
    BY DEF CancelledNeverRan
  <2>1. runs[t] = 0
    BY DEF CleanInv, CleanTask
  <2>2. \A th \in Threads : on[th] # Null => at[th] # "idle"
    BY DEF IInv, TypeOK
  <2> QED
    BY <2>1, <2>2, CleanFacts DEF T
<1> QED
  BY <1>1, CleanInvariance, PTL

-----------------------------------------------------------------------------
(* The runtime keeps the promise made to the owner of each task *)

\* What the owner is shown of a task, as TaskPromise is instantiated.
Shown(t) == IF task[t] = Null THEN "absent" ELSE IF Open(t) THEN "open" ELSE task[t]
Judged(t) == IF task[t] = Null THEN "none" ELSE decision[t]
Consumed(t) == \E n \in DOMAIN approval[t] : approval[t][n] = "consumed"

\* The owner's view of one task, as TaskPromise names it.
LEMMA Edges ==
    ASSUME NEW t \in Tasks, NEW from, NEW to
    PROVE  Promise!Edge(t, from, to) <=> Shown(t) = from /\ Shown(t)' = to
BY DEF Promise!Edge, Shown, Open

LEMMA Sames ==
    ASSUME NEW t \in Tasks
    PROVE  /\ Promise!Keep(t) <=> Judged(t)' = Judged(t)
           /\ Promise!Same(t) <=>
                 /\ Judged(t)' = Judged(t) /\ Consumed(t)' = Consumed(t)
                 /\ runs'[t] = runs[t]
           /\ Promise!Stay(t) <=>
                 /\ Shown(t)' = Shown(t) /\ Judged(t)' = Judged(t)
                 /\ Consumed(t)' = Consumed(t) /\ runs'[t] = runs[t]
BY DEF Promise!Keep, Promise!Same, Promise!Stay, Shown, Judged, Consumed, Open

LEMMA OneTaskMoves ==
    ASSUME TypeOK', NEW t \in Tasks, Promise!Move(t), \A u \in Tasks \ {t} : Same(u)
    PROVE  Promise!Next
<1>1. ASSUME NEW u \in Tasks \ {t} PROVE Promise!Move(u)
  <2>1. Promise!Stay(u)
    BY <1>1, Sames DEF Same, Shown, Judged, Consumed, Open
  <2> QED
    BY <2>1 DEF Promise!Move
<1>2. runs' = [u \in Tasks |-> runs'[u]]
  BY DEF TypeOK
<1> QED
  BY <1>1, <1>2 DEF Promise!Next

LEMMA NothingShown ==
    UNCHANGED <<taskVars, approval>> =>
        UNCHANGED << [t \in Tasks |-> Shown(t)], [t \in Tasks |-> Judged(t)],
                     [t \in Tasks |-> Consumed(t)], runs >>
BY DEF taskVars, Shown, Judged, Consumed, Open

\* A call of a thread that moves its task.
LEMMA TaskMoves ==
    ASSUME IInv, IInv', NEW th \in Threads, at[th] # "idle", NEW t \in Tasks, t = T(th),
           OnlyTask, NEW status, SetTask(t, status), status # Null,
           \/ Open(t) /\ status = "waiting"
           \/ Open(t) /\ status = "running" /\ Consented(t)
           \/ task[t] = "running" /\ status = "succeeded" /\ runs[t] = 1
           \/ task[t] = "running" /\ status = "failed"
           \/ Open(t) /\ status = "failed" /\ decision[t] = "deny"
           \/ Open(t) /\ status = "cancelled"
           \/ task[t] = status
    PROVE  Promise!Next
<1>1. /\ task'[t] = status /\ \A u \in Tasks \ {t} : task'[u] = task[u]
      /\ UNCHANGED <<job, left, decision, runs, approval>> /\ task[t] # Null
  BY ThreadFacts DEF SetTask, IInv, TypeOK, Statuses, OnlyTask, queueVars, AtWork
<1>2. \A u \in Tasks \ {t} : Same(u)
  BY <1>1 DEF Same
<1>3. /\ Judged(t)' = Judged(t) /\ Consumed(t)' = Consumed(t) /\ runs'[t] = runs[t]
      /\ Judged(t) = decision[t]
  BY <1>1 DEF Judged, Consumed
<1>4. Promise!Same(t) /\ [u \in Tasks |-> Judged(u)][t] = decision[t]
  BY <1>3, Sames
<1>5. Shown(t) = IF Open(t) THEN "open" ELSE task[t]
  BY <1>1 DEF Shown
<1>6. Shown(t)' = IF status \in {"pending", "waiting"} THEN "open" ELSE status
  BY <1>1 DEF Shown, Open
<1>7. CASE (Open(t) /\ status = "waiting") \/ task[t] = status
  <2>1. Promise!Stay(t)
    BY <1>3, <1>5, <1>6, <1>7, Sames DEF Open
  <2> QED
    BY <1>2, <2>1, OneTaskMoves DEF IInv, Promise!Move
<1>8. CASE Open(t) /\ status = "running" /\ Consented(t)
  <2>1. Promise!Edge(t, "open", "running")
    BY <1>5, <1>6, <1>8, Edges
  <2>2. decision[t] # "deny" /\ (decision[t] = "require_approval" => Consumed(t))
    <3>1. approval[t] # <<>> => Len(approval[t]) \in DOMAIN approval[t]
      BY DEF IInv, TypeOK, Approvals
    <3> QED
      BY <1>8, <3>1 DEF Consented, LastApproval, Consumed
  <2>3. Promise!Start(t)
    BY <1>1, <1>4, <2>1, <2>2 DEF Promise!Start, Consumed
  <2> QED
    BY <1>2, <2>3, OneTaskMoves DEF IInv, Promise!Move
<1>9. CASE task[t] = "running" /\ status = "succeeded" /\ runs[t] = 1
  <2>1. Promise!Edge(t, "running", "succeeded")
    BY <1>5, <1>6, <1>9, Edges DEF Open
  <2> QED
    BY <1>2, <1>4, <1>9, <2>1, OneTaskMoves DEF IInv, Promise!Move, Promise!Succeed
<1>10. CASE task[t] = "running" /\ status = "failed"
  <2>1. Promise!Edge(t, "running", "failed")
    BY <1>5, <1>6, <1>10, Edges DEF Open
  <2> QED
    BY <1>2, <1>4, <2>1, OneTaskMoves DEF IInv, Promise!Move, Promise!Fail
<1>11. CASE Open(t) /\ status = "failed" /\ decision[t] = "deny"
  <2>1. Promise!Edge(t, "open", "failed")
    BY <1>5, <1>6, <1>11, Edges
  <2>2. Promise!Fail(t)
    BY <1>1, <1>4, <1>11, <2>1 DEF Promise!Fail
  <2> QED
    BY <1>2, <2>2, OneTaskMoves DEF IInv, Promise!Move
<1>12. CASE Open(t) /\ status = "cancelled"
  <2>1. Promise!Edge(t, "open", "cancelled")
    BY <1>5, <1>6, <1>12, Edges
  <2> QED
    BY <1>2, <1>4, <2>1, OneTaskMoves DEF IInv, Promise!Move, Promise!Cancel
<1> QED
  BY <1>7, <1>8, <1>9, <1>10, <1>11, <1>12

\* A request that is decided or expires does not show.
LEMMA RequestHides ==
    ASSUME IInv, IInv', NEW t \in Tasks, NEW n \in 1..Len(approval[t]),
           approval[t][n] \in {"pending", "approved"},
           NEW status \in ApprovalStatuses \ {"consumed"}, SetApproval(t, n, status),
           UNCHANGED <<taskVars, queueVars, faults>>
    PROVE  Promise!Next
<1>1. /\ \A k \in 1..Len(approval[t]) :
            approval'[t][k] = IF k = n THEN status ELSE approval[t][k]
      /\ Len(approval'[t]) = Len(approval[t])
      /\ \A u \in Tasks \ {t} : approval'[u] = approval[u]
  BY SetApprovalFacts DEF IInv
<1>2. DOMAIN approval[t] = 1..Len(approval[t]) /\ DOMAIN approval'[t] = 1..Len(approval'[t])
  BY DEF IInv, TypeOK, Approvals
<1>3. ~Consumed(t)
  BY <1>2, LastOnly DEF Consumed
<1>4. ~Consumed(t)'
  BY <1>1, <1>2, <1>3 DEF Consumed
<1>5. Promise!Stay(t)
  <2>1. Consumed(t)' = Consumed(t)
    BY <1>3, <1>4 DEF Consumed
  <2> QED
    BY <2>1, Sames DEF taskVars, Shown, Judged, Open
<1>6. \A u \in Tasks \ {t} : Same(u)
  BY <1>1 DEF Same, taskVars, queueVars
<1> QED
  BY <1>5, <1>6, OneTaskMoves DEF IInv, Promise!Move

LEMMA CreateMoves ==
    ASSUME IInv, IInv', NEW th \in Threads, CreateApproval(th)
    PROVE  Promise!Next
<1>0. at[th] # "idle" /\ OnlyApproval
  BY DEF CreateApproval
<1>1. PICK t \in Tasks : t = T(th)
  BY <1>0, ThreadFacts
<1>2. /\ Len(approval[t]) < MaxApprovals
      /\ approval' = [approval EXCEPT ![t] = Append(@, "pending")]
  BY <1>1 DEF CreateApproval, T
<1>3. /\ Len(approval'[t]) = Len(approval[t]) + 1 /\ Len(approval[t]) \in Nat
      /\ \A k \in 1..Len(approval[t]) : approval'[t][k] = approval[t][k]
      /\ approval'[t][Len(approval[t]) + 1] = "pending"
      /\ \A u \in Tasks \ {t} : approval'[u] = approval[u]
  BY <1>2, AddApprovalFacts DEF IInv
<1>4. DOMAIN approval[t] = 1..Len(approval[t]) /\ DOMAIN approval'[t] = 1..Len(approval'[t])
  BY DEF IInv, TypeOK, Approvals
<1>5. Consumed(t)' <=> Consumed(t)
  <2>1. ASSUME Consumed(t) PROVE Consumed(t)'
    <3>1. PICK k \in 1..Len(approval[t]) : approval[t][k] = "consumed"
      BY <1>4, <2>1 DEF Consumed
    <3>2. k \in 1..Len(approval'[t]) /\ approval'[t][k] = "consumed"
      BY <1>3, <3>1
    <3> QED
      BY <1>4, <3>2 DEF Consumed
  <2>2. ASSUME Consumed(t)' PROVE Consumed(t)
    <3>1. PICK k \in 1..Len(approval'[t]) : approval'[t][k] = "consumed"
      BY <1>4, <2>2 DEF Consumed
    <3>2. k \in 1..Len(approval[t])
      BY <1>3, <3>1
    <3> QED
      BY <1>3, <1>4, <3>1, <3>2 DEF Consumed
  <2> QED
    BY <2>1, <2>2
<1>6. Promise!Stay(t)
  BY <1>0, <1>5, Sames DEF OnlyApproval, taskVars, Shown, Judged, Open, Consumed
<1>7. \A u \in Tasks \ {t} : Same(u)
  BY <1>0, <1>3 DEF Same, OnlyApproval, taskVars, queueVars
<1> QED
  BY <1>6, <1>7, OneTaskMoves DEF IInv, Promise!Move

\* The owner's consent is spent.
LEMMA ConsumeMoves ==
    ASSUME IInv, IInv', CleanInv, NEW th \in Threads, ConsumeApproval(th)
    PROVE  Promise!Next \/ UNCHANGED <<taskVars, approval>>
<1>0. at[th] = "consume" /\ at[th] # "idle" /\ OnlyApproval
  BY DEF ConsumeApproval
<1>1. PICK t \in Tasks : t = T(th)
  BY <1>0, ThreadFacts
<1>2. th # Worker /\ th \in Handlers
  BY <1>0, ThreadFacts, Roles DEF Stage, WorkerAtWork, First, Starting
<1>3. PICK n \in 1..Len(approval[t]) : n = N(th)
  BY <1>0, <1>1, <1>2, ThreadFacts DEF Stage, HandlerAtWork, Carrying
<1>4. task[t] = "waiting"
  BY <1>0, <1>1, <1>2, CarriedWaits DEF Carrying
<1>5. CASE approval[t][n] = "approved"
  <2>1. SetApproval(t, n, "consumed")
    BY <1>1, <1>3, <1>5 DEF ConsumeApproval, T, N
  <2>2. /\ approval'[t][n] = "consumed" /\ Len(approval'[t]) = Len(approval[t])
        /\ \A u \in Tasks \ {t} : approval'[u] = approval[u]
    BY <2>1, SetApprovalFacts DEF IInv, ApprovalStatuses
  <2>3. DOMAIN approval[t] = 1..Len(approval[t]) /\ DOMAIN approval'[t] = 1..Len(approval'[t])
    BY DEF IInv, TypeOK, Approvals
  <2>4. ~Consumed(t) /\ Consumed(t)' /\ approval[t] # <<>>
    BY <1>5, <2>2, <2>3, LastOnly DEF Consumed
  <2>5. decision[t] = "require_approval"
    BY <2>4 DEF IInv, TasksOK, ApprovalOK
  <2>6. UNCHANGED <<task, decision, runs>> /\ task[t] # Null
    BY <1>0, <1>4, RuntimeAssumption DEF OnlyApproval, taskVars
  <2>7. Promise!Edge(t, "open", "open") /\ Promise!Keep(t)
    BY <1>4, <2>6, Edges, Sames DEF Shown, Judged, Open
  <2>8. Promise!Consent(t)
    BY <2>4, <2>5, <2>6, <2>7 DEF Promise!Consent, Consumed
  <2>9. \A u \in Tasks \ {t} : Same(u)
    BY <1>0, <2>2 DEF Same, OnlyApproval, taskVars, queueVars
  <2> QED
    BY <2>8, <2>9, OneTaskMoves DEF IInv, Promise!Move
<1>6. CASE approval[t][n] # "approved"
  BY <1>0, <1>1, <1>3, <1>6 DEF ConsumeApproval, T, N, OnlyApproval
<1> QED
  BY <1>5, <1>6

LEMMA RunMoves ==
    ASSUME IInv, IInv', CleanInv, NEW th \in Threads, RunExecutor(th)
    PROVE  Promise!Next
<1>0. at[th] = "execute" /\ at[th] # "idle"
  BY DEF RunExecutor
<1>1. PICK t \in Tasks : t = T(th)
  BY <1>0, ThreadFacts
<1>2. UNCHANGED <<task, decision, queueVars, approval, envVars, faults>>
  BY DEF RunExecutor
<1>3. task[t] = "running" /\ runs[t] = 0
  BY <1>0, <1>1, CleanFacts, ThreadFacts DEF AtWork
<1>4. runs'[t] = 1 /\ \A u \in Tasks \ {t} : runs'[u] = runs[u]
  BY <1>1, <1>3 DEF RunExecutor, T, IInv, TypeOK
<1>5. Promise!Edge(t, "running", "running") /\ Promise!Keep(t)
  BY <1>2, <1>3, Edges, Sames, RuntimeAssumption DEF Shown, Judged, Open
<1>6. Promise!Execute(t)
  BY <1>2, <1>3, <1>4, <1>5 DEF Promise!Execute
<1>7. \A u \in Tasks \ {t} : Same(u)
  BY <1>2, <1>4 DEF Same, queueVars
<1> QED
  BY <1>6, <1>7, OneTaskMoves DEF IInv, Promise!Move

LEMMA EngineMoves ==
    ASSUME IInv, IInv', CleanInv, NEW th \in Threads, EngineStep(th)
    PROVE  Promise!Next \/ UNCHANGED <<taskVars, approval>>
<1>1. CASE \/ EnsureRegistered(th) \/ RequireTask(th) \/ FindActiveApproval(th)
           \/ CheckStart(th)
  BY <1>1 DEF EnsureRegistered, RequireTask, FindActiveApproval, CheckStart, OnlyThread
<1>2. CASE CreateApproval(th) \/ ConsumeApproval(th) \/ RunExecutor(th)
  BY <1>2, CreateMoves, ConsumeMoves, RunMoves
<1>3. CASE DenyTask(th) \/ MarkWaiting(th) \/ MarkRunning(th) \/ RecordSuccess(th)
           \/ RecordFailure(th)
  <2>0. at[th] \in {"deny", "markWaiting", "markRunning", "succeed", "abort"}
        /\ at[th] # "idle" /\ OnlyTask
    BY <1>3 DEF DenyTask, MarkWaiting, MarkRunning, RecordSuccess, RecordFailure
  <2>1. PICK t \in Tasks : t = T(th)
    BY <2>0, ThreadFacts
  <2>2. /\ task[t] # Null /\ AtWork(th) /\ TaskOK(t) /\ ApprovalOK(t)
        /\ (th = Worker => WorkerAtWork /\ CleanWorker)
        /\ (th # Worker => HandlerAtWork(th) /\ CleanHandler(th))
        /\ (at[th] \in {"succeed", "abort"} => task[t] = "running")
    BY <2>0, <2>1, ThreadFacts, CleanFacts DEF AtWork, Stage
  <2>3. CASE UNCHANGED task
    BY <2>0, <2>3, RefusedOnly
  <2>4. CASE DenyTask(th) /\ MayBecome(t, "failed")
    <3>1. at[th] = "deny" /\ th = Worker
      BY <2>2, <2>4 DEF DenyTask, HandlerAtWork, Requests, Carrying, Starting
    <3>2. task[t] = "pending" /\ decision[t] = "deny"
      BY <2>1, <2>2, <3>1 DEF CleanWorker, WorkerAtWork
    <3>3. SetTask(t, "failed")
      BY <2>1, <2>4 DEF DenyTask, T
    <3> QED
      BY <2>0, <2>1, <3>2, <3>3, TaskMoves, RuntimeAssumption DEF Open
  <2>5. CASE MarkWaiting(th) /\ MayBecome(t, "waiting")
    <3>1. at[th] = "markWaiting" /\ th = Worker
      BY <2>2, <2>5 DEF MarkWaiting, HandlerAtWork, Requests, Carrying, Starting
    <3>2. task[t] = "pending"
      BY <2>1, <2>2, <3>1 DEF CleanWorker
    <3>3. SetTask(t, "waiting")
      BY <2>1, <2>5 DEF MarkWaiting, T
    <3> QED
      BY <2>0, <2>1, <3>2, <3>3, TaskMoves, RuntimeAssumption DEF Open
  <2>6. CASE MarkRunning(th) /\ MayBecome(t, "running")
    <3>1. at[th] = "markRunning" /\ at[th] \in Starting
      BY <2>6 DEF MarkRunning, Starting
    <3>2. Open(t)
      BY <2>1, <2>2, <3>1 DEF CleanWorker, CleanHandler, Open
    <3>3. SetTask(t, "running")
      BY <2>1, <2>6 DEF MarkRunning, T
    <3>4. Consented(t)
      <4>1. th = Worker => decision[t] = "allow"
        BY <2>1, <2>2, <3>1 DEF WorkerAtWork
      <4>2. th # Worker => Len(approval[t]) # 0 /\ LastApproval(t) = "consumed"
        BY <2>1, <2>2, <3>1 DEF HandlerAtWork, LastApproval
      <4> QED
        BY <2>2, <4>1, <4>2 DEF Consented, ApprovalOK
    <3> QED
      BY <2>0, <2>1, <3>2, <3>3, <3>4, TaskMoves, RuntimeAssumption
  <2>7. CASE RecordSuccess(th) /\ MayBecome(t, "succeeded")
    <3>1. at[th] = "succeed" /\ SetTask(t, "succeeded")
      BY <2>1, <2>7 DEF RecordSuccess, T
    <3>2. runs[t] = 1
      BY <2>1, <2>2, <3>1 DEF AtWork
    <3> QED
      BY <2>0, <2>1, <2>2, <3>1, <3>2, TaskMoves, RuntimeAssumption
  <2>8. CASE RecordFailure(th) /\ MayBecome(t, "failed")
    <3>1. at[th] = "abort" /\ SetTask(t, "failed")
      BY <2>1, <2>8 DEF RecordFailure, T
    <3> QED
      BY <2>0, <2>1, <2>2, <3>1, TaskMoves, RuntimeAssumption
  <2> QED
    BY <1>3, <2>1, <2>3, <2>4, <2>5, <2>6, <2>7, <2>8
    DEF DenyTask, MarkWaiting, MarkRunning, RecordSuccess, RecordFailure, T
<1> QED
  BY <1>1, <1>2, <1>3 DEF EngineStep

LEMMA RegisterMoves ==
    ASSUME IInv, IInv', NEW h \in Handlers, NEW t \in Tasks, Register(h, t)
    PROVE  Promise!Next
<1>0. /\ task[t] = Null /\ SetTask(t, "pending")
      /\ UNCHANGED <<runs, queueVars, approval, envVars, faults>>
  BY DEF Register
<1>1. PICK d \in Decisions : decision' = [decision EXCEPT ![t] = d]
  BY DEF Register
<1>2. /\ task'[t] = "pending" /\ decision'[t] = d
      /\ \A u \in Tasks \ {t} : task'[u] = task[u] /\ decision'[u] = decision[u]
  BY <1>0, <1>1 DEF SetTask, IInv, TypeOK, Statuses
<1>3. \A u \in Tasks \ {t} : Same(u)
  BY <1>0, <1>2 DEF Same, queueVars
<1>4. Promise!Edge(t, "absent", "open")
  BY <1>0, <1>2, Edges, RuntimeAssumption DEF Shown, Open
<1>5. Promise!Accept(t)
  BY <1>0, <1>2, <1>4, RuntimeAssumption DEF Promise!Accept, Decisions
<1> QED
  BY <1>3, <1>5, OneTaskMoves DEF IInv, Promise!Move

\* A task the API cancels has not started.
LEMMA CancelsOpen ==
    ASSUME IInv, CleanInv, NEW h \in Handlers, at[h] = "cancelTask"
    PROVE  task[T(h)] # "running"
<1>0. h \in Threads /\ h # Worker /\ at[h] # "idle"
  BY Roles
<1>1. PICK t \in Tasks : t = T(h)
  BY <1>0, ThreadFacts
<1>2. HandlerAtWork(h) /\ CleanHandler(h) /\ TaskOK(t) /\ N(h) \in 0..MaxApprovals
  BY <1>0, <1>1, ThreadFacts, CleanFacts DEF Stage
<1>3. CASE N(h) = 0
  BY <1>1, <1>2, <1>3 DEF CleanHandler
<1>4. CASE N(h) > 0
  <2>1. LastApproval(t) = "rejected" /\ Len(approval[t]) # 0
    BY <1>1, <1>2, <1>4 DEF HandlerAtWork, LastApproval
  <2>2. approval[t] # <<>> /\ ApprovalOK(t)
    BY <2>1 DEF IInv, TasksOK
  <2> QED
    BY <1>1, <1>2, <2>1, <2>2 DEF TaskOK, ApprovalOK, Consented
<1> QED
  BY <1>2, <1>3, <1>4, RuntimeAssumption

LEMMA RequestMovesPromise ==
    ASSUME IInv, IInv', CleanInv, NEW h \in Handlers, Request(h) \/ HandlerStep(h)
    PROVE  Promise!Next \/ UNCHANGED <<taskVars, approval>>
<1>0. h \in Threads /\ h # Worker
  BY Roles
<1>1. CASE Request(h)
  BY <1>1, RegisterMoves DEF Request, BeginPending, BeginDecision, OnlyThread
<1>2. CASE \/ Enqueue(h) \/ CancelRead(h) \/ CancelJob(h) \/ RetryRead(h) \/ RetryFailed(h)
  BY <1>2 DEF Enqueue, CancelRead, CancelJob, RetryRead, RetryFailed, OnlyThread, OnlyQueue
<1>3. CASE Approve(h) \/ Reject(h)
  <2>0. at[h] \in {"approve", "reject"} /\ at[h] # "idle" /\ OnlyApproval
    BY <1>3 DEF Approve, Reject
  <2>1. PICK t \in Tasks : t = T(h)
    BY <1>0, <2>0, ThreadFacts
  <2>2. PICK n \in 1..Len(approval[t]) : n = N(h)
    BY <1>0, <2>0, <2>1, ThreadFacts DEF Stage, HandlerAtWork
  <2>3. CASE approval[t][n] = "pending"
    <3>1. PICK status \in {"approved", "rejected"} : SetApproval(t, n, status)
      BY <1>3, <2>1, <2>2, <2>3 DEF Approve, Reject, T, N
    <3>2. status \in ApprovalStatuses \ {"consumed"}
      BY DEF ApprovalStatuses
    <3> QED
      BY <2>0, <2>3, <3>1, <3>2, RequestHides DEF OnlyApproval
  <2>4. CASE approval[t][n] # "pending"
    BY <1>3, <2>0, <2>1, <2>2, <2>4 DEF Approve, Reject, T, N, OnlyApproval
  <2> QED
    BY <2>3, <2>4
<1>4. CASE CancelTask(h)
  <2>0. at[h] = "cancelTask" /\ at[h] # "idle" /\ OnlyTask
    BY <1>4 DEF CancelTask
  <2>1. PICK t \in Tasks : t = T(h)
    BY <1>0, <2>0, ThreadFacts
  <2>2. CASE MayBecome(t, "cancelled")
    <3>1. SetTask(t, "cancelled") /\ task[t] # Null
      BY <1>0, <1>4, <2>0, <2>1, <2>2, ThreadFacts DEF CancelTask, T, AtWork
    <3>2. task[t] \in {"pending", "waiting", "cancelled"}
      BY <2>0, <2>1, <2>2, <3>1, CancelsOpen, Transitions
    <3> QED
      BY <1>0, <2>0, <2>1, <3>1, <3>2, TaskMoves, RuntimeAssumption DEF Open
  <2>3. CASE ~MayBecome(t, "cancelled")
    BY <1>4, <2>0, <2>1, <2>3, RefusedOnly DEF CancelTask, T
  <2> QED
    BY <2>2, <2>3
<1> QED
  BY <1>1, <1>2, <1>3, <1>4 DEF HandlerStep

LEMMA RestartMoves == IInv /\ IInv' /\ Restart => Promise!Next
<1> SUFFICES ASSUME IInv, IInv', Restart PROVE Promise!Next
  OBVIOUS
<1>1. /\ task' = [t \in Tasks |-> Recovered(task[t])] /\ approval' = approval
      /\ UNCHANGED <<decision, runs, queueVars>>
  BY DEF Restart, IInv, ModeOK
<1>2. ASSUME NEW t \in Tasks PROVE Promise!Move(t)
  <2>1. task'[t] = task[t] \/ (task[t] = "running" /\ task'[t] = "failed")
    BY <1>1, RecoveredFacts DEF IInv, TypeOK, Statuses
  <2>2. CASE task'[t] = task[t]
    <3>1. Promise!Stay(t)
      BY <1>1, <2>2, Sames DEF Shown, Judged, Open, Consumed
    <3> QED
      BY <3>1 DEF Promise!Move
  <2>3. CASE task[t] = "running" /\ task'[t] = "failed"
    <3>1. Promise!Edge(t, "running", "failed") /\ Promise!Same(t)
      BY <1>1, <2>3, Edges, Sames, RuntimeAssumption DEF Shown, Judged, Open, Consumed
    <3> QED
      BY <3>1 DEF Promise!Move, Promise!Fail
  <2> QED
    BY <2>1, <2>2, <2>3
<1>3. runs' = [u \in Tasks |-> runs'[u]]
  BY DEF IInv, TypeOK
<1> QED
  BY <1>2, <1>3 DEF Promise!Next

LEMMA ReconcileMovesPromise ==
    ASSUME IInv, IInv', NEW t \in Tasks, Reconcile(t)
    PROVE  Promise!Next
<1>1. /\ task[t] # "running" /\ SetTask(t, ReconciledTask(t)) /\ UNCHANGED <<decision, runs, approval>>
      /\ SetJob(t, ReconciledJob(t))
  BY DEF Reconcile, IInv, ModeOK
<1> DEFINE new == ReconciledTask(t)
<1>2. new = task[t] \/ (task[t] = "pending" /\ new = "cancelled")
  BY <1>1, ReconciledFacts
<1> HIDE DEF new
<1>3. task'[t] = new /\ \A u \in Tasks \ {t} : task'[u] = task[u]
  BY <1>1 DEF SetTask, IInv, TypeOK, Statuses, new
<1>4. Promise!Move(t)
  <2>1. CASE new = task[t]
    <3>1. Promise!Stay(t)
      BY <1>1, <1>3, <2>1, Sames DEF Shown, Judged, Open, Consumed
    <3> QED
      BY <3>1 DEF Promise!Move
  <2>2. CASE task[t] = "pending" /\ new = "cancelled"
    <3>1. Promise!Edge(t, "open", "cancelled") /\ Promise!Same(t)
      BY <1>1, <1>3, <2>2, Edges, Sames, RuntimeAssumption DEF Shown, Judged, Open, Consumed
    <3> QED
      BY <3>1 DEF Promise!Move, Promise!Cancel
  <2> QED
    BY <1>2, <2>1, <2>2
<1>5. ASSUME NEW u \in Tasks \ {t} PROVE Promise!Move(u)
  <2>1. Promise!Stay(u)
    BY <1>1, <1>3, <1>5, Sames DEF Shown, Judged, Open, Consumed
  <2> QED
    BY <2>1 DEF Promise!Move
<1>6. runs' = [u \in Tasks |-> runs'[u]]
  BY DEF IInv, TypeOK
<1> QED
  BY <1>4, <1>5, <1>6 DEF Promise!Next

\* Every step of the runtime is one of the promise, or changes nothing shown.
LEMMA PromiseKept ==
    ASSUME IInv, IInv', CleanInv, [Next]_vars
    PROVE  Promise!Next \/ UNCHANGED <<taskVars, approval>>
<1>1. CASE Poll \/ WorkerStep
  BY <1>1 DEF Poll, WorkerStep, Inspect, QueueComplete, QueueFail, QueueDrop, OnlyQueue, OnlyThread
<1>2. CASE \E th \in Threads : EngineStep(th) \/ StorageFails(th)
  BY <1>2, EngineMoves DEF StorageFails
<1>3. CASE \E h \in Handlers : Request(h) \/ HandlerStep(h)
  BY <1>3, RequestMovesPromise
<1>4. ASSUME NEW t \in Tasks, NEW n \in DOMAIN approval[t], Expire(t, n)
      PROVE  Promise!Next
  <2>1. /\ n \in 1..Len(approval[t]) /\ approval[t][n] \in {"pending", "approved"}
        /\ SetApproval(t, n, "expired") /\ "expired" \in ApprovalStatuses \ {"consumed"}
        /\ UNCHANGED <<taskVars, queueVars, faults>>
    BY <1>4 DEF Expire, IInv, TypeOK, Approvals, ApprovalStatuses
  <2> QED
    BY <2>1, RequestHides
<1>5. ASSUME NEW t \in Tasks, Reconcile(t) PROVE Promise!Next
  BY <1>5, ReconcileMovesPromise
<1>6. CASE Crash \/ Stop \/ Exit \/ Serve \/ UNCHANGED vars
  BY <1>6 DEF Crash, Stop, Exit, Serve, vars
<1>7. CASE Restart
  BY <1>7, RestartMoves
<1> QED
  BY <1>1, <1>2, <1>3, <1>4, <1>5, <1>6, <1>7 DEF Next

\* The runtime implements TaskPromise, while no write fails: an accepted task
\* starts only with the consent it needs, is executed at most once and only
\* while it runs, can be cancelled only before it starts, and its outcome is
\* final, whatever threads, deliveries and restarts do in between.
THEOREM TaskPromiseHolds == Spec /\ StopsWait /\ [](faults = 0) => TaskPromiseSpec
<1> DEFINE view == << [t \in Tasks |-> Shown(t)], [t \in Tasks |-> Judged(t)],
                      [t \in Tasks |-> Consumed(t)], runs >>
<1>1. Init => Promise!Init
  BY RuntimeAssumption DEF Init, Promise!Init
<1>2. IInv /\ IInv' /\ CleanInv /\ [Next]_vars => [Promise!Next]_view
  BY PromiseKept, NothingShown
<1> QED
  BY <1>1, <1>2, CleanInvariance, PTL
  DEF Spec, TaskPromiseSpec, Promise!Spec, Shown, Judged, Consumed
=============================================================================
