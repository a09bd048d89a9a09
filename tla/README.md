# TLA+ verification of the Mama AI backend

Mama AI is a personal assistant: an owner posts a command, the backend decides
whether it may run, perhaps asks for the owner's approval, runs it in a
background worker and keeps track of it across restarts. Requests may carry an
idempotency key, so that a client can repeat them; they come through a rate
limiter and belong to an account with sessions, a second factor, devices and API
keys. The backend is one FastAPI process (`src/backend/main.py`), with one worker
thread, request threads and SQLite files under it, which the same process and a
command line back up, migrate and restore. Two separate programs turn hand
gestures into mouse and keyboard.

This directory models these parts, each with what can get in its way: lost
claims, expired leases and approvals, refused writes, crashes between two steps,
handlers that act on what they read a transaction ago, clocks at their boundaries,
frames without a hand.

All paths below are relative to `src/backend/app/` unless they start with `src/`.

Contents: [the system](#1-the-system) · [modules](#2-modules) ·
[TaskQueue](#3-taskqueue) · [TaskRuntime](#4-taskruntime) ·
[Idempotency](#5-idempotency) ·
[AuthStore and AuthService](#6-authstore-and-authservice) ·
[DeviceSecurity](#7-devicesecurity) · [RateLimiter](#8-ratelimiter) ·
[gestures](#9-stablegesture-and-gestureengine) ·
[DatabaseRecovery](#10-databaserecovery) ·
[runs and bounds](#11-runs-and-bounds) · [fairness](#12-fairness) ·
[proofs](#13-proofs) · [disagreements](#14-where-the-code-and-its-words-disagree) ·
[not modelled](#15-what-is-not-modelled) · [plan](#16-plan)

## 1. The system

### Components

| Component | Code | State | Operations | Status |
|---|---|---|---|---|
| Durable task queue | `database/queue_db.py` | table `task_queue`: status, attempts, budget, availability, lease, worker | enqueue, claim_next, complete, fail, retry_failed, cancel_queued, cancel, record_reconciliation | TaskQueue |
| Attempt audit | `database/attempt_audit_db.py` | append-only `task_attempt_audit` | append, in the queue's transactions | TaskQueue |
| Worker | `core/task_worker.py` | a thread, a wake event | process_next, run_forever, start, stop, notify | TaskQueue, TaskRuntime |
| Engine | `core/engine.py` | none of its own | execute | TaskRuntime |
| Task registry | `core/task_registry.py`, `database/state_db.py` | tasks in memory, written through to `runtime_tasks` | register, transitions, complete, restore | TaskRuntime |
| Approval registry | `core/approval_registry.py`, `database/state_db.py` | approval requests, written through | create, approve, reject, consume, expiry | TaskRuntime |
| Risk policy | `core/risk_policy.py` | none | assess: allow, require approval or deny | TaskRuntime (as a fixed choice per command) |
| Reconciler | `core/queue_reconciler.py` | none | one repair pass at startup | TaskQueue, TaskRuntime |
| Runtime lifecycle | `core/runtime_state.py`, `src/backend/main.py`, `src/compose.backend.yaml` | started or not, persistence on or off | start, stop | TaskRuntime |
| API | `api/chat.py`, `api/tasks.py`, `api/approvals.py` | none | chat, cancel, retry, approve, reject | TaskRuntime |
| Idempotency keys | `api/idempotency.py`, `database/idempotency_db.py`, `core/idempotency_maintenance.py` | keys: processing, completed, failed, with an expiry | reserve, complete, fail, delete expired | Idempotency |
| Rate limiter | `middleware/rate_limiter.py` | sliding windows per client and token, failures, cooldowns | check, record a failed authentication | RateLimiter |
| Authentication | `database/auth_db.py`, `core/auth_service.py`, `api/auth.py`, `api/admin.py` | users, sessions, login challenges, recovery codes, mailed tokens | register, login, second factor, refresh, logout, reset, verify, administer | AuthStore, AuthService |
| Device security | `database/device_security_db.py`, `core/device_security_service.py`, `api/device_security.py` | devices, their sessions, API keys | link, trust, revoke; create, rotate, revoke keys | DeviceSecurity |
| Security events | `database/security_event_db.py` | append-only record | append, list | left out |
| Gesture control | `gestures/`, `scripts/hand_gesture_*.py` | armed or not, detectors, timers, held button | frames, ticks, emergency stop, end | StableGesture, GestureEngine |
| Migrations, backup, recovery | `database/migrations.py`, `database/recovery*.py`, `src/backend/main.py` | the database file and its log, backups, a lock file | migrate, roll back, back up, verify, prune, restore | DatabaseRecovery |
| The rest | see section 15 | | | left out |

### How they interact

* `POST /chat` registers a task (registry, then SQLite), then enqueues its job
  (another SQLite table, another transaction).
* The worker claims a job, looks at the task, calls `engine.execute`, and
  completes or fails the job. The engine moves the task and the approval
  requests by calls of the two registries, each under its own lock.
* A sensitive command leaves its task waiting and its job *completed*. The task
  goes on when a request thread approves: `approve` returns a token that the
  same thread hands to `engine.execute`, so **commands are executed by the worker
  and by request threads**.
* Approve, reject, cancel, retry and chat may carry an `Idempotency-Key`: the
  handler reserves it, performs its calls, and stores its answer under the key.
* Cancel and retry read the task, read the job, and then write to one, or to one
  after the other.
* At startup tasks and approvals are restored from SQLite, interrupted tasks are
  failed, and the reconciler repairs the queue against the tasks before the
  worker and the API start.
* A login passes through several transactions of the authentication store: read
  the account, check the password, issue a challenge or insert a session, look at
  the account again. Its session is then linked to a device. A changed password,
  a lockout, a disabled account and a revoked device each end sessions in a
  transaction of their own, at any time between those.
* The rate limiter sees each request before it is handled and each failed
  authentication after it; any number of requests are in between.
* The service and the command line share the database file, its log, the
  backups and one lock file; the migrations run at the start of the service and
  after every restore.

### What is hard

Nothing spans two of the stores: task, approval and job each change in a
transaction of their own. So the hard part is everything that may happen between
two of them: another thread, an expiry, a failed write, the end of the process.
The same holds for the handlers of accounts and devices, which check in one
transaction and write in another, and for a restore, which is a dozen file
operations. The rate limiter and the gesture programs are sequential; there the
hard part is timers that meet at their boundaries and a reset that forgets one of
them.
`PROJECT.json` lists each hazard at its line, with the properties that watch it.

### What would make it correct

* queue: deliveries within the budget, one holder of a claim at a time, leases
  honoured, an audit that explains the row, every job settles;
* runtime: a command runs at most once, only with consent, never after the owner
  was told it was cancelled; task and job agree after every restart; accepted
  tasks are served;
* idempotency keys: an action is performed once in the life of its key, the stored
  answer is that of the request and does not change, expired keys go;
* accounts: sessions end with the credentials, the account and the device they
  came with; challenges, codes and tokens work once; a lockout happens at its limit;
  an administrator remains;
* rate limiter: no window holds more than its limit, wherever it starts;
* gestures: no button stays down, nothing is armed or dragged by accident, an
  emergency stop is final;
* recovery: only a whole database of the right release is served, a restore
  is all or nothing and loses nothing it replaced.

## 2. Modules

| Module | What it is |
|---|---|
| `JobLifecycle` | abstract: what the queue promises of each job (phase and remaining deliveries) |
| `TaskQueue` | the queue, its audit, workers and the reconciler, with leases and time |
| `TaskQueueProofs` | theorems about `TaskQueue`, checked by TLAPS |
| `MCTaskQueue` + 2 cfgs | model values, symmetry and bounds for TLC |
| `TaskPromise` | abstract: what the system promises the owner of a task |
| `TaskRuntime` | the process: API threads, worker, engine, registries, restarts |
| `TaskRuntimeProofs` | theorems about `TaskRuntime`, checked by TLAPS |
| `MCTaskRuntime` + 2 cfgs | symmetry and bounds for TLC |
| `Idempotency` | the idempotency keys and the requests around them |
| `IdempotencyProofs` | theorems about `Idempotency`, checked by TLAPS |
| `MCIdempotency` + cfg | bounds for TLC |
| `AuthStore` | the transactions of the authentication store |
| `AuthService` | the account requests as sequences of these transactions |
| `AuthProofs` | theorems about `AuthService` on `AuthStore`, checked by TLAPS |
| `MCAuthService` + 3 cfgs | symmetry, and the operations each run looks at |
| `DeviceSecurity` | devices and API keys of an account, with the account changes that end them |
| `DeviceProofs` | theorems about `DeviceSecurity`, checked by TLAPS |
| `MCDeviceSecurity` + cfg | symmetry and bounds |
| `RateLimiter` | sliding windows and cooldowns, with requests in flight |
| `RateLimiterProofs` | theorems about `RateLimiter`, checked by TLAPS |
| `MCRateLimiter` + cfg | limits and senders |
| `StableGesture` | the stable gesture agent, in both modes |
| `GestureEngine` | the gesture agent with profiles |
| `GestureAgents` | the two programs side by side: one of them is started |
| `GestureProofs` | theorems about `GestureAgents`, checked by TLAPS |
| `MCGestureAgents` + cfg | profiles and thresholds |
| `DatabaseRecovery` | database file, log, backups, lock file, migrations, restores |
| `RecoveryProofs` | theorems about `DatabaseRecovery`, checked by TLAPS |
| `MCDatabaseRecovery` + cfg | bounds |

`TaskQueue` is shown to implement `JobLifecycle`. `TaskRuntime` sees the queue at
the level of `JobLifecycle` (variables `job`, `left`) and is shown to use it only
as `JobLifecycle` allows and to implement `TaskPromise`. So the two levels meet
in one abstract module:

    TaskQueue ==> JobLifecycle <== TaskRuntime ==> TaskPromise

Definitions named "mutant" in a comment are wrong variants of a definition, kept
beside it: each property is known to fail when the definition is replaced by its
mutant, so none of them holds idly.

## 3. TaskQueue

Each operation of `SQLiteTaskQueueStore` is one `BEGIN IMMEDIATE` transaction and
one action.

| Variable | Code |
|---|---|
| `row` | the columns of `task_queue`, `Null` when there is none |
| `older` | the order of `created_at`, by which `claim_next` chooses |
| `job` | the claim a worker has in hand: `job = claim_next(...)` in `process_next` |
| `audit`, `lastRec` | latest lifecycle event, and latest `reconciled` event when it is an observation |
| `recorded` | the answer of `record_reconciliation` |

Time is relative: a lease of *n* runs out in *n* units and `Tick` ages every
timestamp, so there is no clock to bound. The code reads its clock *before* it
waits for SQLite's write lock, for up to 30 s; every timed action therefore takes
a `wait` in `0..BusyTimeout` and works with a time that is `wait` old.

`claim_next` is one action with its sweep: expired claims whose budget is spent
are failed (with an audit row each) and then the oldest due job is claimed; if
there is none the sweep commits alone. `Crash` forgets the claim in hand and
leaves the row. After a crash the same slot may claim again under the same
id, though the code gives every process a new one: the harder case for
`ClaimIsCurrent`.

Properties: `TypeOK` (proved, section 13, and in no run); `RowSound` (budget and claim columns); `AuditExplainsRow`;
`ClaimIsCurrent` (a worker that the row names holds the current attempt, so
the id check in `complete` and `fail` is enough); `LeaseHonoured` (action
property); `LifecycleSpec` (refinement); `ObservationIsCurrent`; `JobsSettle`
(liveness).

## 4. TaskRuntime

One process, one worker thread, some request threads. One step is one call under
a registry lock, or one queue transaction; what a thread read in an earlier step
may be stale. `at[th]` names the call the thread makes next, `on[th]` the task and
approval it works on.

| Variable | Code |
|---|---|
| `task`, `decision` | the task's status; what `RiskPolicy.assess` says of its command |
| `job`, `left`, `ours` | its queue job: phase, remaining deliveries, and whether it carries the task's owner |
| `approval` | the approval requests made for it, in order |
| `runs` | how often the executor was called for it (history) |
| `mode` | up, stopping, down, booting |
| `kept` | what SQLite holds once `stop` has disabled persistence, else `Null`: memory and disk agree |
| `todo` | what the reconciliation pass has still to visit |
| `exits`, `faults` | bounded counters of ends of the process and of failed writes |

| Actions | Code |
|---|---|
| `Register`, `Enqueue` | `chat` |
| `Poll`, `Inspect`, `QueueComplete`, `QueueFail`, `QueueDrop` | `claim_next`, `process_next` |
| `EnsureRegistered` ... `RecordFailure` (`EngineStep`) | `engine.execute`, one action per registry call |
| `BeginDecision`, `Approve`, `Reject` | `/approvals/{id}/approve`, `/reject` |
| `BeginPending`, `CancelRead`, `CancelJob`, `CancelTask`, `RetryRead`, `RetryFailed` | `/tasks/{id}/cancel`, `/retry` |
| `StorageFails` | any of these writes raises (the registries roll memory back) and the exception goes where the code lets it go (`OnFailure`) |
| `Expire` | an approval request or grant passes its deadline (300 s) |
| `Crash`; `Stop`, `Exit`; `Restart`, `Reconcile`, `Serve` | process death; `RuntimeStateManager.stop`; `start` |

Choices worth knowing:

* A task's owner is never "local-user", whose jobs the worker takes from anyone.
* A status the task already has is accepted (`MayBecome`), as in `transition()`.
* A handler that rejects an approval and then fails to cancel the task stops
  there, as in the code; so does a handler whose process dies.
* `claim_next` may find any claim expired while a process is up; the model has
  one worker, so this matters only for claims left by a `fail` that itself failed
  or by a dead process.
* Reconciliation visits one task and its job per step, so a crash may cut the
  pass anywhere; the next start repeats it from the beginning.

Properties: `RuntimeInv` (`TypeOK`, `AtMostOnce` and `RunsHadConsent`: whatever is
redelivered, retried or restarted, a command is executed at most once and only
when it was allowed or approved); `ApprovalsExclusive`; `CancelledNeverRan`;
`DeliveredIsSettled`; `ReconciledAgree` (action property); `TaskPromiseSpec` and
`JobLifecycleSpec` (refinements); `TasksProgress` (liveness: `PendingIsServed`
and `RunningEnds`).

Two of them need storage that does not fail: with one failed write
`CancelledNeverRan`, and with it `TaskPromiseSpec`, is false (section 14), so
`runtime` has `MaxFaults = 0`. And with failed writes a task may be left pending
without a job, or running with nobody at work on it, until the next restart:
`TasksProgress` is checked with three failed writes and says what remains true.
`JoinTimesOut` stays `FALSE`: a stop that gives up on a busy worker breaks
`DeliveredIsSettled` (section 14).

## 5. Idempotency

A key is one row of the store: owner, method, path and key fingerprint. A request
is its fingerprint. What the request does (the calls of `TaskRuntime`, or the chat
pipeline) is one step here, which succeeds, is refused, or raises what no handler
finalizes.

| Variable | Code |
|---|---|
| `row` | the record of a key: request, stored answer (`Null` while `processing`), remaining life |
| `older` | the order of `sequence_id`, by which maintenance deletes |
| `at`, `on` | what each handler does next; its key, request and answer, and whether the record it reserved is still there (`own`) |
| `cover` | how long the action performed under a key stays covered by it (history) |

| Actions | Code |
|---|---|
| `Reserve`, `Replay` | `reserve`, as called by `reserve_sensitive_action` and by `_reserve_idempotency` of chat |
| `Perform` | what the handler does between reserving and storing |
| `Finish`, `FinishFails` | `complete` and `fail`, both `_finish`; a missing record or a failed write |
| `Reply` | the answer goes out |
| `Sweep` (`Maintain`) | `delete_expired`, called by the maintenance thread |
| `Crash`, `Tick` | the process dies with its requests; time passes |

A reservation that is refused (409) changes nothing and is no step. Times are
relative and clocks are read before the write lock, as in `TaskQueue`; the life of
a key is at least 60 s and so longer than any lock wait (30 s).

Nothing in the code ends a request when its key expires. `_finish` looks the record
up by key and not by the id it reserved, so a request that outlived its key may
store its answer in the record of a later one. The model allows this and marks
such an answer `late`. The properties say what remains true:

* `WorkIsReserved`: a handler that still owns its record is the only one, and
  when it goes to work the action was not performed before in the life of the
  key: after a retry, a crash, a failed write or an expiry;
* `AnswersMatch`: an answer handed out is the one to its request and the one on
  file, unless that one is `late`;
* `FinalIsStable` (action property): a stored answer is never replaced;
* `ExpiredGoes` (liveness): no expired record stays for ever.

`TypeOK` is proved (section 13) and in no run.

## 6. AuthStore and AuthService

`AuthStore` has one operator per write transaction of `SQLiteAuthenticationStore`,
with the guard the code tests inside the transaction under a name of its own
(`PasswordMatches`, `ProofIsGood`, ...). `AuthService` is the handlers: `call[h]`
is the request that handler `h` serves, `at` the transaction it makes next, the
other fields what it has read. A refusal leaves the store alone and the handler
idle; `Drop` is that, and also the end of the process.

| Variable | Code |
|---|---|
| `account` | `users`: status, password, role, failed logins and their window, lock, secrets and counter of the second factor, recovery codes |
| `session` | `sessions`: status, user, rotation of the refresh token, and what it was opened with (history) |
| `challenge` | `two_factor_challenges` |
| `token` | mailed tokens: e-mail verification and password reset |
| `call` | what a request thread holds between two transactions |

| Actions | Code |
|---|---|
| `Login` ... `SendTokens` (`LoginStep`) | `login`, `_create_session_bundle`, `record_login_failure` |
| `FindChallenge` ... `ApplyProtectedChange` (`FactorStep`) | `verify_login_two_factor`, `disable_two_factor`, `regenerate_recovery_codes` |
| `Refresh` ... `ConfirmTwoFactor` (`SessionStep`) | `refresh`, `logout*`, `change_password`, setup of the second factor |
| `ReadUnverified` ... `ResetsPassword` (`TokenStep`) | verification and reset by mail |
| `EnableAccount` ... `RemoveRole` (`AdminStep`) | `api/admin.py` |
| `Deadline` | any `expires_at` or window passes |

Secrets are numbers: a *salt* is a version of the second-factor secret, a TOTP
code the time step it is for, a recovery code one of those handed out. A login that
has passed its checks before the credentials changed, and inserts its session
afterwards, is marked `late`: the code does not look at them again, and the
properties say so.

* `SessionsInv` (with `TypeOK`): a live session that is not `late` goes with the
  password and the second factor the account has now;
* `LockoutHolds`: in addition, no client holds a live session of an account that is
  locked or disabled (`_create_session_bundle` looks again after its insert), and no
  active account has reached the limit;
* `OneSessionPerChallenge`, `FactorIsChecked`: a challenge opens one session and uses
  up a code, also when two requests present it, or the same code with two
  challenges; the secret that is switched on is the one the code was checked with;
* `TokensWorkOnce`: a refresh token is exchanged once, and of each purpose an account
  has one usable mailed token;
* `LastAdminStays` (action property): requests of administrators never take the last
  active administrator away. A lockout may: all administrators can end up locked by
  failed logins, until the locks are over.

## 7. DeviceSecurity

Devices and keys of one account. Every statement names the user, so accounts do
not meet here. SQLite takes its write lock at the first write, so what
`register_session_device` and `revoke_device` have selected may be out of date
when they write: they are two actions each.

| Variable | Code |
|---|---|
| `account`, `session` | what of the authentication tables matters here |
| `link`, `device` | `session_devices`, `devices` |
| `key` | API keys: status, the key it was rotated from, the password it was made under |
| `call` | as in `AuthService` |

* `NoLiveSessionOnRevokedDevice`: a session that goes on is not one of a revoked
  device, unless it was linked after `revoke_device` had read the sessions
  (`missed`) or the device has been seen again since;
* `KeysInv` (with `TypeOK`): at most `MaxActiveKeys` active keys, and a key is
  rotated at most once, however many requests race;
* `KeysFollowAccount`: a key that works was made under the present password of an
  account that is not disabled, or a handler is about to revoke it, or that
  revocation failed (`LeaveKeys`; the handler answers with success).

## 8. RateLimiter

The middleware runs on the event loop: the checks before `call_next` are one
step, what follows its answer is another. The clock counts ticks, `Ticks` to a
second, as the store compares instants and announces seconds.

| Variable | Code |
|---|---|
| `now` | the monotonic clock |
| `bucket`, `failures`, `blockedUntil` | `SlidingWindowRateLimitStore` |
| `inFlight` | requests handed to `call_next` |
| `served`, `rejected` | histories: what was accepted, and answered 401, in the last window |

`Prune` is the loop of `_prune`: it pops the head for as long as that has left the
window, and `Expired` is how many it pops, the number at which the condition of the loop
is false for the first time. Nothing is assumed about the order of the deque; that the
instants are in order is part of what is proved (section 13). The histories forget in
another way: at each tick `Recent` drops what happened so many seconds ago or earlier,
whether or not the store has looked at the bucket since.

The properties compare the store with the histories, which know nothing of pruning:
`WindowsInv` (no stretch of a window holds more than the limit), `RetryAfterIsExact`
(the wait a rule announces is enough for that rule and not a second too long),
`FewFailuresShown` (fewer 401 than the limit in any window, also from requests that were
in flight when the limit was reached, and across a cooldown that is shorter than the
window).

A request must pass two rules, the general one and that of its category (`Passes`), and a
429 names the wait of the one that refused. So `RetryAfterIsExact` does not promise who
waits as told that it is let in (section 14): it says what each rule's number means, and
that for both rules together, with the buckets as they are, the longer of their two
numbers suffices and a second less does not.

## 9. StableGesture and GestureEngine

A camera frame is a step: the pose the recognizer reports, the finger that pinches,
how far the palm has moved. A tick is another; instants of the code are ages here.
Each detector is an operator of its own, and an operator on the agent takes the
record of its fields and gives the one after it, in the order of
`process_observation` and `process_frame`. `GestureAgents` starts one of the two
programs.

| Variables | Code |
|---|---|
| `agent` / `engine` | the fields of the agent, its detectors, safety controller and dispatcher |
| `held`, `calls` / `button`, `made` | the desktop: left button, calls of the last step |
| `simple` | the mode of the stable agent |
| `pinched`, `palm`, `quiet` / `hand`, `raised` | histories: how long what has been shown |

* `NoButtonLeftDown` (with both types): the button is down only while the agent is
  armed and a pinch, or a watchdog that is running, will let it go; a palm that has
  acted has ended the drag. The one exception is `raised`: the release itself raises
  at PyAutoGUI's fail-safe corner;
* `PosesAreDeliberate`: arming, disarming and dragging take their hold without a break;
* `ActionsKeepBounds`: a pose acts once, right and double clicks keep their cooldown,
  and after an emergency stop of the engine nothing is called but a release.

Worth knowing: the engine's hold for arming goes on over frames without a hand, and an
emergency stop of the stable agent while it is not armed does not restart its hold;
a click during a drag ends the drag on the desktop but not in the dispatcher; a pose
with dwell 0 fires twice and only its cooldown prevents that; `reset_emergency` is
called by no program. Which profile is active depends on the window in front and
is a free choice per frame. A camera that stalls gives no frames: nothing then lets
the button go.

## 10. DatabaseRecovery

The service and the command line are two processes; a step is one file operation or
one transaction, and a process may end after any of them. The database is a file
and its write-ahead log; a database is *sound* unless a log of another one lies
beside it.

| Variable | Code |
|---|---|
| `db`, `wal`, `previous`, `temp` | `runtime.db`, its log, the file a restore moves aside, the copy it puts in place |
| `backup`, `made` | backup files with their sidecars |
| `lock` | the lock file of `_operation_lock`, stale after an hour |
| `op` | what each process is doing |
| `release`, `up`, `writes`, `incidents` | installed program, service, last write, bounded counter of crashes and deployments |
| `owed`, `raced`, `unflushed` | histories |

| Actions | Code |
|---|---|
| `Acquire`, `UnlinkStaleLock`, `CreateLock`, `LockAges` | `_operation_lock` |
| `Snapshot`, `Describe`, `Discard`, `VerifyBackup` | `create_backup`, `verify_backup` |
| `List`, `RemoveSidecar`, `RemoveFile`, `Pruned` | `prune_backups`, `_prune_unlocked` |
| `ReadSchema`, `ApplyMigration`, `Migrated`, `MigrationFails`, `Rollback` | `migrate`, `rollback_last` |
| `Check`, `Checkpoint`, `Copy`, `MoveAside`, `Replace`, `RemoveLog`, `Finish` | `restore_backup` |
| `Undo`, `Drop`, `PutBack` | its except clause: the copy goes, the new file goes, the old one comes back |
| `Fails`, `CutShort`, `Crash` | a call that raises; one of the except clause that raises, or an interrupt that passes it by; the end of a process |
| `Start`, `Stop`, `Write`, `Deploy`, `BeginMigrate` | `lifespan`, the command line, the environment |

`Keeps` is how many backups a prune leaves: `retention_count`, or what the caller of
`prune_backups` asks for (`--keep`, `?keep=`), one or more, which may be less. Each of the
file calls of a restore may raise, those of its except clause too, and an operator may
interrupt the command anywhere: a `KeyboardInterrupt` is no `Exception`, so `finally` gives
the lock back and the except clause is left out.

* `RecoveryInv`: well-formed files, and one backup operation at a time, until two
  processes have found the same stale lock file (`raced`: both remove it and one
  removes the other's);
* `ReplacedIsKept`: what a restore replaces stays in the database, in the file put
  aside or in a complete backup, until as many newer backups were made as
  `retention_count`, or as the smallest number a prune was asked to keep since
  (`owed` remembers it as `least`);
* `ServesWhole`: the service runs only on a whole database of its own release;
* `RestoreIsAllOrNothing`, of every end of a restore: one that returns has put the chosen
  backup in place; one that raises has left or put back the data it found. Where
  its except clause raises or is left out, by an interrupt or a crash, that data
  is in the database or in `.restore.previous`. Both are stated for a restore whose
  checkpoint worked; that its safety backup, once made, holds the data is stated of
  every end, without a checkpoint too;
* `NewBackupSurvives`: a prune never takes the backup that `create_backup` is about to
  return.

Assumed, as the runbook asks (`src/backend/docs/database_recovery.md`): restores and
rollbacks run while the service is down, the command line runs one command at a time,
and no operation takes an hour. Worth knowing: the safety backup of a restore
refuses a damaged database, so that nothing can be restored over one; a restore that
fails where no database was before leaves the new file; after a failed checkpoint a
crash can leave the old log beside the new file (`unflushed`); of two processes that
migrate at once the second fails, and nothing is applied twice. The backup catalog is
written and never read, so only that it may fail is modelled.

## 11. Runs and bounds

| Run | Bounds | States | Shows |
|---|---|---|---|
| `queue` | 2 jobs, 2 workers, budget 2, lease 2, delay 1, lock wait 1, 1 observation | 239,850 | all queue invariants, `LeaseHonoured`, implements `JobLifecycle` |
| `queue_live` | the same without lock wait and observations | 60,637 | `JobsSettle` |
| `runtime` | 2 tasks, 2 handlers, 1 end of the process, no fault | 237,346 | `CancelledNeverRan`, implements `TaskPromise` |
| `runtime_faults` | 1 task, 2 handlers, budget 2, 2 ends, 3 faults, 3 approvals | 314,800 | the other runtime properties, keeps to `JobLifecycle`, `TasksProgress` |
| `idempotency` | 2 keys, 2 requests, 2 handlers, life 1, batch 1 | 151,075 | the properties of section 5 |
| `auth_factor` | 1 account, 2 handlers, 2 sessions, 2 challenges, 3 secrets, 1 recovery code | 583,144 | `SessionsInv`, `OneSessionPerChallenge`, `FactorIsChecked` |
| `auth_admin` | 2 accounts, 2 handlers, 1 session, limit 2 | 247,393 | `LockoutHolds`, `LastAdminStays` |
| `auth_sessions` | 1 account, 2 handlers, 1 session, 2 tokens, 2 rotations | 1,097,403 | `SessionsInv`, `TokensWorkOnce` |
| `devices` | 1 device, 2 sessions, 3 keys, limit 1, 2 handlers, 2 passwords | 463,102 | the properties of section 7 |
| `rate_limiter` | 2 clients, 1 token, 2 categories, 2 in flight, windows of 2 s, 2 ticks a second, 5 ticks | 291,100 | the properties of section 8 |
| `gestures` | 2 programs, holds of 2 ticks, 2 frames, 2 profiles | 83,899 | the properties of section 9 |
| `recovery` | 2 processes, 3 backups, retention 2, prunes that keep 1 to 3, 2 releases, 1 write, 1 incident, until a lock file is lost | 1,583,685 | the properties of section 10 |

Why this is enough to be worth having. Two jobs and two workers give every pair
of a claim, a lost claim and another job in the order; budget 2 separates first,
last and exhausted attempt; a lease longer than the delay and a lock wait of one
unit give every order of the three deadlines. In the runtime two handlers and
the worker give three threads in `engine.execute` on the same task; two ends of
the process give a crash in the middle of the repair of a crash; three faults
let an operation, its compensation and the redelivery fail. Two tasks matter only
where tasks compete: for the worker and in a sweep. Two keys and a batch of one let a
sweep pass an expired key over; two handlers let one outlive its key while the other
reserves it anew. The lock wait of `Idempotency` is left to its proofs, which need
none of these bounds.

For accounts two handlers are what every hazard of the list needs: one that has
checked and one that changes what was checked. Three secrets let a setup be
overtaken by another setup after the first was switched on; one recovery code makes
the second use of it visible; two accounts are an administrator and someone whom it
promotes, disables or removes. The operations are divided over three runs, as those of
different runs share little but the account row: `Operations` names them, and each
run has the ones that can break its properties together. Three keys with a limit of
one let a key be rotated while another is created. For the limiter five ticks are more than
a window and a cooldown, and two requests in flight pass the check together. Thresholds
of the gestures are above one tick and one frame where the code counts them, so
that a break in the middle is possible. Three backups with a retention of
two are enough for a prune that keeps fewer than the setting and for one that is left
half removed by a crash; one incident is a crash, an interrupt, an except clause that
raises, a deployment or a rollback. Backups are verified before the incident only
(`VerifiesEarly`): verifying changes nothing but the lock and the schema, as the other
operations do after it too. The run stops
where a process has removed a lock file under its owner (`UntilLockIsLost`): from there
the operations promise nothing, and that `ServesWhole` holds all the same is proved
(section 13).

The bounds are named constants (`MaxApprovals`, `MaxExits`, `MaxFaults`, `MaxSalts`,
`MaxCounter`, `MaxRotations`, `MaxTime`, `MaxBackups`, `MaxWrites`, `MaxIncidents`);
reaching `MaxApprovals` blocks the creation of one more request, which is why it is
larger than what the other bounds let happen in the safety runs.

Deadlock checking is off where the system may stop or its bounds be used up: a runtime
whose tasks have all ended, accounts that are all disabled, a clock at its last tick,
a gesture program that was left. Elsewhere something always goes on, and it is checked.

Properties that are conjunctions (`RuntimeInv`, `SessionsInv`, `KeysInv`,
`NoButtonLeftDown`, ...) are defined at the end of their module from parts that are
stated, each with its comment, above them.

## 12. Fairness

* Queue: time passes, every worker keeps polling, and every claim in hand ends
  by `complete`, `fail`, `cancel` or the loss of the claim. `run_forever` catches
  every exception of a round and polls again; `process_next` always ends in one of
  those calls. Crashes are not bounded and nothing is assumed about which outcome
  an attempt has; budgets make it end.
* Idempotency: time passes, and the maintenance thread goes on: it is started with
  the process, enabled by default, and `run_once` catches every exception. Nothing
  is assumed of the requests.
* Runtime: the worker polls (`poll_interval` bounds its sleep, so a lost wake-up of
  `notify` does not matter), calls of a live thread return, startup goes on, and a
  dead process is started again (`restart: unless-stopped`,
  `src/compose.backend.yaml:46`). **No** fairness for requests, approvals, expiry,
  crashes or faults: the owner may never answer. `PendingIsServed` therefore lets a
  task wait for approval for ever.
* The other modules state safety only. Nothing in the code makes a client come back,
  an operator repeat a restore or a camera deliver frames.

`JobsSettle` needs one premise: failed jobs are not retried by hand for ever. A
retried job keeps its `created_at`, so endless retries of an old job starve the
younger ones.

## 13. Proofs

`TaskQueueProofs` proves, for any finite or infinite set of jobs and workers and
any budget, lease, delay and lock wait (`QueueAssumption`: they are natural
numbers, the budget is positive and `Null` is no value of any other type):

| Theorem | Statement |
|---|---|
| `TypeCorrect` | `Spec => []TypeOK` |
| `BudgetRespected` | `Spec => []RowSound` |
| `AuditAgreement` | `Spec => []AuditExplainsRow` |
| `CurrentClaims` | `Spec => []ClaimIsCurrent` |
| `LeasesHonoured` | `Spec => LeaseHonoured` |
| `ObservationsCurrent` | `Spec => []ObservationIsCurrent` |
| `Refinement` | `Spec => LifecycleSpec` |

The argument. `Invariance` proves one inductive invariant, `IInv`: the conjunction
of `TypeOK`, `RowSound`, `AuditExplainsRow` and `ClaimIsCurrent`. The four need each
other, which is why they are proved together: an event appended by `fail` explains
its row only because the row was sound before (a claimed row has consumed between
one attempt and its budget); `TypeOK` keeps `attempts` within the budget only
because a queued row has budget left (`RowSound`); and the claim a worker holds is
current because a worker claims with empty hands and a row names a worker only
between that claim and the end of it. The proof of a step does not go through the
actions once per conjunct: `StepMovesRows` first shows that every step moves every
row along one of a few edges (inserted, aged, claimed, exhausted, failed, finished,
retried) or leaves it alone, `EdgesKeepRowsGood` that every edge keeps a row well
formed, and `StepMovesAudit` that a row that moved has got the event of its edge.
`LeasesHonoured` follows from the
guard of the expired claims in `claim_next` and the invariant's claim columns:
`wait` is never negative, so what an old clock calls expired has expired.
`ObservationsCurrent` is inductive with the types: `StepMovesNotes` shows that a step
either forgets the answer for a job, or leaves its latest observation alone while the row
at most ages, or files what the row says at that moment.
`Refinement` maps each action, job by job, to an edge of `JobLifecycle` or to
`Stay`; it needs `RowSound` (a failed job has no deliveries left) to show that a
failure with budget left never skips the queue.

`IdempotencyProofs` proves, for any keys, requests and handlers and any life, lock
wait and batch size (`IdempotencyAssumption`: the life is longer than the lock
wait):

| Theorem | Statement |
|---|---|
| `KeysTypeCorrect` | `Spec => []TypeOK` |
| `KeysExclusive` | `Spec => []WorkIsReserved` |
| `KeysAnswer` | `Spec => []AnswersMatch` |
| `KeysStable` | `Spec => FinalIsStable` |

Its inductive invariant `IInv` adds to the properties what they rest on:
`Reservations` (an owner's record is there, is for its request, and is processing
unless a late answer came first), `Coverage` (what was performed is covered for
at most the life of the record: this is why a handler that finds the key free may
go to work), `InHand` (an answer about to be stored is the one to the handler's own
request) and `OnFile` (a stored answer is the one to the record's request, or late).

`RecoveryProofs` proves, for any retention, releases and bounds
(`RecoveryAssumption`), `RecoveryCorrect`: `Spec => []RecoveryInv`. Its inductive
invariant adds to the types what an operation can be at each of its steps
(`Coherent`: an idle process remembers nothing, a restore knows its backup, only
`create` and `prune` remove) and `LockNamesHolder`: whoever holds the lock is named
in the lock file, until a lock file has been removed under its owner. So two holders
would be one process. Every action either lets one operation go on with the lock as
it is (`GoesOn`), or ends it and gives back the lock it had (`Returns`), or is one of
the four that touch the lock file.

Its second part builds on that and proves, under the same assumption, what is in the
files meanwhile:

| Theorem | Statement |
|---|---|
| `ServiceRunsOnWholeDatabase` | `Spec => []ServesWhole` |
| `NothingRestoredOverIsLost` | `Spec => []ReplacedIsKept` |
| `RestoresAreAllOrNothing` | `Spec => RestoreIsAllOrNothing` |
| `PruningSparesTheNewBackup` | `Spec => NewBackupSurvives` |

The inductive invariant `JInv` adds six parts. `OrderOK` ties each step of an operation
to its kind and to what comes next. `Alone` says that nothing runs beside a restore and
that the service waits for its schema. `Whole` says which file may be a mixture and
that a process which migrates has not overtaken the database: two processes may migrate
at once, so the version one of them has reached is only a lower bound of the version on
file. `RestoreOK` says, step by step of a restore, where the data it found is (`OldKept`:
the database with its log, then the file put aside, then the database again) and how far
the chosen backup has come (`NewComes`); `RestoreIsAllOrNothing` is what they say at the
last step, whichever that is: at the steps where the data is only in the file put aside, the
operation can end by `CutShort` or `Crash` and by nothing else. `KeptOK` is about
retention, and is stronger than the property it is for: what a restore has replaced is in
the backup with the number `since`, or at least `least` newer numbers have been given out
(`Outlived`). Pruning keeps this although backups without a sidecar count as the oldest:
whatever is complete and taken has as many newer backups beside it as the prune keeps
(`TakenIsOutlived`, by counting them), `least` has become no more than that number in the
same step, and the newest is never taken because at least one is kept. `SafetyOK` says
that a restore which has made its safety backup still has it, with the data it found,
whether or not its checkpoint worked; it is the clause of `RestoreIsAllOrNothing` that
exempts nothing. Between two lock holders nothing needs to be said
of the other's list of files, as there are none (`LockNamesHolder`); this is where
`~raced` is used.

`TaskRuntimeProofs` proves, for any tasks and handlers, any budget and any number of
approval requests, restarts and failed writes (`RuntimeAssumption`), and as long as
an orderly stop waits for the worker (`StopsWait`):

| Theorem | Statement |
|---|---|
| `Invariance` | `Spec /\ StopsWait => []IInv` |
| `RuntimeInvHolds` | `Spec /\ StopsWait => []RuntimeInv` |
| `ApprovalsExclusiveHolds` | `Spec /\ StopsWait => []ApprovalsExclusive` |
| `DeliveredIsSettledHolds` | `Spec /\ StopsWait => []DeliveredIsSettled` |
| `ReconciledAgreeHolds` | `Spec /\ StopsWait => ReconciledAgree` |
| `JobLifecycleHolds` | `Spec /\ StopsWait => JobLifecycleSpec` |
| `CleanInvariance` | `Spec /\ StopsWait => [](IInv /\ (faults = 0 => CleanInv))` |
| `CancelledNeverRanHolds` | `Spec /\ StopsWait => [](faults = 0 => CancelledNeverRan)` |
| `TaskPromiseHolds` | `Spec /\ StopsWait /\ [](faults = 0) => TaskPromiseSpec` |

`StopsWait == [][Stop => at[Worker] = "idle"]_vars` leaves out one thing the code can
do: give up on a busy worker after 30 s and disable persistence under it
(`core/runtime_state.py:299`, section 14). Memory and disk then drift apart and the
properties are false, so the hypothesis is needed; `NeverGivesUp` shows that
`JoinTimesOut = FALSE`, as in the runs, implies it.

The argument has three parts. `TaskOK` and `ApprovalOK` say what a task, its job, its
runs and its requests can be together: a task that runs or ran had consent and ran
once, and only its last request is open. `Stage` says what the task and the request of a
thread look like at the call it makes next, which is the hard part: it is what a thread may
still rely on of something it read several calls ago, whatever the others did since.
`Alone` says which threads exclude each other: nobody else starts the command of a task
that one thread is about to start. `ModeOK` says how far a reconciliation pass has come.
Every action is shown to move only its own task and its own thread (the frame
lemmas), and every conjunct to survive what the others do. Failed writes, crashes and
restarts are actions like any other, so the first four theorems hold under all of them.

What the owner is promised needs more: with a failed write between the two halves of a
cancellation it is false. `CleanInv` is a second layer over `IInv`, true while
`faults = 0`: job and task then also agree while the process runs, and a thread that is
about to cancel a task holds a job that nobody can claim. `TaskPromiseHolds` maps every
step of the runtime to a step of `TaskPromise` or to a stutter from that layer, and
`JobLifecycleHolds` the job of every step to an edge of `JobLifecycle` from the first.

`AuthProofs` proves, for any users, handlers, passwords, sessions, challenges, tokens and
limits (`StoreAssumption`, `ServiceAssumption`: limits are numbers, the failure limit and
the number of recovery codes are positive, `Null` is no row and no value):

| Theorem | Statement |
|---|---|
| `OnlyMoves` | `Spec => [][StoreMove]_vars` |
| `SessionsInvHolds` | `Spec => []SessionsInv` |
| `OneSessionPerChallengeHolds` | `Spec => []OneSessionPerChallenge` |
| `LockoutAlwaysHolds` | `Spec => []LockoutHolds` |
| `TokensAlwaysWorkOnce` | `Spec => []TokensWorkOnce` |
| `FactorAlwaysChecked` | `Spec => FactorIsChecked` |
| `LastAdminAlwaysStays` | `Spec => LastAdminStays` |

There are some thirty transactions and twice as many steps of handlers, so the proof goes
through edges, as for the queue. `StoreMove` says that each row of each table moves along
one of a few: an account keeps its credentials and stays active, or all its sessions end; a
session never becomes active again, changes its user or takes a refresh token back, and is
handed out only by a handler that stands at its reply; a challenge is consumed only with a
proof; a new mailed token is the only usable one. One lemma per transaction shows that it
moves along the edges; `MovesKeep` that whatever does keeps the promises of the store, and
`FactorAlwaysChecked` and `LastAdminAlwaysStays` follow from the edges alone. The rest
of `IInv` is what a handler may rely on between two transactions: `Fits` (what its request
has established at each step), `ReplyOK` (the tokens it is about to send are those of
an active account: `_create_session_bundle` looks at the account again after its insert,
and whatever ends the account later ends the session in the same transaction), `PassedInv`
(a handler that has answered a challenge is the only one, and no session has that challenge
yet) and `RefreshInv` (every refresh token that was presented is older than the one on
file).

`DeviceProofs` proves, for any devices, sessions, keys, handlers, passwords and any limit
(`DeviceAssumption`):

| Theorem | Statement |
|---|---|
| `KeysInvHolds` | `Spec => []KeysInv` |
| `NoLiveSessionHolds` | `Spec => []NoLiveSessionOnRevokedDevice` |
| `KeysFollowHolds` | `Spec => []KeysFollowAccount` |

Each has an inductive invariant of its own over well-formed rows. `KeysIInv` adds that the
active keys are finitely many, which makes the count of them mean something when a key is
added, and that a key with a successor is no longer active: this is why the second of two
rotations is refused. `LinkIInv` says of a revocation between its two halves which sessions
it has read and which it will miss. `KeysFollowAccount` is inductive as it stands: the
revocation of all keys that a changed password owes stays due until it is made or fails.

`GestureProofs` proves, for any poses, fingers, profiles and thresholds
(`GestureAssumption`, `EngineAssumption`: the frame counts, the hold of a drag and the
thresholds of the engine are positive, as `stable_agent.py:71` sets and
`gestures/config.py:120` demands):

| Theorem | Statement |
|---|---|
| `NoButtonIsLeftDown` | `PalmCools` proves `AgentsSpec => []NoButtonLeftDown` |
| `PosesAreAlwaysDeliberate` | `AgentsSpec => PosesAreDeliberate` |
| `ActionsAlwaysKeepBounds` | `PosesDwell` proves `AgentsSpec => ActionsKeepBounds` |

Two of them need something of the profiles, which are configuration. `PalmCools`: a palm
that lets go of the button has no longer cooldown than dwell; otherwise a palm that comes
back while its cooldown runs uses its one action up on nothing and the drag goes on.
`PosesDwell`: no pose has dwell 0, since the latch does not mark one that
fires in its first frame. All five profiles of `src/backend/gesture_profiles/` satisfy both
(`open_palm` has 100 ms and 100 ms; the only actions without dwell are the pointer,
scrolling and swipes, which do not go through the latch), and so do those of the run; the
loader checks neither, and a profile that leaves both times of the palm to its defaults
(120 ms and 350 ms, `gestures/profiles.py:94`) does not satisfy `PalmCools`.

The invariant is in two halves that share nothing, as one of the programs runs.
`StableInv` says of every detector that what it measures is not longer than what was shown:
a press is not older than the pinch (`PressIsShown`), a hold for arming not older than the
palm (`PalmIsShown`), a latch's cooldown not further than the last click is away
(`CooldownIsKept`); and that a press or a drag goes with an active pinch of an armed agent.
`EngineInv` says the same of the hold for arming and of the rest after a toggle
(`ArmIsShown`, `RestIsShown`), and that a drag has an armed engine and a running watchdog.
`PalmIsReady` and `DoneIsLatched`, each under its hypothesis, tie the latch to the cooldown
of the palm and to the pose that has acted. A frame is a chain of operators on the record
of the engine, so each operator has a lemma about what it keeps, `FrameChain` composes
them, and one lemma per action does the rest.

`RateLimiterProofs` proves, for any limits, windows, cooldown, ticks to a second, clients,
tokens, senders and categories and any number of requests in flight (`LimiterAssumption`:
every setting is at least 1, as `_validate_positive_integer` demands, and a client's address is
never a token):

| Theorem | Statement |
|---|---|
| `LimiterInvariant` | `Spec => []LimiterInv` |
| `WindowsHoldTheirLimits` | `Spec => []WindowsInv` |
| `RetryAfterExactness` | `Spec => []RetryAfterIsExact` |
| `FewFailuresAreShown` | `Spec => []FewFailuresShown` |

None of the three properties is inductive: they speak of the histories, while the store
decides with lists that it prunes when somebody asks, now with one identifier and now
with another. `LimiterInv` adds to the types, for every history and its list (`Followed`), that both are
in order and not in the future, that the history holds nothing older than the window
(`Within`), and that it never runs ahead of the list (`Trails`): counted from the end,
each of its instants has one in the list at its place that is as late. So whatever
pruning takes from a list was too old for the history already (`PruneFollowed`), a
bucket that is not full leaves room for one more in the history, and no bucket exceeds its
limit. The lists of a client's failures differ from its history: the failure that reaches
the limit is in the list and is answered 429, so a later window may hold it in the
store and not in the history, and a cooldown shorter than the window ends with a list
that is still full; `Trails` covers both, as it compares places from the end.

`RetryAfterIsExact` needs of this that a full bucket holds exactly its limit in order: it
has room again as soon as its oldest instant has left (`HeadDecides`), the ceiling is the
least whole number of seconds that takes at least so long (`CeilingFacts`), and the
longest wait of the full buckets is exact because a request looks at two buckets at most
(`FullOnes`, `LargestOfTwo`), and waiting longer never fills one again (`PruneLater`). Of
two rules, the longer wait is enough because what a rule lets in after its own wait it
lets in later too (`AllowedAfter`), and a second less is not, because the rule that
announced it refuses then (`LongerExact`). The
loop over the deque needs no induction, as it is described by the state in which it
stops; that there is one follows from a set of positions closed downwards being an
interval (`InitialPositions`).

Checked by TLC only: the liveness properties (`JobsSettle`, `TasksProgress`,
`ExpiredGoes`), as temporal proofs under fairness need `ENABLED`, out of this
prover's reach. Every safety property that a run checks is stated by a theorem.

## 14. Where the code and its words disagree

The models do what the code does; none of the properties above states any of these
sentences.

* `database/queue_db.py:1102`: reconciliation observations are deduplicated against
  the latest `reconciled` event, whatever happened since. A job that fails again on
  the same attempt number after a manual retry gets no new record, although the
  docstring speaks of "allowing a later lifecycle change to produce a new
  reconciliation record".
* `api/tasks.py:801`: a cancel request acts on the task it read at its start. When
  the queue's `complete` fails once, the job of a task that waits for approval is
  queued again; the request cancels that job and then the task, which was
  approved meanwhile and is running.
* `api/tasks.py:744`: a waiting task whose request has expired can be neither
  approved, rejected, cancelled nor retried.
* `core/queue_reconciler.py:88`: "Failed queue jobs remain preserved for explicit retry
  through the retry API"; but a job recreated at startup gets the owner `local-user`. It fails each
  delivery, and the retry and cancel calls answer its real owner that there is no
  such task.
* `core/runtime_state.py:299`: a stop that gives up on a busy worker disables
  persistence under it; a command that was already run comes back as a pending task.
* `src/backend/docs/hand_gesture_stable_mode.md:13`: the cooldown "to prevent repeated
  clicks" does not hold for left clicks, which are sent when the pinch ends.

* `middleware/rate_limiter.py:756-839`: `Retry-After` is the wait of the rule that refused.
  A request that its category refuses has been counted by the general rule already, so
  who comes back after the wait it was told may be refused by the general rule
  (chat from one client, general requests beside it); it then learns the other wait.
* `src/backend/docs/database_recovery.md:34`: "A failed replacement attempts to restore the prior
  database". It is an attempt indeed: when `source.unlink` or `os.replace` of the except clause
  raises, or the operator interrupts the command (`database/recovery.py:462`), the data
  stays in `.restore.previous` and in the safety backup, and no database may be left; the
  next start then creates an empty one. `docs/` does not say so, and the next restore
  removes `.restore.previous`.
* `database/recovery.py:441`: a checkpoint that fails is passed over. What the log holds is
  then missing from `.restore.previous`, so that an undo puts back an older state, and a
  crash before the log is removed leaves it beside the new file. The safety backup has
  everything.
* `database/recovery.py:153`: two processes that find the same stale lock file both remove
  it, and the second removes the one the first has just created: both go on.
* `database/queue_db.py:414`: jobs are claimed by `created_at`, which a manual retry keeps, so
  retries without end of an old job starve the younger ones; `JobsSettle` assumes that
  they end.

## 15. What is not modelled

* Queue: `clear()`, used by tests only, and the read-only queries.
* Worker: `start`, `notify` and the wake event (polling makes them irrelevant to the
  properties); more than one worker process per database in `TaskRuntime`
  (`TaskQueue` has several).
* Approval tokens: hashed secrets, abstracted to the request they belong to.
* The limit of 1000 records in `restore` and in the reconciliation pass.
* Idempotency: `get` (which also deletes the record it looks up when that is
  expired) and `clear`, called by tests only; the reports `list`, `count` and
  `health_summary`; the statistics and the stop of the maintenance thread; and
  requests without a key, which the store never sees.
* Accounts: hashing, token formats, mail, listings, the policy tables; the use
  counters and `last_used_at` of sessions and API keys. `DeviceSecurity` repeats the
  few account operations it meets rather than extending `AuthService`: together they
  are beyond TLC.
* Rate limiter: the classification of paths, proxies' headers, response headers,
  `clear()`.
* Gestures: camera, landmarks and geometry, pointer positions, scroll amounts.
* Recovery: status reports, the interval of the scheduler (a backup may begin at any
  time), the contents of tables beyond "the last write". Migrations are enabled, as is the
  default: with `DATABASE_MIGRATIONS_ENABLED` off `migrate` returns at once
  (`database/migrations.py:209`). `created_at` follows the order in which backups are made: a
  clock that is set back would make a new backup look old to `list_backups`. The limit of
  1000 of that list. An unlink of the lock file that raises in `finally` leaves it behind as a
  crash there does.
* Security events: nothing depends on what is in the record.
* Executors (planner, tools, language models, desktop, voice, vision): one step
  that succeeds or raises. Read-only APIs, event bus, metrics, deployment and release
  checks, frontend: reports, I/O or separate programs. `backend_backup_2026-07-21/`
  and `archive_old/` are old copies.

## 16. Plan

1. Done: the task path (`TaskQueue`, `TaskRuntime`), its keys (`Idempotency`), accounts
   and devices, the rate limiter, gestures, recovery; proofs of the queue, the idempotency
   keys and the exclusion of recovery operations.
2. Done: theorems of the runtime with its two refinements (`TaskRuntimeProofs`), of
   accounts (`AuthProofs`), of devices and keys (`DeviceProofs`) and of restores,
   retention and migrations (second part of `RecoveryProofs`).
3. Done: theorems of the two gesture programs (`GestureProofs`) and of the rate limiter
   (`RateLimiterProofs`).
4. `TaskRuntime` with the bounded view of `restore` and the reconciler.
