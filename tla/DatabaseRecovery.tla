-------------------------- MODULE DatabaseRecovery --------------------------
(***************************************************************************)
(* Backup, retention, restore and migration of the SQLite file             *)
(* (database/recovery.py, recovery_scheduler.py, migrations.py,            *)
(* recovery_cli.py, the lifespan of main.py).                              *)
(*                                                                         *)
(* The service and the command line are processes of their own; one step   *)
(* is one file operation or one transaction, and a process may end between *)
(* any two.  The file of the database is in WAL mode: what the service     *)
(* commits is in the log beside it until a checkpoint.  As the runbook     *)
(* asks (docs/database_recovery.md), a restore or a rollback is only run   *)
(* while the service is down.  No operation takes an hour, so the lock     *)
(* file of a live one is never stale.                                      *)
(***************************************************************************)
EXTENDS Integers, FiniteSets

CONSTANTS
    Service,        \* the process of the API
    CommandLine,    \* the process of one command after the other
    ServiceKinds,   \* operations asked of the service: all but "restore"
    Retention,      \* setting: backups that are kept
    Latest,         \* versions of the schema that were ever released: 1..Latest
    Irreversible,   \* versions without rollback statements
    MaxBackups, MaxWrites, \* bounds
    MaxIncidents,   \* bound: crashes and what else cuts a command short,
                    \* deployments, rollbacks
    Null

Processes == {Service, CommandLine}
Backups == 1..MaxBackups    \* in the order of created_at
Versions == 1..Latest

\* What a file can hold, and what is kept of a backup.
Contents == [data : 0..MaxWrites, schema : 0..Latest, sound : BOOLEAN]
Copies == [content : Contents, described : BOOLEAN]

ASSUME RecoveryAssumption ==
    /\ Service # CommandLine
    /\ ServiceKinds \subseteq {"create", "prune", "verify"}
    /\ {Retention, Latest} \subseteq Nat \ {0}
    /\ Irreversible \subseteq Versions
    /\ {MaxBackups, MaxWrites, MaxIncidents} \subseteq Nat
    /\ Null \notin {"create", "prune", "verify", "restore", "active", "deleted", "restored",
                  "serve", "replaced", "migrated"}
    /\ Null \notin [by : Processes, stale : BOOLEAN]
    /\ Null \notin Int
    /\ Null \notin Contents \cup Copies

VARIABLES
    release,    \* the last migration the installed program knows
    up,         \* the service accepts requests
    db, wal,    \* the database file and its log: contents, Null: no file
    previous,   \* the file a restore moved aside
    temp,       \* the copy a restore puts in its place
    backup,     \* backup[b]: file with its sidecar
    made,       \* backups made so far
    lock,       \* the lock file of the recovery operations
    op,         \* op[p]: what process p is doing
    writes,     \* last write of the service
    incidents,  \* how many of these there were
    owed,       \* history: the data that restores have replaced, since when, and
                \* the least number of backups that pruning has had to keep since
    raced,      \* history: a lock file was removed under its owner
    unflushed   \* history: a restore went on without its checkpoint

files == <<db, wal, previous, temp>>
history == <<owed, raced, unflushed>>
environment == <<release, writes, incidents>>
vars == <<files, backup, made, lock, op, up, environment, history>>

\* What a database holds: the last write and the migrations applied.  The
\* backup catalog, which nothing reads, is left out.  A mixture of two
\* databases is not sound.
Empty == [data |-> 0, schema |-> 0, sound |-> TRUE]

Idle == [at |-> "idle", kind |-> Null, from |-> 0, new |-> 0, doomed |-> {},
         plan |-> 0, next |-> Null, before |-> Null, chosen |-> Null, flushed |-> TRUE]

Init ==
    /\ release \in Versions
    /\ up = FALSE
    /\ db = Null /\ wal = Null /\ previous = Null /\ temp = Null
    /\ backup = [b \in Backups |-> Null]
    /\ made = 0
    /\ lock = Null
    /\ op = [p \in Processes |-> Idle]
    /\ writes = 0 /\ incidents = 0
    /\ owed = {} /\ raced = FALSE /\ unflushed = FALSE

-----------------------------------------------------------------------------
(* The database as SQLite shows it *)

Visible == IF db = Null THEN Empty ELSE IF wal # Null THEN wal ELSE db

Sound == db # Null /\ db.sound

\* A transaction.  The last connection to close writes the log back.
Commit(content) ==
    IF up /\ db # Null
    THEN wal' = content /\ db' = db
    ELSE wal' = Null /\ db' = [content EXCEPT !.sound = db = Null \/ db.sound]

-----------------------------------------------------------------------------
(* Control of an operation *)

At(p, step) == op[p].at = step

Go(p, step) == op' = [op EXCEPT ![p].at = step]

LockedKinds == {"create", "prune", "verify", "restore"}

\* The operation returns or raises; the finally clause of _operation_lock.
Return(p) ==
    /\ op' = [op EXCEPT ![p] = Idle]
    /\ lock' = IF op[p].kind \in LockedKinds THEN Null ELSE lock

Offline == ~up /\ op[Service] = Idle

MayBegin(p, kind) ==
    /\ At(p, "idle")
    /\ p = Service => up /\ kind \in ServiceKinds
    /\ kind = "restore" => Offline
    /\ kind = "create" => made < MaxBackups

First(kind) ==
    CASE kind = "create" -> "snapshot"
      [] kind = "prune" -> "list"
      [] kind = "verify" -> "verify"
      [] kind = "restore" -> "check"

\* _operation_lock: create the file, or find a stale one.
Acquire(p) == \E kind \in LockedKinds :
    /\ MayBegin(p, kind)
    /\ \/ /\ lock = Null
          /\ lock' = [by |-> p, stale |-> FALSE]
          /\ op' = [op EXCEPT ![p] = [Idle EXCEPT !.at = First(kind), !.kind = kind]]
       \/ /\ lock # Null
          /\ lock.stale
          /\ lock' = lock
          /\ op' = [op EXCEPT ![p] = [Idle EXCEPT !.at = "unlink", !.kind = kind]]
    /\ UNCHANGED <<files, backup, made, up, environment, history>>

Holds(p) == op[p].kind \in LockedKinds /\ op[p].at \notin {"unlink", "relock"}

UnlinkStaleLock(p) ==
    /\ At(p, "unlink")
    /\ lock' = Null
    /\ raced' = (raced \/ \E q \in Processes : Holds(q))
    /\ Go(p, "relock")
    /\ UNCHANGED <<files, backup, made, up, environment, owed, unflushed>>

CreateLockAnyway(p) ==              \* mutant: opened without O_EXCL
    /\ At(p, "relock")
    /\ lock' = [by |-> p, stale |-> FALSE]
    /\ Go(p, First(op[p].kind))
    /\ UNCHANGED <<files, backup, made, up, environment, history>>

CreateLock(p) ==
    /\ At(p, "relock")
    /\ \/ /\ lock = Null
          /\ lock' = [by |-> p, stale |-> FALSE]
          /\ Go(p, First(op[p].kind))
       \/ /\ lock # Null
          /\ lock' = lock
          /\ op' = [op EXCEPT ![p] = Idle]
    /\ UNCHANGED <<files, backup, made, up, environment, history>>

\* An hour after it was written; its owner is gone.
LockAges ==
    /\ lock # Null /\ ~lock.stale
    /\ ~Holds(lock.by)
    /\ lock' = [lock EXCEPT !.stale = TRUE]
    /\ UNCHANGED <<files, backup, made, op, up, environment, history>>

-----------------------------------------------------------------------------
(* create_backup.  The online backup sees one committed state.              *)

Snapshot(p) ==
    /\ At(p, "snapshot")
    /\ Sound
    /\ made < MaxBackups
    /\ made' = made + 1
    /\ backup' = [backup EXCEPT ![made + 1] = [content |-> Visible, described |-> FALSE]]
    /\ op' = [op EXCEPT ![p].at = "describe", ![p].new = made + 1]
    /\ UNCHANGED <<files, lock, up, environment, history>>

\* The migrations, then a row of the catalog.
RecordCatalog(p, status) == [op[p] EXCEPT !.at = "read_schema", !.next = status]

\* The file passes its check; checksum and sidecar.
Describe(p) ==
    /\ At(p, "describe")
    /\ backup[op[p].new] # Null
    /\ backup' = [backup EXCEPT ![op[p].new].described = TRUE]
    /\ op' = [op EXCEPT ![p] = RecordCatalog(p, "active")]
    /\ UNCHANGED <<files, made, lock, up, environment, history>>

\* The file does not pass its check and is removed.
Discard(p) ==
    /\ At(p, "describe")
    /\ backup' = [backup EXCEPT ![op[p].new] = Null]
    /\ Return(p)
    /\ UNCHANGED <<files, made, up, environment, history>>

\* It has its sidecar; the checksum and the file pass, or the step Fails.
Good(b) == backup[b] # Null /\ backup[b].described

VerifyBackup(p) ==
    /\ At(p, "verify")
    /\ \E b \in Backups : Good(b)
    /\ op' = [op EXCEPT ![p] = RecordCatalog(p, "active")]
    /\ UNCHANGED <<files, backup, made, lock, up, environment, history>>

-----------------------------------------------------------------------------
(* _prune_unlocked: the newest are kept; a backup without its sidecar has no  *)
(* date and counts as the oldest.                                           *)

Present == {b \in Backups : backup[b] # Null}

AgeReversed(b) == IF backup[b].described THEN -b ELSE -MaxBackups   \* mutant

Age(b) == IF backup[b].described THEN b ELSE 0

\* How many to keep: the setting, unless who prunes asks for another number.
Keeps(p) == IF op[p].kind = "prune" THEN {Retention} \cup Backups ELSE {Retention}

List(p) == \E keep \in Keeps(p), kept \in SUBSET Present :
    /\ At(p, "list")
    /\ Cardinality(kept) = keep /\ kept # Present
    /\ \A k \in kept, d \in Present \ kept : Age(k) >= Age(d)
    /\ op' = [op EXCEPT ![p].at = "remove", ![p].doomed = Present \ kept]
    /\ owed' = {[o EXCEPT !.least = IF keep < @ THEN keep ELSE @] : o \in owed}
    /\ UNCHANGED <<files, backup, made, lock, up, environment, raced, unflushed>>

\* The next one: sidecar first, then the file, then the catalog.
RemoveSidecar(p) == \E b \in op[p].doomed :
    /\ At(p, "remove")
    /\ op' = [op EXCEPT ![p].at = IF backup[b] = Null THEN "remove" ELSE "remove_file",
                        ![p].doomed = @ \ {b}, ![p].from = b]
    /\ backup' = IF backup[b] = Null THEN backup ELSE [backup EXCEPT ![b].described = FALSE]
    /\ UNCHANGED <<files, made, lock, up, environment, history>>

RemoveFile(p) ==
    /\ At(p, "remove_file")
    /\ backup' = [backup EXCEPT ![op[p].from] = Null]
    /\ op' = [op EXCEPT ![p] = [RecordCatalog(p, "deleted") EXCEPT !.from = 0]]
    /\ UNCHANGED <<files, made, lock, up, environment, history>>

Pruned(p) ==
    /\ \/ At(p, "remove") /\ op[p].doomed = {}
       \/ At(p, "list") /\ \E keep \in Keeps(p) : Cardinality(Present) <= keep
    /\ Return(p)
    /\ UNCHANGED <<files, backup, made, up, environment, history>>

-----------------------------------------------------------------------------
(* migrate, for whoever calls it                                            *)

CatalogStatuses == {"active", "deleted", "restored"}

\* Where the operation goes on.
Then(p, step) ==
    /\ op' = [op EXCEPT ![p].at = step, ![p].plan = 0, ![p].next = Null]
    /\ lock' = lock

GoOn(p) ==
    CASE op[p].next = "deleted" -> Then(p, "remove")
      [] op[p].next = "active" /\ op[p].kind = "create" -> Then(p, "list")
      [] op[p].next = "active" /\ op[p].kind = "restore" -> Then(p, "checkpoint")
      [] OTHER -> Return(p)

\* DATABASE_MIGRATIONS_ENABLED is on, as is the default.
ReadSchema(p) ==
    /\ At(p, "read_schema")
    /\ Visible.schema < release
    /\ op' = [op EXCEPT ![p].at = "migrate", ![p].plan = Visible.schema]
    /\ IF db = Null THEN Commit(Empty) ELSE UNCHANGED <<db, wal>>
    /\ UNCHANGED <<previous, temp, backup, made, lock, up, environment, history>>

\* One migration in a transaction of its own.
ApplyMigration(p) ==
    /\ At(p, "migrate")
    /\ op[p].plan < release
    /\ Visible.schema = op[p].plan
    /\ Commit([Visible EXCEPT !.schema = @ + 1])
    /\ op' = [op EXCEPT ![p].plan = @ + 1]
    /\ UNCHANGED <<previous, temp, backup, made, lock, up, environment, history>>

\* All are applied, or were when they were looked up: the caller goes on.
Migrated(p) ==
    /\ \/ At(p, "migrate") /\ op[p].plan = release
       \/ At(p, "read_schema") /\ Visible.schema = release
    /\ CASE op[p].next = "serve" ->
              /\ up' = TRUE /\ Return(p) /\ UNCHANGED <<db, wal>>
         [] op[p].next = "replaced" ->
              /\ Then(p, "final") /\ UNCHANGED <<db, wal, up>>
         [] op[p].next = "migrated" ->
              /\ Return(p) /\ UNCHANGED <<db, wal, up>>
         [] OTHER ->
              /\ GoOn(p) /\ UNCHANGED <<db, wal, up>>
    /\ UNCHANGED <<previous, temp, backup, made, environment, history>>

MigrationFailsOpen(p) ==            \* mutant: a failed startup goes on
    /\ op[p].at \in {"read_schema", "migrate"}
    /\ CASE op[p].next = "replaced" -> Then(p, "undo") /\ up' = up
         [] op[p].next \in CatalogStatuses -> GoOn(p) /\ up' = up
         [] OTHER -> Return(p) /\ up' = (up \/ op[p].next = "serve")
    /\ UNCHANGED <<files, backup, made, environment, history>>

\* The database is of a newer release, another process has applied the same
\* migration in between (its version is in the history already), or SQLite
\* raises.  A catalog that cannot be written is passed over.
MigrationFails(p) ==
    /\ op[p].at \in {"read_schema", "migrate"}
    /\ CASE op[p].next = "replaced" -> Then(p, "undo")
         [] op[p].next \in CatalogStatuses -> GoOn(p)
         [] OTHER -> Return(p)
    /\ UNCHANGED <<files, backup, made, up, environment, history>>

\* rollback_last
Rollback(p) ==
    /\ p = CommandLine /\ At(p, "idle") /\ Offline
    /\ db # Null
    /\ Visible.schema \in 1..release \ Irreversible
    /\ Commit([Visible EXCEPT !.schema = @ - 1])
    /\ incidents < MaxIncidents
    /\ incidents' = incidents + 1
    /\ UNCHANGED <<previous, temp, backup, made, lock, op, up, release, writes, history>>

-----------------------------------------------------------------------------
(* restore_backup                                                           *)

CheckWithoutSafety(p) ==            \* mutant: no copy of what is replaced
    /\ At(p, "check")
    /\ \E b \in Backups :
          /\ Good(b)
          /\ op' = [op EXCEPT ![p].at = "copy", ![p].from = b,
                              ![p].before = IF db = Null THEN Null ELSE Visible.data,
                              ![p].chosen = backup[b].content.data]
    /\ UNCHANGED <<files, backup, made, lock, up, environment, history>>

Check(p) ==
    /\ At(p, "check")
    /\ \E b \in Backups :
          /\ Good(b)
          /\ op' = [op EXCEPT ![p].at = IF db = Null THEN "copy" ELSE "snapshot",
                              ![p].from = b,
                              ![p].before = IF db = Null THEN Null ELSE Visible.data,
                              ![p].chosen = backup[b].content.data]
    /\ UNCHANGED <<files, backup, made, lock, up, environment, history>>

\* wal_checkpoint(TRUNCATE), which may fail.
Checkpoint(p) ==
    /\ At(p, "checkpoint")
    /\ \/ /\ db' = IF db = Null THEN Null ELSE Visible
          /\ wal' = Null
          /\ Go(p, "copy")
          /\ unflushed' = unflushed
       \/ /\ wal # Null
          /\ UNCHANGED <<db, wal>>
          /\ op' = [op EXCEPT ![p].at = "copy", ![p].flushed = FALSE]
          /\ unflushed' = TRUE
    /\ UNCHANGED <<previous, temp, backup, made, lock, up, environment, owed, raced>>

\* The copy is checked; what an earlier restore left aside goes.
Copy(p) ==
    /\ At(p, "copy")
    /\ backup[op[p].from] # Null
    /\ temp' = backup[op[p].from].content
    /\ previous' = Null
    /\ Go(p, "aside")
    /\ UNCHANGED <<db, wal, backup, made, lock, up, environment, history>>

MoveAside(p) ==
    /\ At(p, "aside")
    /\ previous' = IF db = Null THEN previous ELSE db
    /\ db' = Null
    /\ owed' = IF db = Null THEN owed
               ELSE owed \cup {[data |-> Visible.data, since |-> made, least |-> Retention]}
    /\ Go(p, "replace")
    /\ UNCHANGED <<wal, temp, backup, made, lock, up, environment, raced, unflushed>>

\* With a log of the old database beside it the new one is a mixture.
Replace(p) ==
    /\ At(p, "replace")
    /\ temp # Null
    /\ db' = [temp EXCEPT !.sound = wal = Null]
    /\ temp' = Null
    /\ Go(p, "clean")
    /\ UNCHANGED <<wal, previous, backup, made, lock, up, environment, history>>

\* The index of the log goes after it, and may not.
RemoveLog(p) ==
    /\ At(p, "clean")
    /\ wal' = Null
    /\ db' = IF db = Null THEN Null ELSE [db EXCEPT !.sound = TRUE]
    /\ \/ op' = [op EXCEPT ![p].at = "read_schema", ![p].next = "replaced"]
       \/ Go(p, "undo")
    /\ UNCHANGED <<previous, temp, backup, made, lock, up, environment, history>>

Finish(p) ==
    /\ At(p, "final")
    /\ Sound
    /\ previous' = Null
    /\ op' = [op EXCEPT ![p] = RecordCatalog(p, "restored")]
    /\ UNCHANGED <<db, wal, temp, backup, made, lock, up, environment, history>>

UndoKeepsNew(p) ==                  \* mutant: the old file stays aside
    /\ At(p, "undo")
    /\ temp' = Null
    /\ Return(p)
    /\ UNCHANGED <<db, wal, previous, backup, made, up, environment, history>>

\* The except clause: the copy goes, then the old file comes back, if there
\* was one.
Undo(p) ==
    /\ At(p, "undo")
    /\ temp' = Null
    /\ IF previous = Null THEN Return(p) ELSE Go(p, "drop") /\ lock' = lock
    /\ UNCHANGED <<db, wal, previous, backup, made, up, environment, history>>

Drop(p) ==
    /\ At(p, "drop")
    /\ db' = Null
    /\ Go(p, "put_back")
    /\ UNCHANGED <<wal, previous, temp, backup, made, lock, up, environment, history>>

PutBack(p) ==
    /\ At(p, "put_back")
    /\ db' = previous
    /\ previous' = Null
    /\ owed' = {o \in owed : o.data # op[p].before}
    /\ Return(p)
    /\ UNCHANGED <<wal, temp, backup, made, up, environment, raced, unflushed>>

-----------------------------------------------------------------------------
(* Errors, ends and the environment *)

\* A check or a call of the operation raises.
Fails(p) ==
    /\ \/ /\ op[p].at \in {"snapshot", "describe", "verify", "list", "remove",
                           "remove_file", "check", "copy"}
          /\ Return(p)
       \/ /\ op[p].at \in {"aside", "replace", "clean", "final"}
          /\ Go(p, "undo") /\ lock' = lock
       \/ /\ op[p].at \in {"unlink", "relock"}
          /\ op' = [op EXCEPT ![p] = Idle] /\ lock' = lock
    /\ UNCHANGED <<files, backup, made, up, environment, history>>

\* A call of the except clause raises, or the operator interrupts the command
\* anywhere: KeyboardInterrupt is no Exception, so the finally clauses run and
\* the except clause does not.
CutShort(p) ==
    /\ \/ op[p].at \in {"undo", "drop", "put_back"}
       \/ p = CommandLine /\ op[p] # Idle
    /\ incidents < MaxIncidents
    /\ incidents' = incidents + 1
    /\ op' = [op EXCEPT ![p] = Idle]
    /\ lock' = IF Holds(p) THEN Null ELSE lock
    /\ UNCHANGED <<files, backup, made, up, release, writes, history>>

\* A process ends where it is; its lock file stays.
Crash(p) ==
    /\ incidents < MaxIncidents
    /\ op[p] # Idle \/ (p = Service /\ up)
    /\ incidents' = incidents + 1
    /\ op' = [op EXCEPT ![p] = Idle]
    /\ up' = (up /\ p # Service)
    /\ UNCHANGED <<files, backup, made, lock, release, writes, history>>

\* lifespan: the migrations, then the stores and the scheduler.
Start ==
    /\ Offline
    /\ op[CommandLine].kind # "restore"
    /\ op' = [op EXCEPT ![Service].at = "read_schema", ![Service].next = "serve"]
    /\ UNCHANGED <<files, backup, made, lock, up, environment, history>>

\* The command line's migrate, where there is something to do.
BeginMigrate(p) ==
    /\ p = CommandLine /\ At(p, "idle")
    /\ db = Null \/ Visible.schema # release
    /\ op' = [op EXCEPT ![p].at = "read_schema", ![p].next = "migrated"]
    /\ UNCHANGED <<files, backup, made, lock, up, environment, history>>

\* An orderly stop; the log is written back.
Stop ==
    /\ up /\ op[Service] = Idle
    /\ up' = FALSE
    /\ db' = [Visible EXCEPT !.sound = Sound]
    /\ wal' = Null
    /\ UNCHANGED <<previous, temp, backup, made, lock, op, environment, history>>

Write ==
    /\ up /\ writes < MaxWrites
    /\ writes' = writes + 1
    /\ Commit([Visible EXCEPT !.data = writes + 1])
    /\ UNCHANGED <<previous, temp, backup, made, lock, op, up, release, incidents, history>>

\* Another release is installed, a newer or an older one.
Deploy == \E v \in Versions \ {release} :
    /\ ~up /\ \A p \in Processes : op[p] = Idle
    /\ incidents < MaxIncidents
    /\ incidents' = incidents + 1
    /\ release' = v
    /\ UNCHANGED <<files, backup, made, lock, op, up, writes, history>>

CreateStep(p) == Snapshot(p) \/ Describe(p) \/ Discard(p) \/ VerifyBackup(p)

PruneStep(p) == List(p) \/ RemoveSidecar(p) \/ RemoveFile(p) \/ Pruned(p)

MigrateStep(p) ==
    ReadSchema(p) \/ ApplyMigration(p) \/ Migrated(p) \/ MigrationFails(p)

RestoreStep(p) ==
    \/ Check(p) \/ Checkpoint(p) \/ Copy(p) \/ MoveAside(p) \/ Replace(p)
    \/ RemoveLog(p) \/ Finish(p) \/ Undo(p) \/ Drop(p) \/ PutBack(p)

Next ==
    \/ \E p \in Processes :
          \/ Acquire(p) \/ UnlinkStaleLock(p) \/ CreateLock(p)
          \/ CreateStep(p) \/ PruneStep(p) \/ MigrateStep(p) \/ RestoreStep(p)
          \/ Rollback(p) \/ BeginMigrate(p) \/ Fails(p) \/ CutShort(p) \/ Crash(p)
    \/ LockAges
    \/ Start \/ Stop \/ Write \/ Deploy

Spec == Init /\ [][Next]_vars

-----------------------------------------------------------------------------

Ats == {"idle", "unlink", "relock", "snapshot", "describe", "verify", "list", "remove",
        "remove_file", "read_schema", "migrate", "check", "checkpoint", "copy", "aside",
        "replace", "clean", "final", "undo", "drop", "put_back"}

Operations ==
    [at : Ats, kind : LockedKinds \cup {Null}, from : 0..MaxBackups, new : 0..MaxBackups,
     doomed : SUBSET Backups, plan : 0..Latest,
     next : CatalogStatuses \cup {"serve", "replaced", "migrated", Null},
     before : 0..MaxWrites \cup {Null}, chosen : 0..MaxWrites \cup {Null}, flushed : BOOLEAN]

\* Files, lock and operations are well formed.
TypeOK ==
    /\ release \in Versions /\ up \in BOOLEAN
    /\ {db, wal, previous, temp} \subseteq Contents \cup {Null}
    /\ backup \in [Backups -> Copies \cup {Null}]
    /\ made \in 0..MaxBackups
    /\ lock \in [by : Processes, stale : BOOLEAN] \cup {Null}
    /\ op \in [Processes -> Operations]
    /\ writes \in 0..MaxWrites /\ incidents \in 0..MaxIncidents
    /\ owed \subseteq [data : 0..MaxWrites, since : 0..MaxBackups, least : 1..Retention]
    /\ raced \in BOOLEAN /\ unflushed \in BOOLEAN

\* What a restore replaces is not lost, wherever the operation was cut off
\* and whatever followed: it is in the database, in the file put aside or in
\* a complete backup (pre_restore_safety), until as many newer backups were
\* made as the setting says or, if that is less, as somebody has asked
\* prune_backups to keep since.
ReplacedIsKept == ~raced => \A o \in owed :
    \/ Visible.data = o.data
    \/ previous # Null /\ previous.data = o.data
    \/ \E b \in Backups :
          backup[b] # Null /\ backup[b].described /\ backup[b].content.data = o.data
    \/ made >= o.since + o.least

\* The service never runs on a database of another release, on none or on
\* one that a restore left half replaced; only a failed checkpoint leaves a
\* log that can mix with the new file.
ServesWhole ==
    up => db # Null /\ (db.sound \/ unflushed) /\ Visible.schema = release

\* The backup operations of all processes exclude each other, until two
\* processes have found the same stale lock file (_operation_lock).
OneOperationAtATime == raced \/ Cardinality({p \in Processes : Holds(p)}) <= 1

\* A restore that returns has put the backup and the schema of this release
\* in place.  One that raises has left the data it found or put it back, unless
\* a call of its except clause raises, or an interrupt or a crash leaves that
\* clause out: then the file put aside may be the only one that has the data.
\* However it ends, also without its checkpoint, a restore that has made its
\* safety backup leaves the data there.
RestoreIsAllOrNothing == [][\A p \in Processes :
    /\ op[p].kind = "restore" /\ Holds(p) /\ op'[p] = Idle
    /\ ~raced
    => IF op[p].next = "restored"
       THEN Sound' /\ Visible'.data = op[p].chosen /\ Visible'.schema = release
       ELSE op[p].before # Null =>
              /\ op[p].flushed => \/ Visible'.data = op[p].before
                                 \/ /\ incidents' # incidents
                                    /\ previous' # Null
                                    /\ previous'.data = op[p].before
              /\ op[p].at \notin {"check", "snapshot", "describe"} =>
                    LET safety == backup'[op[p].new]
                    IN  /\ safety # Null /\ safety.described
                        /\ safety.content.data = op[p].before]_vars

\* Retention never takes the backup that was just made (create_backup prunes
\* before it returns it), whatever crashed attempts have left behind.
NewBackupSurvives == [][\A p \in Processes :
    Pruned(p) /\ op[p].kind = "create" /\ ~raced =>
        backup[op[p].new] # Null /\ backup[op[p].new].described]_vars

\* Well-formed files, and one operation at a time.
RecoveryInv == TypeOK /\ OneOperationAtATime

=============================================================================
