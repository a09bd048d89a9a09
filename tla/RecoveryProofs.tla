---------------------------- MODULE RecoveryProofs ----------------------------
(***************************************************************************)
(* Theorems about DatabaseRecovery, for any number of backups, releases,   *)
(* writes and incidents.  The first part: files and operations are well    *)
(* formed, and the backup operations exclude each other by their lock      *)
(* file.  The second: what a restore keeps and what it puts in place, what *)
(* the service runs on, and what retention leaves.                         *)
(***************************************************************************)
EXTENDS DatabaseRecovery, FiniteSetTheorems, TLAPS

RestoreAts ==
    {"check", "checkpoint", "copy", "aside", "replace", "clean", "final", "undo", "drop",
     "put_back"}

\* What an operation can be at each of its steps: an idle process remembers
\* nothing, one that waits for a lock file knows what for, and a restore
\* knows its backup.
Coherent(o) ==
    /\ o.at = "idle" => o = Idle
    /\ o.at \in {"unlink", "relock"} => o.kind \in LockedKinds /\ o.next = Null
    /\ o.at \in RestoreAts \/ o.next = "replaced" => o.kind = "restore"
    /\ o.at \in {"list", "remove", "remove_file"} \/ o.next = "deleted" =>
         o.kind \in {"create", "prune"}
    /\ o.kind = "restore" /\ o.at \notin {"unlink", "relock", "check"} => o.from \in Backups
    /\ o.at = "remove_file" => o.from \in Backups

Coherents == {o \in Operations : Coherent(o)}

(* The parts of the inductive invariant *)
FilesOK == {db, wal, previous, temp} \subseteq Contents \cup {Null}
BackupsOK ==
    /\ backup \in [Backups -> Copies \cup {Null}]
    /\ made \in 0..MaxBackups
OpsOK == op \in [Processes -> Coherents]
LockOK == lock \in [by : Processes, stale : BOOLEAN] \cup {Null}
RestOK ==
    /\ release \in Versions /\ up \in BOOLEAN
    /\ writes \in 0..MaxWrites /\ incidents \in 0..MaxIncidents
    /\ owed \subseteq [data : 0..MaxWrites, since : 0..MaxBackups, least : 1..Retention]
    /\ raced \in BOOLEAN /\ unflushed \in BOOLEAN

\* Who holds the lock is named in the lock file.
LockNamesHolder == raced \/ \A p \in Processes : Holds(p) => lock # Null /\ lock.by = p

DataOK == FilesOK /\ BackupsOK /\ RestOK
ControlOK == OpsOK /\ LockOK /\ LockNamesHolder
IInv == DataOK /\ ControlOK

LEMMA TypeParts == IInv => TypeOK
BY DEF IInv, DataOK, ControlOK, TypeOK, FilesOK, BackupsOK, OpsOK, LockOK, RestOK, Coherents

LEMMA IdleFacts ==
    Idle \in Coherents /\ Idle.kind \notin LockedKinds /\ Idle.at = "idle"
<1>1. Idle \in Operations
  BY RecoveryAssumption DEF Idle, Operations, Ats, CatalogStatuses, Backups, LockedKinds
<1>2. Idle.kind = Null /\ Idle.at = "idle" /\ Idle.next = Null
  BY DEF Idle
<1>3. Null \notin LockedKinds
  BY RecoveryAssumption DEF LockedKinds
<1>4. Idle.next # "replaced" /\ Idle.next # "deleted"
  BY <1>2, RecoveryAssumption
<1> QED
  BY <1>1, <1>2, <1>3, <1>4 DEF Coherents, Coherent, RestoreAts, LockedKinds

LEMMA Bounds == 0 \in 0..MaxBackups /\ 0 \in 0..Latest /\ Latest \in Nat
BY RecoveryAssumption

LEMMA InitEstablishes == Init => IInv
<1> SUFFICES ASSUME Init PROVE IInv
  OBVIOUS
<1>1. OpsOK /\ \A p \in Processes : op[p] = Idle
  BY IdleFacts DEF Init, OpsOK
<1>2. FilesOK /\ LockOK
  BY DEF Init, FilesOK, LockOK
<1>3. BackupsOK
  BY RecoveryAssumption DEF Init, BackupsOK
<1>4. RestOK
  <2>1. 0 \in 0..MaxWrites /\ 0 \in 0..MaxIncidents
    BY RecoveryAssumption
  <2> QED
    BY <2>1 DEF Init, RestOK
<1>5. LockNamesHolder
  BY <1>1, IdleFacts DEF LockNamesHolder, Holds
<1> QED
  BY <1>1, <1>2, <1>3, <1>4, <1>5 DEF IInv, DataOK, ControlOK

-----------------------------------------------------------------------------
(* What a step does to the operation of one process *)

Replaced(p, new) == op' = [op EXCEPT ![p] = new]

\* One operation is replaced, the others go on.
LEMMA ReplacedFacts ==
    ASSUME OpsOK, NEW p \in Processes, NEW new \in Coherents, Replaced(p, new)
    PROVE  OpsOK' /\ op'[p] = new /\ \A q \in Processes : q # p => op'[q] = op[q]
BY DEF OpsOK, Replaced

\* An operation that goes on keeps the lock as it is.
LEMMA GoesOn ==
    ASSUME ControlOK, NEW p \in Processes, NEW new \in Coherents, Replaced(p, new),
           new.kind = op[p].kind, op[p].at \notin {"unlink", "relock"},
           UNCHANGED <<lock, raced>>
    PROVE  ControlOK'
<1>1. OpsOK' /\ op'[p] = new /\ \A q \in Processes : q # p => op'[q] = op[q]
  BY ReplacedFacts DEF ControlOK
<1>2. \A q \in Processes : Holds(q)' => Holds(q)
  BY <1>1 DEF Holds
<1> QED
  BY <1>1, <1>2 DEF ControlOK, LockOK, LockNamesHolder

\* An operation that ends and leaves the lock as it is.
LEMMA GoesAway ==
    ASSUME ControlOK, NEW p \in Processes, Replaced(p, Idle), UNCHANGED <<lock, raced>>
    PROVE  ControlOK'
<1>1. OpsOK' /\ op'[p] = Idle /\ \A q \in Processes : q # p => op'[q] = op[q]
  BY IdleFacts, ReplacedFacts DEF ControlOK
<1>2. \A q \in Processes : Holds(q)' => Holds(q)
  BY <1>1, IdleFacts DEF Holds
<1> QED
  BY <1>1, <1>2 DEF ControlOK, LockOK, LockNamesHolder

\* An operation that returns gives back the lock, if it had it: nobody else
\* had.
LEMMA Returns ==
    ASSUME ControlOK, NEW p \in Processes, Return(p), op[p].at \notin {"unlink", "relock"},
           UNCHANGED raced
    PROVE  ControlOK'
<1>1. CASE op[p].kind \notin LockedKinds
  BY <1>1, GoesAway DEF Return, Replaced
<1>2. CASE op[p].kind \in LockedKinds
  <2>1. OpsOK' /\ op'[p] = Idle /\ \A q \in Processes : q # p => op'[q] = op[q]
    BY IdleFacts, ReplacedFacts DEF ControlOK, Return, Replaced
  <2>2. Holds(p)
    BY <1>2 DEF Holds
  <2>3. \A q \in Processes : Holds(q)' => Holds(q) /\ q # p
    BY <2>1, IdleFacts DEF Holds
  <2>4. raced' \/ \A q \in Processes : ~Holds(q)'
    BY <2>2, <2>3 DEF ControlOK, LockNamesHolder
  <2>5. LockOK'
    BY <1>2 DEF Return, LockOK
  <2> QED
    BY <2>1, <2>4, <2>5 DEF ControlOK, LockNamesHolder
<1> QED
  BY <1>1, <1>2

\* An operation of the recovery code in a step between its first and its
\* last.
LEMMA OperationFacts ==
    ASSUME ControlOK, NEW p \in Processes
    PROVE  op[p] \in Operations /\ Coherent(op[p])
BY DEF ControlOK, OpsOK, Coherents

LEMMA VisibleOK == FilesOK => Visible \in Contents
BY RecoveryAssumption DEF FilesOK, Visible, Empty, Contents

-----------------------------------------------------------------------------

LEMMA CommitOK ==
    ASSUME FilesOK, NEW content \in Contents, Commit(content), UNCHANGED <<previous, temp>>
    PROVE  FilesOK'
<1>1. [content EXCEPT !.sound = db = Null \/ db.sound] \in Contents
  BY DEF FilesOK, Contents
<1> QED
  BY <1>1 DEF FilesOK, Commit

-----------------------------------------------------------------------------

LEMMA CreateStepKeeps ==
    ASSUME IInv, NEW p \in Processes, CreateStep(p)
    PROVE  IInv'
<1>0. op[p] \in Operations /\ Coherent(op[p]) /\ ControlOK /\ DataOK
  BY OperationFacts DEF IInv
<1>1. CASE Snapshot(p)
  <2> DEFINE new == [op[p] EXCEPT !.at = "describe", !.new = made + 1]
  <2>1. made' \in 0..MaxBackups
    BY <1>0, <1>1, RecoveryAssumption DEF Snapshot, DataOK, BackupsOK
  <2>2. backup' \in [Backups -> Copies \cup {Null}]
    BY <1>0, <1>1, VisibleOK DEF Snapshot, DataOK, BackupsOK, Copies
  <2>3. DataOK'
    BY <1>0, <1>1, <2>1, <2>2
    DEF Snapshot, files, environment, history, DataOK, FilesOK, BackupsOK, RestOK
  <2>4. new \in Coherents
    BY <1>0, <1>1, <2>1, ZenonT(60)
    DEF Snapshot, At, Operations, Ats, Coherents, Coherent, RestoreAts
  <2>5. Replaced(p, new) /\ new.kind = op[p].kind
    BY <1>0, <1>1 DEF Snapshot, Replaced, Operations
  <2> QED
    BY <1>0, <1>1, <2>3, <2>4, <2>5, GoesOn DEF Snapshot, At, history, IInv
<1>2. CASE Describe(p)
  <2> DEFINE new == RecordCatalog(p, "active")
  <2>1. backup' \in [Backups -> Copies \cup {Null}]
    BY <1>0, <1>2 DEF Describe, DataOK, BackupsOK, Copies
  <2>2. DataOK'
    BY <1>0, <1>2, <2>1
    DEF Describe, files, environment, history, DataOK, FilesOK, BackupsOK, RestOK
  <2>3. new \in Coherents /\ new.kind = op[p].kind
    BY <1>0, <1>2, ZenonT(60)
    DEF Describe, At, RecordCatalog, Operations, Ats, CatalogStatuses, Coherents, Coherent,
        RestoreAts
  <2> QED
    BY <1>0, <1>2, <2>2, <2>3, GoesOn DEF Describe, At, Replaced, history, IInv
<1>3. CASE Discard(p)
  <2>1. DataOK'
    BY <1>0, <1>3
    DEF Discard, files, environment, history, DataOK, FilesOK, BackupsOK, RestOK
  <2> QED
    BY <1>0, <1>3, <2>1, Returns DEF Discard, At, history, IInv
<1>4. CASE VerifyBackup(p)
  <2> DEFINE new == RecordCatalog(p, "active")
  <2>1. DataOK'
    BY <1>0, <1>4
    DEF VerifyBackup, files, environment, history, DataOK, FilesOK, BackupsOK, RestOK
  <2>2. new \in Coherents /\ new.kind = op[p].kind
    BY <1>0, <1>4, ZenonT(60)
    DEF VerifyBackup, At, RecordCatalog, Operations, Ats, CatalogStatuses, Coherents,
        Coherent, RestoreAts
  <2> QED
    BY <1>0, <1>4, <2>1, <2>2, GoesOn DEF VerifyBackup, At, Replaced, history, IInv
<1> QED
  BY <1>1, <1>2, <1>3, <1>4 DEF CreateStep

\* Every number that pruning is asked to keep is one at least.
LEMMA KeepsFacts ==
    ASSUME NEW p \in Processes, NEW keep \in Keeps(p)
    PROVE  keep \in Nat \ {0}
BY RecoveryAssumption DEF Keeps, Backups

LEMMA LeastOK ==
    ASSUME NEW keep \in Nat \ {0},
           NEW o \in [data : 0..MaxWrites, since : 0..MaxBackups, least : 1..Retention]
    PROVE  [o EXCEPT !.least = IF keep < @ THEN keep ELSE @]
               \in [data : 0..MaxWrites, since : 0..MaxBackups, least : 1..Retention]
BY RecoveryAssumption

LEMMA PruneStepKeeps ==
    ASSUME IInv, NEW p \in Processes, PruneStep(p)
    PROVE  IInv'
<1>0. op[p] \in Operations /\ Coherent(op[p]) /\ ControlOK /\ DataOK
  BY OperationFacts DEF IInv
<1>1. CASE List(p)
  <2>1. PICK keep \in Keeps(p), kept \in SUBSET Present :
          /\ At(p, "list")
          /\ op' = [op EXCEPT ![p].at = "remove", ![p].doomed = Present \ kept]
          /\ owed' = {[o EXCEPT !.least = IF keep < @ THEN keep ELSE @] : o \in owed}
          /\ UNCHANGED <<files, backup, made, lock, up, environment, raced, unflushed>>
    BY <1>1 DEF List
  <2> DEFINE new == [op[p] EXCEPT !.at = "remove", !.doomed = Present \ kept]
  <2>2. DataOK'
    <3>1. keep \in Nat \ {0}
      BY KeepsFacts
    <3>2. owed' \subseteq [data : 0..MaxWrites, since : 0..MaxBackups, least : 1..Retention]
      BY <1>0, <2>1, <3>1, LeastOK DEF DataOK, RestOK
    <3> QED
      BY <1>0, <2>1, <3>2 DEF files, environment, DataOK, FilesOK, BackupsOK, RestOK
  <2>3. Present \ kept \in SUBSET Backups
    BY DEF Present
  <2>4. new \in Coherents /\ new.kind = op[p].kind
    BY <1>0, <2>1, <2>3, ZenonT(60) DEF At, Operations, Ats, Coherents, Coherent, RestoreAts
  <2>5. Replaced(p, new)
    BY <1>0, <2>1 DEF Replaced
  <2> QED
    BY <1>0, <2>1, <2>2, <2>4, <2>5, GoesOn DEF At, IInv
<1>2. CASE RemoveSidecar(p)
  <2>1. PICK b \in op[p].doomed :
          /\ At(p, "remove")
          /\ op' = [op EXCEPT
                      ![p].at = IF backup[b] = Null THEN "remove" ELSE "remove_file",
                      ![p].doomed = @ \ {b}, ![p].from = b]
          /\ backup' = IF backup[b] = Null THEN backup
                       ELSE [backup EXCEPT ![b].described = FALSE]
          /\ UNCHANGED <<files, made, lock, up, environment, history>>
    BY <1>2 DEF RemoveSidecar
  <2> DEFINE step == IF backup[b] = Null THEN "remove" ELSE "remove_file"
             rest == op[p].doomed \ {b}
             new == [op[p] EXCEPT !.at = step, !.doomed = rest, !.from = b]
  <2>2. b \in Backups /\ b \in 0..MaxBackups
    BY <1>0 DEF Operations, Backups
  <2>3. backup' \in [Backups -> Copies \cup {Null}]
    BY <1>0, <2>1, <2>2 DEF DataOK, BackupsOK, Copies
  <2>4. DataOK'
    BY <1>0, <2>1, <2>3 DEF files, environment, history, DataOK, FilesOK, BackupsOK, RestOK
  <2>5. new \in Coherents /\ new.kind = op[p].kind
    <3>1. step \in {"remove", "remove_file"} /\ rest \in SUBSET Backups
      BY <1>0 DEF Operations
    <3> HIDE DEF step, rest
    <3>2. /\ new \in Operations /\ new.at = step /\ new.from = b
          /\ new.kind = op[p].kind /\ new.next = op[p].next
      BY <1>0, <2>2, <3>1 DEF Operations, Ats
    <3>3. op[p].kind \in {"create", "prune"} /\ (op[p].next = "replaced" => op[p].kind = "restore")
      BY <1>0, <2>1 DEF At, Coherent
    <3> QED
      BY <2>2, <3>1, <3>2, <3>3 DEF Coherents, Coherent, RestoreAts
  <2>6. Replaced(p, new)
    BY <1>0, <2>1 DEF Replaced
  <2> QED
    BY <1>0, <2>1, <2>4, <2>5, <2>6, GoesOn DEF At, history, IInv
<1>3. CASE RemoveFile(p)
  <2> DEFINE new == [RecordCatalog(p, "deleted") EXCEPT !.from = 0]
  <2>1. DataOK'
    BY <1>0, <1>3
    DEF RemoveFile, files, environment, history, DataOK, FilesOK, BackupsOK, RestOK
  <2>2. new \in Coherents /\ new.kind = op[p].kind
    BY <1>0, <1>3, Bounds
    DEF RemoveFile, At, RecordCatalog, Operations, Ats, CatalogStatuses, Coherents,
        Coherent, RestoreAts
  <2> QED
    BY <1>0, <1>3, <2>1, <2>2, GoesOn DEF RemoveFile, At, Replaced, history, IInv
<1>4. CASE Pruned(p)
  <2>1. DataOK'
    BY <1>0, <1>4
    DEF Pruned, files, environment, history, DataOK, FilesOK, BackupsOK, RestOK
  <2> QED
    BY <1>0, <1>4, <2>1, Returns DEF Pruned, At, history, IInv
<1> QED
  BY <1>1, <1>2, <1>3, <1>4 DEF PruneStep

\* After the migrations an operation goes on to a step that fits its kind.
LEMMA ThenKeeps ==
    ASSUME ControlOK, NEW p \in Processes, NEW step \in Ats, Then(p, step), UNCHANGED raced,
           op[p].at \in {"read_schema", "migrate"}, step \notin {"idle", "unlink", "relock"},
           step \in RestoreAts => op[p].kind = "restore",
           step \in {"list", "remove"} => op[p].kind \in {"create", "prune"},
           step # "remove_file"
    PROVE  ControlOK'
<1> DEFINE new == [op[p] EXCEPT !.at = step, !.plan = 0, !.next = Null]
<1>1. op[p] \in Operations /\ Coherent(op[p])
  BY OperationFacts
<1>2. new \in Operations
  BY <1>1, Bounds DEF Operations
<1>3. Coherent(new) /\ new.kind = op[p].kind
  BY <1>1, RecoveryAssumption DEF Operations, Coherent, RestoreAts
<1>4. Replaced(p, new)
  BY DEF Replaced, Then
<1> QED
  BY <1>2, <1>3, <1>4, GoesOn DEF Then, Coherents

LEMMA GoOnKeeps ==
    ASSUME ControlOK, NEW p \in Processes, GoOn(p), UNCHANGED raced,
           op[p].at \in {"read_schema", "migrate"}
    PROVE  ControlOK'
<1>0. Coherent(op[p])
  BY OperationFacts
<1>1. CASE op[p].next = "deleted"
  <2>1. Then(p, "remove")
    BY <1>1 DEF GoOn
  <2> QED
    BY <1>0, <1>1, <2>1, ThenKeeps DEF Coherent, Ats, RestoreAts
<1>2. CASE op[p].next = "active" /\ op[p].kind = "create"
  <2>1. Then(p, "list")
    BY <1>2 DEF GoOn
  <2> QED
    BY <1>2, <2>1, ThenKeeps DEF Ats, RestoreAts
<1>3. CASE op[p].next = "active" /\ op[p].kind = "restore"
  <2>1. Then(p, "checkpoint")
    BY <1>3 DEF GoOn
  <2> QED
    BY <1>3, <2>1, ThenKeeps DEF Ats, RestoreAts
<1>4. CASE /\ op[p].next # "deleted"
           /\ ~(op[p].next = "active" /\ op[p].kind \in {"create", "restore"})
  <2>1. Return(p)
    BY <1>4 DEF GoOn
  <2> QED
    BY <2>1, Returns
<1> QED
  BY <1>1, <1>2, <1>3, <1>4

LEMMA MigrateStepKeeps ==
    ASSUME IInv, NEW p \in Processes, MigrateStep(p)
    PROVE  IInv'
<1>0. op[p] \in Operations /\ Coherent(op[p]) /\ ControlOK /\ DataOK
  BY OperationFacts DEF IInv
<1>1. CASE ReadSchema(p)
  <2> DEFINE new == [op[p] EXCEPT !.at = "migrate", !.plan = Visible.schema]
  <2>1. Visible \in Contents /\ Empty \in Contents
    BY <1>0, VisibleOK, RecoveryAssumption DEF DataOK, Empty, Contents
  <2>2. FilesOK'
    BY <1>0, <1>1, <2>1, CommitOK DEF ReadSchema, DataOK, FilesOK
  <2>3. DataOK'
    BY <1>0, <1>1, <2>2
    DEF ReadSchema, environment, history, DataOK, BackupsOK, RestOK
  <2>4. new \in Coherents /\ new.kind = op[p].kind
    <3>1. Visible.schema \in 0..Latest
      BY <2>1 DEF Contents
    <3>2. /\ new \in Operations /\ new.at = "migrate" /\ new.from = op[p].from
          /\ new.kind = op[p].kind /\ new.next = op[p].next
      BY <1>0, <3>1 DEF Operations, Ats
    <3> QED
      BY <1>0, <1>1, <3>2 DEF ReadSchema, At, Coherents, Coherent, RestoreAts
  <2>5. Replaced(p, new)
    BY <1>1 DEF ReadSchema, Replaced
  <2> QED
    BY <1>0, <1>1, <2>3, <2>4, <2>5, GoesOn DEF ReadSchema, At, history, IInv
<1>2. CASE ApplyMigration(p)
  <2> DEFINE new == [op[p] EXCEPT !.plan = @ + 1]
  <2>1. Visible \in Contents /\ Visible.schema + 1 \in 0..Latest
    BY <1>0, <1>2, VisibleOK, RecoveryAssumption
    DEF ApplyMigration, DataOK, RestOK, Versions, Contents
  <2>2. [Visible EXCEPT !.schema = @ + 1] \in Contents
    BY <2>1 DEF Contents
  <2>3. FilesOK'
    BY <1>0, <1>2, <2>2, CommitOK DEF ApplyMigration, DataOK
  <2>4. DataOK'
    BY <1>0, <1>2, <2>3
    DEF ApplyMigration, environment, history, DataOK, BackupsOK, RestOK
  <2>5. new \in Coherents /\ new.kind = op[p].kind
    BY <1>0, <1>2, <2>1
    DEF ApplyMigration, At, Operations, Coherents, Coherent, RestoreAts
  <2>6. Replaced(p, new)
    BY <1>2 DEF ApplyMigration, Replaced
  <2> QED
    BY <1>0, <1>2, <2>4, <2>5, <2>6, GoesOn DEF ApplyMigration, At, history, IInv
<1>3. CASE Migrated(p)
  <2>0. op[p].at \in {"read_schema", "migrate"} /\ UNCHANGED raced
    BY <1>3 DEF Migrated, At, history
  <2>1. UNCHANGED <<db, wal>> /\ up' \in BOOLEAN
    BY <1>0, <1>3 DEF Migrated, DataOK, RestOK
  <2>2. DataOK'
    BY <1>0, <1>3, <2>1
    DEF Migrated, environment, history, DataOK, FilesOK, BackupsOK, RestOK
  <2>3. CASE op[p].next \in {"serve", "migrated"}
    <3>1. Return(p)
      BY <1>3, <2>3 DEF Migrated
    <3> QED
      BY <1>0, <2>0, <2>2, <3>1, Returns DEF IInv
  <2>4. CASE op[p].next = "replaced"
    <3>1. Then(p, "final")
      BY <1>3, <2>4 DEF Migrated
    <3> QED
      BY <1>0, <2>0, <2>2, <2>4, <3>1, ThenKeeps DEF IInv, Coherent, Ats
  <2>5. CASE op[p].next \notin {"serve", "migrated", "replaced"}
    <3>1. GoOn(p)
      BY <1>3, <2>5 DEF Migrated
    <3> QED
      BY <1>0, <2>0, <2>2, <3>1, GoOnKeeps DEF IInv
  <2> QED
    BY <2>3, <2>4, <2>5
<1>4. CASE MigrationFails(p)
  <2>0. op[p].at \in {"read_schema", "migrate"} /\ UNCHANGED raced
    BY <1>4 DEF MigrationFails, history
  <2>2. DataOK'
    BY <1>0, <1>4
    DEF MigrationFails, files, environment, history, DataOK, FilesOK, BackupsOK, RestOK
  <2>3. CASE op[p].next = "replaced"
    <3>1. Then(p, "undo")
      BY <1>4, <2>3 DEF MigrationFails, CatalogStatuses
    <3> QED
      BY <1>0, <2>0, <2>2, <2>3, <3>1, ThenKeeps DEF IInv, Coherent, Ats
  <2>4. CASE op[p].next \in CatalogStatuses
    <3>1. GoOn(p)
      BY <1>4, <2>4 DEF MigrationFails, CatalogStatuses
    <3> QED
      BY <1>0, <2>0, <2>2, <3>1, GoOnKeeps DEF IInv
  <2>5. CASE op[p].next \notin {"replaced"} \cup CatalogStatuses
    <3>1. Return(p)
      BY <1>4, <2>5 DEF MigrationFails
    <3> QED
      BY <1>0, <2>0, <2>2, <3>1, Returns DEF IInv
  <2> QED
    BY <2>3, <2>4, <2>5
<1> QED
  BY <1>1, <1>2, <1>3, <1>4 DEF MigrateStep

\* A restore goes on to one of its next steps.
LEMMA GoKeeps ==
    ASSUME ControlOK, NEW p \in Processes, NEW step \in RestoreAts \ {"check"}, Go(p, step),
           op[p].at \in RestoreAts \ {"check"}, UNCHANGED <<lock, raced>>
    PROVE  ControlOK'
<1> DEFINE new == [op[p] EXCEPT !.at = step]
<1>1. op[p] \in Operations /\ Coherent(op[p])
  BY OperationFacts
<1>2. new \in Operations
  BY <1>1 DEF Operations, Ats, RestoreAts
<1>3. Coherent(new) /\ new.kind = op[p].kind
  BY <1>1 DEF Operations, Coherent, RestoreAts
<1>4. Replaced(p, new)
  BY DEF Replaced, Go
<1> QED
  BY <1>2, <1>3, <1>4, GoesOn DEF Coherents, RestoreAts

LEMMA RestoreStepKeeps ==
    ASSUME IInv, NEW p \in Processes, RestoreStep(p)
    PROVE  IInv'
<1>0. /\ op[p] \in Operations /\ Coherent(op[p]) /\ ControlOK /\ DataOK
      /\ Visible \in Contents
  BY OperationFacts, VisibleOK DEF IInv, DataOK
<1>1. CASE Check(p)
  <2>1. PICK b \in Backups :
          /\ At(p, "check") /\ Good(b)
          /\ op' = [op EXCEPT ![p].at = IF db = Null THEN "copy" ELSE "snapshot",
                              ![p].from = b,
                              ![p].before = IF db = Null THEN Null ELSE Visible.data,
                              ![p].chosen = backup[b].content.data]
          /\ UNCHANGED <<files, backup, made, lock, up, environment, history>>
    BY <1>1 DEF Check
  <2> DEFINE step == IF db = Null THEN "copy" ELSE "snapshot"
             found == IF db = Null THEN Null ELSE Visible.data
             wanted == backup[b].content.data
             new == [op[p] EXCEPT !.at = step, !.from = b, !.before = found, !.chosen = wanted]
  <2>2. DataOK'
    BY <1>0, <2>1 DEF files, environment, history, DataOK, FilesOK, BackupsOK, RestOK
  <2>3. /\ step \in {"copy", "snapshot"}
        /\ found \in 0..MaxWrites \cup {Null} /\ wanted \in 0..MaxWrites \cup {Null}
    BY <1>0, <2>1 DEF Good, DataOK, BackupsOK, Copies, Contents
  <2>4. b \in 0..MaxBackups
    BY Bounds DEF Backups
  <2>5. new \in Coherents /\ new.kind = op[p].kind
    <3> HIDE DEF step, found, wanted
    <3>1. op[p].kind = "restore"
      BY <1>0, <2>1 DEF At, Coherent, RestoreAts
    <3>2. new \in Operations /\ new.at = step /\ new.from = b /\ new.kind = op[p].kind
          /\ new.next = op[p].next
      BY <1>0, <2>3, <2>4 DEF Operations, Ats
    <3> QED
      BY <1>0, <2>3, <3>1, <3>2 DEF Coherents, Coherent, RestoreAts, LockedKinds
  <2>6. Replaced(p, new)
    BY <2>1 DEF Replaced
  <2> QED
    BY <1>0, <2>1, <2>2, <2>5, <2>6, GoesOn DEF At, history, IInv
<1>2. CASE Checkpoint(p)
  <2>1. PICK b \in BOOLEAN :
          op' = [op EXCEPT ![p].at = "copy", ![p].flushed = b]
    <3>1. CASE Go(p, "copy")
      <4>1. op' = [op EXCEPT ![p].at = "copy", ![p].flushed = op[p].flushed]
        BY <1>0, <3>1 DEF Go, ControlOK, OpsOK, Coherents, Operations
      <4> QED
        BY <1>0, <4>1 DEF Operations
    <3> QED
      BY <1>2, <3>1 DEF Checkpoint
  <2> DEFINE new == [op[p] EXCEPT !.at = "copy", !.flushed = b]
  <2>2. FilesOK' /\ RestOK' /\ BackupsOK'
    BY <1>0, <1>2 DEF Checkpoint, environment, DataOK, FilesOK, BackupsOK, RestOK
  <2>3. new \in Coherents /\ new.kind = op[p].kind
    BY <1>0, <1>2 DEF Checkpoint, At, Operations, Ats, Coherents, Coherent, RestoreAts
  <2>4. Replaced(p, new)
    BY <2>1 DEF Replaced
  <2> QED
    BY <1>0, <1>2, <2>2, <2>3, <2>4, GoesOn DEF Checkpoint, At, IInv, DataOK
<1>3. CASE Copy(p)
  <2>1. op[p].from \in Backups
    BY <1>0, <1>3 DEF Copy, At, Coherent, RestoreAts
  <2>2. FilesOK' /\ RestOK' /\ BackupsOK'
    BY <1>0, <1>3, <2>1
    DEF Copy, environment, history, DataOK, FilesOK, BackupsOK, Copies, RestOK
  <2>3. Go(p, "aside")
    BY <1>3 DEF Copy
  <2> QED
    BY <1>0, <1>3, <2>2, <2>3, GoKeeps DEF Copy, At, history, IInv, DataOK, RestoreAts
<1>4. CASE MoveAside(p)
  <2>1. [data |-> Visible.data, since |-> made, least |-> Retention]
            \in [data : 0..MaxWrites, since : 0..MaxBackups, least : 1..Retention]
    BY <1>0, RecoveryAssumption DEF DataOK, BackupsOK, Contents
  <2>2. FilesOK' /\ BackupsOK'
    BY <1>0, <1>4 DEF MoveAside, DataOK, FilesOK, BackupsOK
  <2>3. RestOK'
    BY <1>0, <1>4, <2>1 DEF MoveAside, environment, DataOK, RestOK
  <2> QED
    BY <1>0, <1>4, <2>2, <2>3, GoKeeps DEF MoveAside, At, IInv, DataOK, RestoreAts
<1>5. CASE Replace(p)
  <2>1. FilesOK'
    BY <1>0, <1>5 DEF Replace, DataOK, FilesOK, Contents
  <2>2. BackupsOK' /\ RestOK'
    BY <1>0, <1>5 DEF Replace, environment, history, DataOK, BackupsOK, RestOK
  <2> QED
    BY <1>0, <1>5, <2>1, <2>2, GoKeeps DEF Replace, At, history, IInv, DataOK, RestoreAts
<1>6. CASE RemoveLog(p)
  <2> DEFINE new == [op[p] EXCEPT !.at = "read_schema", !.next = "replaced"]
  <2>1. FilesOK'
    BY <1>0, <1>6 DEF RemoveLog, DataOK, FilesOK, Contents
  <2>2. BackupsOK' /\ RestOK'
    BY <1>0, <1>6 DEF RemoveLog, environment, history, DataOK, BackupsOK, RestOK
  <2>3. new \in Coherents /\ new.kind = op[p].kind
    BY <1>0, <1>6 DEF RemoveLog, At, Operations, Ats, Coherents, Coherent, RestoreAts
  <2>4. Replaced(p, new) \/ Go(p, "undo")
    BY <1>6 DEF RemoveLog, Replaced
  <2>5. op[p].at = "clean" /\ UNCHANGED <<lock, raced>>
    BY <1>6 DEF RemoveLog, At, history
  <2>6. ControlOK'
    BY <1>0, <2>3, <2>4, <2>5, GoesOn, GoKeeps DEF RestoreAts
  <2> QED
    BY <2>1, <2>2, <2>6 DEF IInv, DataOK
<1>7. CASE Finish(p)
  <2> DEFINE new == RecordCatalog(p, "restored")
  <2>1. FilesOK' /\ BackupsOK' /\ RestOK'
    BY <1>0, <1>7 DEF Finish, environment, history, DataOK, FilesOK, BackupsOK, RestOK
  <2>2. new \in Coherents /\ new.kind = op[p].kind
    BY <1>0, <1>7
    DEF Finish, At, RecordCatalog, Operations, Ats, CatalogStatuses, Coherents, Coherent,
        RestoreAts
  <2> QED
    BY <1>0, <1>7, <2>1, <2>2, GoesOn DEF Finish, At, Replaced, history, IInv, DataOK
<1>8. CASE Undo(p)
  <2>1. FilesOK' /\ BackupsOK' /\ RestOK'
    BY <1>0, <1>8 DEF Undo, environment, history, DataOK, FilesOK, BackupsOK, RestOK
  <2>2. Return(p) \/ (Go(p, "drop") /\ lock' = lock)
    BY <1>8 DEF Undo
  <2> QED
    BY <1>0, <1>8, <2>1, <2>2, GoKeeps, Returns
    DEF Undo, At, history, IInv, DataOK, RestoreAts
<1>9. CASE PutBack(p)
  <2>1. FilesOK' /\ BackupsOK'
    BY <1>0, <1>9 DEF PutBack, DataOK, FilesOK, BackupsOK
  <2>2. RestOK'
    BY <1>0, <1>9 DEF PutBack, environment, DataOK, RestOK
  <2> QED
    BY <1>0, <1>9, <2>1, <2>2, Returns DEF PutBack, At, IInv, DataOK
<1>10. CASE Drop(p)
  <2>1. FilesOK' /\ BackupsOK' /\ RestOK'
    BY <1>0, <1>10 DEF Drop, environment, history, DataOK, FilesOK, BackupsOK, RestOK
  <2> QED
    BY <1>0, <1>10, <2>1, GoKeeps DEF Drop, At, history, IInv, DataOK, RestoreAts
<1> QED
  BY <1>1, <1>2, <1>3, <1>4, <1>5, <1>6, <1>7, <1>8, <1>9, <1>10 DEF RestoreStep

-----------------------------------------------------------------------------
(* The lock file and the environment *)

LEMMA FirstIsCoherent ==
    ASSUME NEW o \in Operations, o.kind \in LockedKinds, o.next \notin {"replaced", "deleted"}
    PROVE  /\ First(o.kind) \in Ats \ {"idle", "unlink", "relock"}
           /\ Coherent([o EXCEPT !.at = First(o.kind)])
BY DEF First, LockedKinds, Ats, Operations, Coherent, RestoreAts

LEMMA NewLock ==
    ASSUME NEW p \in Processes
    PROVE  LET l == [by |-> p, stale |-> FALSE]
           IN  l \in [by : Processes, stale : BOOLEAN] /\ l # Null /\ l.by = p
<1> DEFINE l == [by |-> p, stale |-> FALSE]
<1>1. l \in [by : Processes, stale : BOOLEAN]
  OBVIOUS
<1>2. Null \notin [by : Processes, stale : BOOLEAN]
  BY RecoveryAssumption
<1> QED
  BY <1>1, <1>2

LEMMA AcquireKeeps ==
    ASSUME IInv, NEW p \in Processes, Acquire(p)
    PROVE  IInv'
<1>0. OpsOK /\ op[p] = Idle
  BY DEF IInv, ControlOK, OpsOK, Coherents, Coherent, Acquire, MayBegin, At
<1>1. DataOK'
  BY DEF Acquire, files, environment, history, IInv, DataOK, FilesOK, BackupsOK, RestOK
<1>2. PICK kind \in LockedKinds :
        \/ /\ lock = Null
           /\ lock' = [by |-> p, stale |-> FALSE]
           /\ op' = [op EXCEPT ![p] = [Idle EXCEPT !.at = First(kind), !.kind = kind]]
        \/ /\ lock' = lock
           /\ op' = [op EXCEPT ![p] = [Idle EXCEPT !.at = "unlink", !.kind = kind]]
  BY DEF Acquire
<1>3. \A q \in Processes : q # p => (Holds(q)' <=> Holds(q))
  BY <1>0, <1>2 DEF OpsOK, Holds
<1>4. CASE /\ lock = Null
           /\ lock' = [by |-> p, stale |-> FALSE]
           /\ op' = [op EXCEPT ![p] = [Idle EXCEPT !.at = First(kind), !.kind = kind]]
  <2> DEFINE o == [Idle EXCEPT !.kind = kind]
             new == [Idle EXCEPT !.at = First(kind), !.kind = kind]
  <2>1. o \in Operations /\ o.kind = kind /\ o.next = Null
    BY IdleFacts DEF Idle, Coherents, Operations
  <2>2. First(kind) \in Ats /\ Coherent([o EXCEPT !.at = First(kind)])
    BY <2>1, FirstIsCoherent, RecoveryAssumption
  <2>3. new = [o EXCEPT !.at = First(kind)] /\ new \in Operations
    BY <2>1, <2>2 DEF Idle, Operations
  <2>4. OpsOK'
    BY <1>0, <1>4, <2>2, <2>3, ReplacedFacts DEF Replaced, Coherents
  <2>5. LockOK' /\ lock' # Null /\ lock'.by = p
    BY <1>4, NewLock DEF LockOK
  <2>6. LockNamesHolder'
    BY <1>3, <1>4, <2>5 DEF IInv, ControlOK, LockNamesHolder, Acquire, history
  <2> QED
    BY <1>1, <2>4, <2>5, <2>6 DEF IInv, ControlOK
<1>5. CASE /\ lock' = lock
           /\ op' = [op EXCEPT ![p] = [Idle EXCEPT !.at = "unlink", !.kind = kind]]
  <2> DEFINE new == [Idle EXCEPT !.at = "unlink", !.kind = kind]
  <2>1. new \in Coherents /\ new.at = "unlink"
    BY IdleFacts, RecoveryAssumption
    DEF Idle, Coherents, Coherent, Operations, Ats, RestoreAts, LockedKinds
  <2>2. OpsOK' /\ op'[p] = new
    BY <1>0, <1>5, <2>1, ReplacedFacts DEF Replaced
  <2>3. LockNamesHolder'
    BY <1>3, <1>5, <2>1, <2>2
    DEF IInv, ControlOK, LockNamesHolder, Holds, Acquire, history
  <2> QED
    BY <1>1, <1>5, <2>2, <2>3 DEF IInv, ControlOK, LockOK
<1> QED
  BY <1>2, <1>4, <1>5

LEMMA UnlinkStaleLockKeeps ==
    ASSUME IInv, NEW p \in Processes, UnlinkStaleLock(p)
    PROVE  IInv'
<1> DEFINE new == [op[p] EXCEPT !.at = "relock"]
<1>0. op[p] \in Operations /\ Coherent(op[p]) /\ ControlOK /\ DataOK
  BY OperationFacts DEF IInv
<1>1. DataOK'
  BY <1>0
  DEF UnlinkStaleLock, files, environment, history, DataOK, FilesOK, BackupsOK, RestOK
<1>2. new \in Coherents /\ new.at = "relock"
  BY <1>0 DEF UnlinkStaleLock, At, Operations, Ats, Coherents, Coherent, RestoreAts
<1>3. OpsOK' /\ op'[p] = new /\ \A q \in Processes : q # p => op'[q] = op[q]
  BY <1>0, <1>2, ReplacedFacts DEF UnlinkStaleLock, Go, Replaced, ControlOK
<1>4. \A q \in Processes : Holds(q)' => Holds(q)
  BY <1>2, <1>3 DEF Holds
<1>5. LockOK' /\ LockNamesHolder'
  BY <1>4 DEF UnlinkStaleLock, LockOK, LockNamesHolder
<1> QED
  BY <1>1, <1>3, <1>5 DEF IInv, ControlOK

LEMMA CreateLockKeeps ==
    ASSUME IInv, NEW p \in Processes, CreateLock(p)
    PROVE  IInv'
<1>0. op[p] \in Operations /\ Coherent(op[p]) /\ ControlOK /\ DataOK
  BY OperationFacts DEF IInv
<1>1. DataOK'
  BY <1>0 DEF CreateLock, files, environment, history, DataOK, FilesOK, BackupsOK, RestOK
<1>2. CASE /\ lock = Null
           /\ lock' = [by |-> p, stale |-> FALSE]
           /\ Go(p, First(op[p].kind))
  <2> DEFINE new == [op[p] EXCEPT !.at = First(op[p].kind)]
  <2>0. op[p].kind \in LockedKinds /\ op[p].next \notin {"replaced", "deleted"}
    BY <1>0, RecoveryAssumption DEF CreateLock, At, Coherent
  <2>1. new \in Coherents
    BY <1>0, <2>0, FirstIsCoherent DEF Operations, Coherents
  <2>2. OpsOK' /\ \A q \in Processes : q # p => op'[q] = op[q]
    BY <1>0, <1>2, <2>1, ReplacedFacts DEF Go, Replaced, ControlOK
  <2>3. LockOK' /\ lock' # Null /\ lock'.by = p
    BY <1>2, NewLock DEF LockOK
  <2>4. \A q \in Processes : q # p => (Holds(q)' => Holds(q))
    BY <2>2 DEF Holds
  <2>5. LockNamesHolder'
    BY <1>0, <1>2, <2>3, <2>4 DEF ControlOK, LockNamesHolder, CreateLock, history
  <2> QED
    BY <1>1, <2>2, <2>3, <2>5 DEF IInv, ControlOK
<1>3. CASE lock' = lock /\ op' = [op EXCEPT ![p] = Idle]
  BY <1>0, <1>1, <1>3, GoesAway DEF CreateLock, Replaced, history, IInv
<1> QED
  BY <1>2, <1>3 DEF CreateLock

LEMMA LockAgesKeeps == IInv /\ LockAges => IInv'
<1> SUFFICES ASSUME IInv, LockAges PROVE IInv'
  OBVIOUS
<1>1. DataOK' /\ OpsOK'
  BY DEF LockAges, files, environment, history, IInv, DataOK, FilesOK, BackupsOK, RestOK,
         ControlOK, OpsOK
<1>2. lock \in [by : Processes, stale : BOOLEAN]
  BY DEF LockAges, IInv, ControlOK, LockOK
<1>3. LockOK' /\ lock' # Null /\ lock'.by = lock.by
  BY <1>2, RecoveryAssumption DEF LockAges, LockOK
<1>4. LockNamesHolder'
  BY <1>3 DEF LockAges, IInv, ControlOK, LockNamesHolder, Holds, history
<1> QED
  BY <1>1, <1>3, <1>4 DEF IInv, ControlOK

\* What leaves operations and lock alone.
LEMMA ControlStays ==
    ASSUME ControlOK, UNCHANGED <<op, lock, raced>>
    PROVE  ControlOK'
BY DEF ControlOK, OpsOK, LockOK, LockNamesHolder, Holds

LEMMA FailsKeeps ==
    ASSUME IInv, NEW p \in Processes, Fails(p)
    PROVE  IInv'
<1>1. DataOK'
  BY DEF Fails, files, environment, history, IInv, DataOK, FilesOK, BackupsOK, RestOK
<1>2. CASE Return(p) /\ op[p].at \notin {"unlink", "relock"}
  BY <1>1, <1>2, Returns DEF Fails, history, IInv
<1>3. CASE Go(p, "undo") /\ lock' = lock /\ op[p].at \in {"aside", "replace", "clean", "final"}
  BY <1>1, <1>3, GoKeeps DEF Fails, history, IInv, RestoreAts
<1>4. CASE op' = [op EXCEPT ![p] = Idle] /\ lock' = lock
  BY <1>1, <1>4, GoesAway DEF Fails, Replaced, history, IInv
<1> QED
  BY <1>2, <1>3, <1>4 DEF Fails

LEMMA CutShortKeeps ==
    ASSUME IInv, NEW p \in Processes, CutShort(p)
    PROVE  IInv'
<1>1. incidents' \in 0..MaxIncidents
  BY RecoveryAssumption DEF CutShort, IInv, DataOK, RestOK
<1>2. DataOK'
  BY <1>1 DEF CutShort, files, history, IInv, DataOK, FilesOK, BackupsOK, RestOK
<1>3. CASE Holds(p)
  <2>1. Return(p) /\ op[p].at \notin {"unlink", "relock"}
    BY <1>3 DEF CutShort, Return, Holds
  <2> QED
    BY <1>2, <2>1, Returns DEF CutShort, history, IInv
<1>4. CASE ~Holds(p)
  BY <1>2, <1>4, GoesAway DEF CutShort, Replaced, history, IInv
<1> QED
  BY <1>3, <1>4

LEMMA CrashKeeps ==
    ASSUME IInv, NEW p \in Processes, Crash(p)
    PROVE  IInv'
<1>1. incidents' \in 0..MaxIncidents
  BY RecoveryAssumption DEF Crash, IInv, DataOK, RestOK
<1>2. DataOK'
  BY <1>1 DEF Crash, files, history, IInv, DataOK, FilesOK, BackupsOK, RestOK
<1>3. ControlOK'
  BY GoesAway DEF Crash, Replaced, history, IInv
<1> QED
  BY <1>2, <1>3 DEF IInv

\* A migration begins, at the start of the service or from the command line.
LEMMA BeginKeeps ==
    ASSUME IInv, NEW p \in Processes, NEW next \in {"serve", "migrated"}, op[p] = Idle,
           op' = [op EXCEPT ![p].at = "read_schema", ![p].next = next],
           UNCHANGED <<files, backup, made, lock, up, environment, history>>
    PROVE  IInv'
<1> DEFINE new == [Idle EXCEPT !.at = "read_schema", !.next = next]
<1>1. DataOK'
  BY DEF files, environment, history, IInv, DataOK, FilesOK, BackupsOK, RestOK
<1>2. new \in Coherents /\ new.kind = op[p].kind
  BY IdleFacts
  DEF Idle, Coherents, Coherent, Operations, Ats, RestoreAts, LockedKinds, CatalogStatuses
<1>3. Replaced(p, new)
  BY DEF Replaced
<1> QED
  BY <1>1, <1>2, <1>3, IdleFacts, GoesOn DEF history, IInv

LEMMA RollbackKeeps ==
    ASSUME IInv, NEW p \in Processes, Rollback(p)
    PROVE  IInv'
<1>1. Visible \in Contents /\ Visible.schema - 1 \in 0..Latest
  BY VisibleOK, RecoveryAssumption DEF Rollback, IInv, DataOK, RestOK, Versions, Contents
<1>2. [Visible EXCEPT !.schema = @ - 1] \in Contents
  BY <1>1 DEF Contents
<1>3. FilesOK'
  BY <1>2, CommitOK DEF Rollback, IInv, DataOK
<1>4. incidents' \in 0..MaxIncidents
  BY RecoveryAssumption DEF Rollback, IInv, DataOK, RestOK
<1>5. BackupsOK' /\ RestOK'
  BY <1>4 DEF Rollback, history, IInv, DataOK, BackupsOK, RestOK
<1> QED
  BY <1>3, <1>5, ControlStays DEF Rollback, history, IInv, DataOK

LEMMA StopKeeps == IInv /\ Stop => IInv'
<1> SUFFICES ASSUME IInv, Stop PROVE IInv'
  OBVIOUS
<1>1. Visible \in Contents
  BY VisibleOK DEF IInv, DataOK
<1>2. [Visible EXCEPT !.sound = Sound] \in Contents
  BY <1>1 DEF IInv, DataOK, FilesOK, Contents, Sound
<1>3. FilesOK'
  BY <1>2 DEF Stop, IInv, DataOK, FilesOK
<1>4. BackupsOK' /\ RestOK'
  BY DEF Stop, environment, history, IInv, DataOK, BackupsOK, RestOK
<1> QED
  BY <1>3, <1>4, ControlStays DEF Stop, history, IInv, DataOK

LEMMA WriteKeeps == IInv /\ Write => IInv'
<1> SUFFICES ASSUME IInv, Write PROVE IInv'
  OBVIOUS
<1>1. Visible \in Contents /\ writes + 1 \in 0..MaxWrites
  BY VisibleOK, RecoveryAssumption DEF Write, IInv, DataOK, RestOK
<1>2. [Visible EXCEPT !.data = writes + 1] \in Contents
  BY <1>1 DEF Contents
<1>3. FilesOK'
  BY <1>2, CommitOK DEF Write, IInv, DataOK
<1>4. BackupsOK' /\ RestOK'
  BY <1>1 DEF Write, history, IInv, DataOK, BackupsOK, RestOK
<1> QED
  BY <1>3, <1>4, ControlStays DEF Write, history, IInv, DataOK

LEMMA DeployKeeps == IInv /\ Deploy => IInv'
<1> SUFFICES ASSUME IInv, Deploy PROVE IInv'
  OBVIOUS
<1>1. incidents' \in 0..MaxIncidents /\ release' \in Versions
  BY RecoveryAssumption DEF Deploy, IInv, DataOK, RestOK
<1>2. DataOK'
  BY <1>1 DEF Deploy, files, history, IInv, DataOK, FilesOK, BackupsOK, RestOK
<1> QED
  BY <1>2, ControlStays DEF Deploy, history, IInv

LEMMA StutterKeeps == IInv /\ UNCHANGED vars => IInv'
<1> SUFFICES ASSUME IInv, UNCHANGED vars PROVE IInv'
  OBVIOUS
<1>1. DataOK'
  BY DEF vars, files, environment, history, IInv, DataOK, FilesOK, BackupsOK, RestOK
<1> QED
  BY <1>1, ControlStays DEF vars, history, IInv

LEMMA NextKeeps == IInv /\ [Next]_vars => IInv'
<1> SUFFICES ASSUME IInv, [Next]_vars PROVE IInv'
  OBVIOUS
<1>1. ASSUME NEW p \in Processes,
             \/ Acquire(p) \/ UnlinkStaleLock(p) \/ CreateLock(p)
             \/ CreateStep(p) \/ PruneStep(p) \/ MigrateStep(p) \/ RestoreStep(p)
             \/ Rollback(p) \/ Fails(p) \/ CutShort(p) \/ Crash(p)
      PROVE  IInv'
  BY <1>1, AcquireKeeps, UnlinkStaleLockKeeps, CreateLockKeeps, CreateStepKeeps,
     PruneStepKeeps, MigrateStepKeeps, RestoreStepKeeps, RollbackKeeps, FailsKeeps,
     CutShortKeeps, CrashKeeps
<1>2. ASSUME NEW p \in Processes, BeginMigrate(p) PROVE IInv'
  <2>1. op[p] = Idle
    BY <1>2, OperationFacts DEF BeginMigrate, At, IInv, Coherent
  <2> QED
    BY <1>2, <2>1, BeginKeeps DEF BeginMigrate
<1>3. CASE Start
  <2>1. Service \in Processes
    BY DEF Processes
  <2> QED
    BY <1>3, <2>1, BeginKeeps DEF Start, Offline
<1>4. CASE LockAges \/ Stop \/ Write \/ Deploy \/ UNCHANGED vars
  BY <1>4, LockAgesKeeps, StopKeeps, WriteKeeps, DeployKeeps, StutterKeeps
<1> QED
  BY <1>1, <1>2, <1>3, <1>4 DEF Next

-----------------------------------------------------------------------------

LEMMA ExclusionHolds == IInv => OneOperationAtATime
<1> SUFFICES ASSUME IInv, ~raced
             PROVE  Cardinality({p \in Processes : Holds(p)}) <= 1
  BY DEF OneOperationAtATime
<1> DEFINE Holders == {p \in Processes : Holds(p)}
<1>1. \A p \in Holders : p = lock.by
  BY DEF IInv, ControlOK, LockNamesHolder
<1>2. CASE Holders = {}
  BY <1>2, FS_EmptySet
<1>3. CASE Holders # {}
  <2>1. Holders = {lock.by}
    BY <1>1, <1>3
  <2> QED
    BY <2>1, FS_Singleton
<1> QED
  BY <1>2, <1>3

(***************************************************************************)
(* Files, backups, lock and operations stay well formed, and the backup    *)
(* operations of the service and the command line exclude each other until *)
(* both have found the same stale lock file (_operation_lock).             *)
(***************************************************************************)
THEOREM RecoveryCorrect == Spec => []RecoveryInv
<1>1. Init => IInv
  BY InitEstablishes
<1>2. IInv /\ [Next]_vars => IInv'
  BY NextKeeps
<1>3. IInv => RecoveryInv
  BY TypeParts, ExclusionHolds DEF RecoveryInv
<1> QED
  BY <1>1, <1>2, <1>3, PTL DEF Spec

-----------------------------------------------------------------------------
(* The second part.  RecoveryInv says that files and operations are well    *)
(* formed and who holds the lock; the conjuncts below say what is in the    *)
(* files meanwhile.                                                         *)

\* What a step of an operation says of its kind and of what comes next.
Ordered(o) ==
    /\ o.at \notin {"idle", "read_schema", "migrate"} => o.kind \in LockedKinds
    /\ o.at = "verify" => o.kind = "verify"
    /\ o.next \in {"serve", "migrated"} => o.kind = Null
    /\ o.at \in {"read_schema", "migrate"} <=> o.next # Null
    /\ o.doomed # {} =>
         /\ o.kind \in {"create", "prune"}
         /\ o.at \in {"remove", "remove_file"} \/ o.next = "deleted"
    /\ o.at \in {"unlink", "relock", "check"} => o.before = Null
    /\ o.at \in {"unlink", "relock", "check", "snapshot", "describe"} => o.flushed

OrderOK == \A p \in Processes : Ordered(op[p])

\* Nothing else runs beside a restore, and the service waits for its schema.
Alone ==
    /\ op[Service].kind # "restore"
    /\ op[CommandLine].kind = "restore" => ~up /\ op[Service] = Idle
    /\ \A p \in Processes : op[p].next = "serve" => p = Service /\ ~up

\* A process that migrates has a database and has not overtaken it.
SchemaOK == \A p \in Processes :
    op[p].at = "migrate" =>
        db # Null /\ op[p].plan <= Visible.schema /\ Visible.schema <= release

\* The log of the old database is gone, or its checkpoint failed.
PastFlush(o) ==
    \/ o.at \in {"copy", "aside", "replace", "clean", "final", "undo", "drop", "put_back"}
    \/ o.next = "replaced"

SoundOK ==
    /\ \A f \in {db, wal, previous} : f # Null => f.sound \/ unflushed
    /\ db = Null /\ wal # Null => unflushed
    /\ \A p \in Processes : PastFlush(op[p]) => wal = Null \/ unflushed

\* What a restore has found is where it will look for it.
OldKept(o) ==
    o.kind = "restore" /\ o.before # Null /\ o.flushed =>
        /\ o.at \in {"snapshot", "describe", "checkpoint", "copy", "aside"} \/ o.next = "active" =>
              db # Null /\ Visible.data = o.before
        /\ PastFlush(o) => wal = Null
        /\ o.at = "aside" => previous = Null
        /\ o.at \in {"replace", "clean", "final", "drop", "put_back"} \/ o.next = "replaced" =>
              previous # Null /\ previous.data = o.before
        /\ o.at = "undo" =>
              IF previous = Null THEN db # Null /\ Visible.data = o.before
              ELSE previous.data = o.before

\* What a restore was asked for is on its way.
NewComes(o) ==
    o.kind = "restore" =>
        /\ o.at \in {"snapshot", "describe", "checkpoint", "copy"} \/ o.next = "active" =>
              /\ backup[o.from] # Null
              /\ backup[o.from].content.data = o.chosen
        /\ o.at = "describe" => o.new # o.from
        /\ o.at \in {"aside", "replace"} => temp # Null /\ temp.data = o.chosen
        /\ o.at = "clean" => db # Null /\ db.data = o.chosen
        /\ o.at = "final" \/ o.next \in {"replaced", "restored"} =>
              db # Null /\ wal = Null /\ db.data = o.chosen
        /\ o.at = "final" \/ o.next = "restored" => db.schema = release
        /\ o.next = "restored" => db.sound

Numbered == \A b \in Backups : backup[b] # Null => b <= made

RestoreOK == Numbered /\ \A p \in Processes : OldKept(op[p]) /\ NewComes(op[p])

\* As many newer backups were made as pruning has kept at least.
Outlived(d) == made >= d.since + d.least

\* A newer backup is there to keep, and nobody needs b.
Dispensable(b) == b < made /\ \A d \in owed : d.since = b => Outlived(d)

Safe(o) == made >= 1 /\ o.new = made /\ Good(made)

Kept(o) ==
    /\ \A b \in o.doomed : Good(b) => Dispensable(b)
    /\ o.at = "remove_file" => ~Good(o.from)
    /\ o.at = "describe" => o.new = made /\ made >= 1 /\ \A d \in owed : d.since < made
    /\ o.at = "describe" /\ o.kind = "restore" =>
          db # Null /\ backup[made] # Null /\ backup[made].content.data = Visible.data
    /\ o.kind = "restore" /\ (o.at = "checkpoint" \/ o.next = "active") =>
          db # Null /\ Safe(o) /\ backup[made].content.data = Visible.data
    /\ o.kind = "restore" /\ o.at \in {"copy", "aside"} =>
          db = Null \/ (Safe(o) /\ backup[made].content.data = Visible.data)
    /\ o.kind = "create" /\ (o.at \in {"list", "remove", "remove_file"}
                              \/ o.next \in {"active", "deleted"}) => Safe(o)

Covered(d) ==
    /\ d.since <= made
    /\ \/ d.since >= 1 /\ Good(d.since) /\ backup[d.since].content.data = d.data
       \/ Outlived(d)

KeptOK == ~raced => (\A p \in Processes : Kept(op[p])) /\ \A d \in owed : Covered(d)

\* A restore that has made its safety backup: what it found is in there.
SafetyKept(o) ==
    /\ o.kind = "restore" /\ o.before # Null
    /\ o.at \notin {"idle", "unlink", "relock", "check", "snapshot", "describe"}
    => Safe(o) /\ backup[made].content.data = o.before

SafetyOK == ~raced => \A p \in Processes : SafetyKept(op[p])

-----------------------------------------------------------------------------
(* What each step does to the operation of its process *)

Others(p) == \A q \in Processes : q # p => op'[q] = op[q]

Carried(n, o) ==
    n.kind = o.kind /\ n.before = o.before /\ n.chosen = o.chosen /\ n.flushed = o.flushed

Aims(n, o) == n.from = o.from /\ n.new = o.new /\ n.doomed = o.doomed

LEMMA Moved ==
    ASSUME OpsOK, NEW p \in Processes, NEW n, op' = [op EXCEPT ![p] = n]
    PROVE  op'[p] = n /\ Others(p)
BY DEF OpsOK, Others

LEMMA GoEdge ==
    ASSUME OpsOK, NEW p \in Processes, NEW step, Go(p, step)
    PROVE  /\ Others(p) /\ Carried(op'[p], op[p]) /\ Aims(op'[p], op[p])
           /\ op'[p].at = step /\ op'[p].next = op[p].next /\ op'[p].plan = op[p].plan
<1> DEFINE n == [op[p] EXCEPT !.at = step]
<1>1. op[p] \in Operations
  BY DEF OpsOK, Coherents
<1>2. op'[p] = n /\ Others(p)
  BY DEF Go, OpsOK, Others
<1>3. /\ Carried(n, op[p]) /\ Aims(n, op[p])
      /\ n.at = step /\ n.next = op[p].next /\ n.plan = op[p].plan
  BY <1>1 DEF Carried, Aims, Operations
<1> QED
  BY <1>2, <1>3

LEMMA ThenEdge ==
    ASSUME OpsOK, NEW p \in Processes, NEW step, Then(p, step)
    PROVE  /\ Others(p) /\ Carried(op'[p], op[p]) /\ Aims(op'[p], op[p])
           /\ op'[p].at = step /\ op'[p].next = Null
<1> DEFINE n == [op[p] EXCEPT !.at = step, !.plan = 0, !.next = Null]
<1>1. op[p] \in Operations
  BY DEF OpsOK, Coherents
<1>2. op'[p] = n /\ Others(p)
  BY DEF Then, OpsOK, Others
<1>3. Carried(n, op[p]) /\ Aims(n, op[p]) /\ n.at = step /\ n.next = Null
  BY <1>1 DEF Carried, Aims, Operations
<1> QED
  BY <1>2, <1>3

LEMMA CatalogEdge ==
    ASSUME OpsOK, NEW p \in Processes, NEW status, op' = [op EXCEPT ![p] = RecordCatalog(p, status)]
    PROVE  /\ Others(p) /\ Carried(op'[p], op[p]) /\ Aims(op'[p], op[p])
           /\ op'[p].at = "read_schema" /\ op'[p].next = status
<1> DEFINE n == RecordCatalog(p, status)
<1>1. op[p] \in Operations
  BY DEF OpsOK, Coherents
<1>2. op'[p] = n /\ Others(p)
  BY DEF OpsOK, Others
<1>3. Carried(n, op[p]) /\ Aims(n, op[p]) /\ n.at = "read_schema" /\ n.next = status
  BY <1>1 DEF Carried, Aims, Operations, RecordCatalog
<1> QED
  BY <1>2, <1>3

LEMMA SnapshotEdge ==
    ASSUME OpsOK, NEW p \in Processes, Snapshot(p)
    PROVE  /\ Others(p) /\ Carried(op'[p], op[p]) /\ op'[p].from = op[p].from
           /\ op'[p].doomed = op[p].doomed /\ op'[p].new = made + 1
           /\ op'[p].at = "describe" /\ op'[p].next = op[p].next
<1> DEFINE n == [op[p] EXCEPT !.at = "describe", !.new = made + 1]
<1>1. op[p] \in Operations
  BY DEF OpsOK, Coherents
<1>2. op'[p] = n /\ Others(p)
  BY DEF Snapshot, OpsOK, Others
<1>3. /\ Carried(n, op[p]) /\ n.from = op[p].from /\ n.doomed = op[p].doomed
      /\ n.new = made + 1 /\ n.at = "describe" /\ n.next = op[p].next
  BY <1>1 DEF Carried, Operations
<1> QED
  BY <1>2, <1>3

LEMMA RemoveFileEdge ==
    ASSUME OpsOK, NEW p \in Processes, RemoveFile(p)
    PROVE  /\ Others(p) /\ Carried(op'[p], op[p]) /\ op'[p].new = op[p].new
           /\ op'[p].doomed = op[p].doomed
           /\ op'[p].at = "read_schema" /\ op'[p].next = "deleted"
<1> DEFINE n == [RecordCatalog(p, "deleted") EXCEPT !.from = 0]
<1>1. op[p] \in Operations
  BY DEF OpsOK, Coherents
<1>2. op'[p] = n /\ Others(p)
  BY DEF RemoveFile, OpsOK, Others
<1>3. /\ Carried(n, op[p]) /\ n.new = op[p].new /\ n.doomed = op[p].doomed
      /\ n.at = "read_schema" /\ n.next = "deleted"
  BY <1>1 DEF Carried, Operations, RecordCatalog
<1> QED
  BY <1>2, <1>3

LEMMA MigrateEdges ==
    ASSUME OpsOK, NEW p \in Processes
    PROVE  /\ ReadSchema(p) =>
                /\ Others(p) /\ Carried(op'[p], op[p]) /\ Aims(op'[p], op[p])
                /\ op'[p].at = "migrate" /\ op'[p].next = op[p].next
                /\ op'[p].plan = Visible.schema
           /\ ApplyMigration(p) =>
                /\ Others(p) /\ Carried(op'[p], op[p]) /\ Aims(op'[p], op[p])
                /\ op'[p].at = "migrate" /\ op'[p].next = op[p].next
                /\ op'[p].plan = op[p].plan + 1
<1>1. op[p] \in Operations
  BY DEF OpsOK, Coherents
<1>2. CASE ReadSchema(p)
  <2> DEFINE n == [op[p] EXCEPT !.at = "migrate", !.plan = Visible.schema]
  <2>1. op'[p] = n /\ Others(p)
    BY <1>2 DEF ReadSchema, OpsOK, Others
  <2>2. /\ Carried(n, op[p]) /\ Aims(n, op[p]) /\ n.at = "migrate"
        /\ n.next = op[p].next /\ n.plan = Visible.schema
    BY <1>1 DEF Carried, Aims, Operations
  <2>3. ~ApplyMigration(p)
    BY <1>2 DEF ReadSchema, ApplyMigration, At
  <2> QED
    BY <2>1, <2>2, <2>3
<1>3. CASE ApplyMigration(p)
  <2> DEFINE n == [op[p] EXCEPT !.plan = @ + 1]
  <2>1. op'[p] = n /\ Others(p)
    BY <1>3 DEF ApplyMigration, OpsOK, Others
  <2>2. /\ Carried(n, op[p]) /\ Aims(n, op[p]) /\ n.at = "migrate"
        /\ n.next = op[p].next /\ n.plan = op[p].plan + 1
    BY <1>1, <1>3 DEF ApplyMigration, At, Carried, Aims, Operations
  <2>3. ~ReadSchema(p)
    BY <1>3 DEF ReadSchema, ApplyMigration, At
  <2> QED
    BY <2>1, <2>2, <2>3
<1> QED
  BY <1>2, <1>3

LEMMA RemoveLogEdge ==
    ASSUME OpsOK, NEW p \in Processes, RemoveLog(p)
    PROVE  /\ Others(p) /\ Carried(op'[p], op[p]) /\ Aims(op'[p], op[p])
           /\ \/ op'[p].at = "read_schema" /\ op'[p].next = "replaced"
              \/ op'[p].at = "undo" /\ op'[p].next = op[p].next
<1> DEFINE n == [op[p] EXCEPT !.at = "read_schema", !.next = "replaced"]
<1>1. op[p] \in Operations
  BY DEF OpsOK, Coherents
<1>2. CASE op' = [op EXCEPT ![p].at = "read_schema", ![p].next = "replaced"]
  <2>1. op'[p] = n /\ Others(p)
    BY <1>2 DEF OpsOK, Others
  <2>2. Carried(n, op[p]) /\ Aims(n, op[p]) /\ n.at = "read_schema" /\ n.next = "replaced"
    BY <1>1 DEF Carried, Aims, Operations
  <2> QED
    BY <2>1, <2>2
<1>3. CASE Go(p, "undo")
  BY <1>3, GoEdge
<1> QED
  BY <1>2, <1>3 DEF RemoveLog

LEMMA CheckpointEdge ==
    ASSUME OpsOK, NEW p \in Processes, Checkpoint(p)
    PROVE  /\ Others(p) /\ Aims(op'[p], op[p])
           /\ op'[p].kind = op[p].kind /\ op'[p].before = op[p].before
           /\ op'[p].chosen = op[p].chosen
           /\ op'[p].at = "copy" /\ op'[p].next = op[p].next
           /\ \/ /\ op'[p].flushed = op[p].flushed /\ unflushed' = unflushed
                 /\ wal' = Null /\ db' = IF db = Null THEN Null ELSE Visible
              \/ /\ op'[p].flushed = FALSE /\ unflushed' = TRUE
                 /\ UNCHANGED <<db, wal>>
<1>1. op[p] \in Operations
  BY DEF OpsOK, Coherents
<1>2. CASE Go(p, "copy") /\ unflushed' = unflushed
           /\ wal' = Null /\ db' = IF db = Null THEN Null ELSE Visible
  BY <1>2, GoEdge DEF Carried
<1>3. CASE /\ op' = [op EXCEPT ![p].at = "copy", ![p].flushed = FALSE]
           /\ unflushed' = TRUE /\ UNCHANGED <<db, wal>>
  <2> DEFINE n == [op[p] EXCEPT !.at = "copy", !.flushed = FALSE]
  <2>1. op'[p] = n /\ Others(p)
    BY <1>3 DEF OpsOK, Others
  <2>2. /\ Aims(n, op[p]) /\ n.kind = op[p].kind /\ n.before = op[p].before
        /\ n.chosen = op[p].chosen /\ n.at = "copy" /\ n.next = op[p].next /\ n.flushed = FALSE
    BY <1>1 DEF Aims, Operations
  <2> QED
    BY <1>3, <2>1, <2>2
<1> QED
  BY <1>2, <1>3 DEF Checkpoint

LEMMA CheckEdge ==
    ASSUME OpsOK, NEW p \in Processes, Check(p)
    PROVE  \E b \in Backups :
              /\ Good(b) /\ Others(p)
              /\ op'[p].kind = op[p].kind /\ op'[p].flushed = op[p].flushed
              /\ op'[p].doomed = op[p].doomed /\ op'[p].next = op[p].next
              /\ op'[p].at = IF db = Null THEN "copy" ELSE "snapshot"
              /\ op'[p].from = b
              /\ op'[p].before = IF db = Null THEN Null ELSE Visible.data
              /\ op'[p].chosen = backup[b].content.data
<1>1. op[p] \in Operations
  BY DEF OpsOK, Coherents
<1>2. PICK b \in Backups :
          /\ Good(b)
          /\ op' = [op EXCEPT ![p].at = IF db = Null THEN "copy" ELSE "snapshot",
                              ![p].from = b,
                              ![p].before = IF db = Null THEN Null ELSE Visible.data,
                              ![p].chosen = backup[b].content.data]
  BY DEF Check
<1> DEFINE step == IF db = Null THEN "copy" ELSE "snapshot"
           found == IF db = Null THEN Null ELSE Visible.data
           wanted == backup[b].content.data
           n == [op[p] EXCEPT !.at = step, !.from = b, !.before = found, !.chosen = wanted]
<1>3. op'[p] = n /\ Others(p)
  BY <1>2 DEF OpsOK, Others
<1>4. /\ n.kind = op[p].kind /\ n.flushed = op[p].flushed
      /\ n.doomed = op[p].doomed /\ n.next = op[p].next
      /\ n.at = step /\ n.from = b /\ n.before = found /\ n.chosen = wanted
  <2> HIDE DEF step, found, wanted
  <2> QED
    BY <1>1 DEF Operations
<1> QED
  BY <1>2, <1>3, <1>4

LEMMA ListEdge ==
    ASSUME OpsOK, NEW p \in Processes, List(p)
    PROVE  \E keep \in Nat \ {0}, kept \in SUBSET Present :
              /\ Cardinality(kept) = keep
              /\ \A k \in kept, d \in Present \ kept : Age(k) >= Age(d)
              /\ owed' = {[o EXCEPT !.least = IF keep < @ THEN keep ELSE @] : o \in owed}
              /\ Others(p) /\ Carried(op'[p], op[p]) /\ op'[p].new = op[p].new
              /\ op'[p].at = "remove" /\ op'[p].next = op[p].next
              /\ op'[p].doomed = Present \ kept
<1>1. op[p] \in Operations
  BY DEF OpsOK, Coherents
<1>2. PICK keep \in Keeps(p), kept \in SUBSET Present :
          /\ Cardinality(kept) = keep
          /\ \A k \in kept, d \in Present \ kept : Age(k) >= Age(d)
          /\ owed' = {[o EXCEPT !.least = IF keep < @ THEN keep ELSE @] : o \in owed}
          /\ op' = [op EXCEPT ![p].at = "remove", ![p].doomed = Present \ kept]
  BY DEF List
<1>5. keep \in Nat \ {0}
  BY KeepsFacts
<1> DEFINE doomed == Present \ kept
           n == [op[p] EXCEPT !.at = "remove", !.doomed = doomed]
<1>3. op'[p] = n /\ Others(p)
  BY <1>2 DEF OpsOK, Others
<1>4. /\ Carried(n, op[p]) /\ n.new = op[p].new /\ n.at = "remove"
      /\ n.next = op[p].next /\ n.doomed = doomed
  <2> HIDE DEF doomed
  <2> QED
    BY <1>1 DEF Carried, Operations
<1> QED
  BY <1>2, <1>3, <1>4, <1>5

LEMMA RemoveSidecarEdge ==
    ASSUME OpsOK, NEW p \in Processes, RemoveSidecar(p)
    PROVE  \E b \in op[p].doomed :
              /\ b \in Backups
              /\ Others(p) /\ Carried(op'[p], op[p]) /\ op'[p].new = op[p].new
              /\ op'[p].next = op[p].next
              /\ op'[p].at = IF backup[b] = Null THEN "remove" ELSE "remove_file"
              /\ op'[p].doomed = op[p].doomed \ {b}
              /\ op'[p].from = b
              /\ backup' = IF backup[b] = Null THEN backup
                           ELSE [backup EXCEPT ![b].described = FALSE]
<1>1. op[p] \in Operations
  BY DEF OpsOK, Coherents
<1>2. PICK b \in op[p].doomed :
          /\ op' = [op EXCEPT
                      ![p].at = IF backup[b] = Null THEN "remove" ELSE "remove_file",
                      ![p].doomed = @ \ {b}, ![p].from = b]
          /\ backup' = IF backup[b] = Null THEN backup
                       ELSE [backup EXCEPT ![b].described = FALSE]
  BY DEF RemoveSidecar
<1> DEFINE step == IF backup[b] = Null THEN "remove" ELSE "remove_file"
           rest == op[p].doomed \ {b}
           n == [op[p] EXCEPT !.at = step, !.doomed = rest, !.from = b]
<1>3. op'[p] = n /\ Others(p)
  BY <1>2 DEF OpsOK, Others
<1>4. /\ Carried(n, op[p]) /\ n.new = op[p].new /\ n.at = step
      /\ n.next = op[p].next /\ n.doomed = rest /\ n.from = b
  <2> HIDE DEF step, rest
  <2> QED
    BY <1>1 DEF Carried, Operations
<1>5. b \in Backups
  BY <1>1 DEF Operations
<1> QED
  BY <1>2, <1>3, <1>4, <1>5

LEMMA ReturnEdge ==
    ASSUME OpsOK, NEW p \in Processes, Return(p)
    PROVE  op'[p] = Idle /\ Others(p)
BY Moved DEF Return

LEMMA IdleFields ==
    /\ Idle.at = "idle" /\ Idle.kind = Null /\ Idle.next = Null /\ Idle.doomed = {}
    /\ Idle.before = Null /\ Idle.flushed = TRUE
    /\ Ordered(Idle) /\ ~PastFlush(Idle)
BY RecoveryAssumption DEF Idle, Ordered, PastFlush, LockedKinds

\* The operation is taken up where it was, or ends.
LEMMA GoOnEdge ==
    ASSUME OpsOK, NEW p \in Processes, GoOn(p)
    PROVE  /\ Others(p)
           /\ \/ /\ op[p].next = "deleted" /\ op'[p].at = "remove"
                 /\ op'[p].next = Null /\ Carried(op'[p], op[p]) /\ Aims(op'[p], op[p])
              \/ /\ op[p].next = "active" /\ op[p].kind = "create" /\ op'[p].at = "list"
                 /\ op'[p].next = Null /\ Carried(op'[p], op[p]) /\ Aims(op'[p], op[p])
              \/ /\ op[p].next = "active" /\ op[p].kind = "restore" /\ op'[p].at = "checkpoint"
                 /\ op'[p].next = Null /\ Carried(op'[p], op[p]) /\ Aims(op'[p], op[p])
              \/ /\ op[p].next # "deleted"
                 /\ ~(op[p].next = "active" /\ op[p].kind \in {"create", "restore"})
                 /\ op'[p] = Idle
<1>1. CASE op[p].next = "deleted"
  <2>1. Then(p, "remove")
    BY <1>1 DEF GoOn
  <2> QED
    BY <1>1, <2>1, ThenEdge
<1>2. CASE op[p].next = "active" /\ op[p].kind = "create"
  <2>1. Then(p, "list")
    BY <1>2 DEF GoOn
  <2> QED
    BY <1>2, <2>1, ThenEdge
<1>3. CASE op[p].next = "active" /\ op[p].kind = "restore"
  <2>1. Then(p, "checkpoint")
    BY <1>3 DEF GoOn
  <2> QED
    BY <1>3, <2>1, ThenEdge
<1>4. CASE /\ op[p].next # "deleted"
           /\ ~(op[p].next = "active" /\ op[p].kind \in {"create", "restore"})
  <2>1. Return(p)
    BY <1>4 DEF GoOn
  <2> QED
    BY <1>4, <2>1, ReturnEdge
<1> QED
  BY <1>1, <1>2, <1>3, <1>4

\* Where the schema is as it should be, or the migration failed.
LEMMA MigratedEdge ==
    ASSUME OpsOK, NEW p \in Processes, Migrated(p) \/ MigrationFails(p)
    PROVE  /\ op[p].at \in {"read_schema", "migrate"}
           /\ UNCHANGED <<db, wal, previous, temp, backup, made, environment, history>>
           /\ Others(p)
           /\ \/ op'[p] = Idle /\ (up' = up \/ (Migrated(p) /\ op[p].next = "serve"))
              \/ /\ up' = up /\ op[p].next = "replaced" /\ op'[p].next = Null
                 /\ Carried(op'[p], op[p]) /\ Aims(op'[p], op[p])
                 /\ \/ op'[p].at = "final" /\ Migrated(p)
                    \/ op'[p].at = "undo"
              \/ up' = up /\ GoOn(p)
<1>1. CASE Migrated(p)
  <2>1. /\ op[p].at \in {"read_schema", "migrate"}
        /\ UNCHANGED <<db, wal, previous, temp, backup, made, environment, history>>
    BY <1>1 DEF Migrated, At
  <2>2. CASE op[p].next \in {"serve", "migrated"}
    <3>1. Return(p) /\ (up' = up \/ op[p].next = "serve")
      BY <1>1, <2>2 DEF Migrated
    <3> QED
      BY <1>1, <2>1, <3>1, ReturnEdge
  <2>3. CASE op[p].next = "replaced"
    <3>1. Then(p, "final") /\ up' = up
      BY <1>1, <2>3 DEF Migrated
    <3> QED
      BY <1>1, <2>1, <2>3, <3>1, ThenEdge
  <2>4. CASE op[p].next \notin {"serve", "migrated", "replaced"}
    <3>1. GoOn(p) /\ up' = up
      BY <1>1, <2>4 DEF Migrated
    <3> QED
      BY <2>1, <3>1, GoOnEdge
  <2> QED
    BY <2>2, <2>3, <2>4
<1>2. CASE MigrationFails(p)
  <2>1. /\ op[p].at \in {"read_schema", "migrate"} /\ up' = up
        /\ UNCHANGED <<db, wal, previous, temp, backup, made, environment, history>>
    BY <1>2 DEF MigrationFails, files
  <2>2. CASE op[p].next = "replaced"
    <3>1. Then(p, "undo")
      BY <1>2, <2>2 DEF MigrationFails, CatalogStatuses
    <3> QED
      BY <2>1, <2>2, <3>1, ThenEdge
  <2>3. CASE op[p].next \in CatalogStatuses
    <3>1. GoOn(p)
      BY <1>2, <2>3 DEF MigrationFails, CatalogStatuses
    <3> QED
      BY <2>1, <3>1, GoOnEdge
  <2>4. CASE op[p].next \notin {"replaced"} \cup CatalogStatuses
    <3>1. Return(p)
      BY <1>2, <2>4 DEF MigrationFails
    <3> QED
      BY <2>1, <3>1, ReturnEdge
  <2> QED
    BY <2>2, <2>3, <2>4
<1> QED
  BY <1>1, <1>2

LEMMA FailsEdge ==
    ASSUME OpsOK, NEW p \in Processes, Fails(p)
    PROVE  /\ UNCHANGED <<files, backup, made, up, environment, history>>
           /\ Others(p)
           /\ \/ /\ op[p].at \in {"snapshot", "describe", "verify", "list", "remove",
                                  "remove_file", "check", "copy"}
                 /\ op'[p] = Idle
              \/ /\ op[p].at \in {"aside", "replace", "clean", "final"}
                 /\ op'[p].at = "undo" /\ op'[p].next = op[p].next
                 /\ Carried(op'[p], op[p]) /\ Aims(op'[p], op[p])
              \/ op[p].at \in {"unlink", "relock"} /\ op'[p] = Idle
<1>1. UNCHANGED <<files, backup, made, up, environment, history>>
  BY DEF Fails
<1>2. CASE /\ op[p].at \in {"snapshot", "describe", "verify", "list", "remove",
                            "remove_file", "check", "copy"}
           /\ Return(p)
  BY <1>1, <1>2, ReturnEdge
<1>3. CASE op[p].at \in {"aside", "replace", "clean", "final"} /\ Go(p, "undo")
  BY <1>1, <1>3, GoEdge
<1>4. CASE op[p].at \in {"unlink", "relock"} /\ op' = [op EXCEPT ![p] = Idle]
  BY <1>1, <1>4, Moved
<1> QED
  BY <1>2, <1>3, <1>4 DEF Fails

\* An operation is cut off, in the process or with it.
Cut(p) == CutShort(p) \/ Crash(p)

LEMMA CutEdge ==
    ASSUME OpsOK, NEW p \in Processes, Cut(p)
    PROVE  /\ op'[p] = Idle /\ Others(p) /\ (up' => up)
           /\ UNCHANGED <<db, wal, previous, temp, backup, made, release, history>>
           /\ incidents' = incidents + 1
<1>1. op' = [op EXCEPT ![p] = Idle] /\ incidents' = incidents + 1
  BY DEF Cut, CutShort, Crash
<1>3. up' => up
  BY Zenon DEF Cut, CutShort, Crash
<1>2. UNCHANGED <<db, wal, previous, temp, backup, made, release, history>>
  BY DEF Cut, CutShort, Crash, files
<1> QED
  BY <1>1, <1>2, <1>3, Moved

\* An operation or a migration begins.
LEMMA AcquireEdge ==
    ASSUME OpsOK, NEW p \in Processes, Acquire(p)
    PROVE  \E kind \in LockedKinds :
              /\ MayBegin(p, kind) /\ Others(p)
              /\ op'[p].at = First(kind) \/ op'[p].at = "unlink"
              /\ op'[p].kind = kind /\ op'[p].next = Null /\ op'[p].doomed = {}
              /\ op'[p].before = Null /\ op'[p].flushed = TRUE
<1>1. PICK kind \in LockedKinds :
        /\ MayBegin(p, kind)
        /\ \E step \in {First(kind), "unlink"} :
              op' = [op EXCEPT ![p] = [Idle EXCEPT !.at = step, !.kind = kind]]
  BY DEF Acquire
<1>0. PICK step \in {First(kind), "unlink"} :
        op' = [op EXCEPT ![p] = [Idle EXCEPT !.at = step, !.kind = kind]]
  BY <1>1
<1> DEFINE n == [Idle EXCEPT !.at = step, !.kind = kind]
<1>2. op'[p] = n /\ Others(p)
  BY <1>0, Moved
<1>3. /\ n.at = step /\ n.kind = kind /\ n.next = Null /\ n.doomed = {}
      /\ n.before = Null /\ n.flushed = TRUE
  BY DEF Idle
<1> QED
  BY <1>1, <1>2, <1>3

LEMMA BeginEdge ==
    ASSUME OpsOK, NEW p \in Processes, op[p] = Idle, NEW next,
           op' = [op EXCEPT ![p].at = "read_schema", ![p].next = next]
    PROVE  /\ Others(p) /\ op'[p].at = "read_schema" /\ op'[p].next = next
           /\ op'[p].kind = Null /\ op'[p].doomed = {} /\ op'[p].before = Null
<1> DEFINE n == [Idle EXCEPT !.at = "read_schema", !.next = next]
<1>1. op'[p] = n /\ Others(p)
  BY DEF OpsOK, Others
<1>2. /\ n.at = "read_schema" /\ n.next = next
      /\ n.kind = Null /\ n.doomed = {} /\ n.before = Null
  BY DEF Idle
<1> QED
  BY <1>1, <1>2

LEMMA CreateLockEdge ==
    ASSUME OpsOK, NEW p \in Processes, CreateLock(p)
    PROVE  /\ Others(p)
           /\ \/ op'[p] = Idle
              \/ /\ op'[p].at = First(op[p].kind) /\ op'[p].next = op[p].next
                 /\ Carried(op'[p], op[p]) /\ Aims(op'[p], op[p])
<1>1. CASE Go(p, First(op[p].kind))
  BY <1>1, GoEdge
<1>2. CASE op' = [op EXCEPT ![p] = Idle]
  BY <1>2, Moved
<1> QED
  BY <1>1, <1>2 DEF CreateLock

-----------------------------------------------------------------------------
(* The order of an operation, and what runs beside it *)

\* One process takes a step; RecoveryInv holds before it.
ProcessStep(p) ==
    \/ Acquire(p) \/ UnlinkStaleLock(p) \/ CreateLock(p)
    \/ CreateStep(p) \/ PruneStep(p) \/ MigrateStep(p) \/ RestoreStep(p)
    \/ BeginMigrate(p) \/ Fails(p) \/ Cut(p)
    \/ (p = Service /\ Start)

\* What leaves the operations alone.
WorldStep ==
    \/ LockAges \/ Stop \/ Write \/ Deploy \/ UNCHANGED vars
    \/ \E p \in Processes : Rollback(p)

LEMMA Steps ==
    ASSUME [Next]_vars
    PROVE  WorldStep \/ \E p \in Processes : ProcessStep(p)
<1>1. Service \in Processes
  BY DEF Processes
<1> QED
  BY <1>1 DEF Next, WorldStep, ProcessStep, Cut

LEMMA WorldKeepsOps ==
    WorldStep => UNCHANGED <<op, backup, made, owed, raced, unflushed, previous, temp>>
BY DEF WorldStep, LockAges, Stop, Write, Deploy, Rollback, vars, files, history

LEMMA FirstSteps ==
    ASSUME NEW kind \in LockedKinds
    PROVE  /\ First(kind) \in {"snapshot", "list", "verify", "check"}
           /\ kind = "create" => First(kind) = "snapshot"
           /\ kind = "restore" => First(kind) = "check"
           /\ kind = "verify" <=> First(kind) = "verify"
BY DEF First, LockedKinds

LEMMA NullIsNoWord ==
    /\ Null \notin {"create", "prune", "verify", "restore", "active", "deleted", "restored",
                  "serve", "replaced", "migrated"}
    /\ Null \notin LockedKinds
BY RecoveryAssumption DEF LockedKinds

LEMMA OrderKept ==
    ASSUME OpsOK, OrderOK, NEW p \in Processes, ProcessStep(p)
    PROVE  Ordered(op'[p]) /\ Others(p)
<1>0. Ordered(op[p]) /\ op[p] \in Operations /\ Coherent(op[p])
  BY DEF OrderOK, OpsOK, Coherents
<1>1. CASE op'[p] = Idle /\ Others(p)
  BY <1>1, IdleFields
<1>2. CASE Acquire(p)
  BY <1>2, AcquireEdge, FirstSteps, NullIsNoWord DEF Ordered
<1>3. CASE UnlinkStaleLock(p)
  <2>1. Go(p, "relock") /\ op[p].at = "unlink"
    BY <1>3 DEF UnlinkStaleLock, At
  <2> QED
    BY <1>0, <2>1, GoEdge DEF Ordered, Carried, Aims
<1>4. CASE CreateLock(p)
  <2>1. op[p].at = "relock"
    BY <1>4 DEF CreateLock, At
  <2>2. op[p].kind \in LockedKinds
    BY <1>0, <2>1 DEF Ordered
  <2> QED
    BY <1>0, <1>1, <1>4, <2>1, <2>2, CreateLockEdge, FirstSteps DEF Ordered, Carried, Aims
<1>5. CASE Snapshot(p)
  BY <1>0, <1>5, SnapshotEdge DEF Snapshot, At, Ordered, Carried
<1>6. CASE Describe(p) \/ VerifyBackup(p)
  <2>1. /\ op[p].at \in {"describe", "verify"}
        /\ op' = [op EXCEPT ![p] = RecordCatalog(p, "active")]
    BY <1>6 DEF Describe, VerifyBackup, At
  <2>2. /\ Others(p) /\ Carried(op'[p], op[p]) /\ Aims(op'[p], op[p])
        /\ op'[p].at = "read_schema" /\ op'[p].next = "active"
    BY <2>1, CatalogEdge
  <2>3. op[p].doomed = {}
    BY <1>0, <2>1, NullIsNoWord DEF Ordered
  <2> QED
    BY <2>2, <2>3, NullIsNoWord DEF Ordered, Carried, Aims
<1>7. CASE Discard(p) \/ Pruned(p)
  <2>1. Return(p)
    BY <1>7 DEF Discard, Pruned
  <2> QED
    BY <2>1, <1>1, ReturnEdge
<1>8. CASE List(p)
  <2>1. op[p].at = "list"
    BY <1>8 DEF List, At
  <2> QED
    BY <1>0, <1>8, <2>1, ListEdge DEF Ordered, Carried, Coherent
<1>9. CASE RemoveSidecar(p)
  <2>1. op[p].at = "remove"
    BY <1>9 DEF RemoveSidecar, At
  <2> QED
    BY <1>0, <1>9, <2>1, RemoveSidecarEdge DEF Ordered, Carried, Coherent
<1>10. CASE RemoveFile(p)
  <2>1. op[p].at = "remove_file"
    BY <1>10 DEF RemoveFile, At
  <2> QED
    BY <1>0, <1>10, <2>1, RemoveFileEdge, NullIsNoWord DEF Ordered, Carried, Coherent
<1>11. CASE ReadSchema(p) \/ ApplyMigration(p)
  <2>1. op[p].at \in {"read_schema", "migrate"}
    BY <1>11 DEF ReadSchema, ApplyMigration, At
  <2> QED
    BY <1>0, <1>11, <2>1, MigrateEdges DEF Ordered, Carried, Aims
<1>12. CASE Migrated(p) \/ MigrationFails(p)
  <2>1. op[p].at \in {"read_schema", "migrate"} /\ Others(p)
    BY <1>12, MigratedEdge
  <2>2. \/ op'[p] = Idle
        \/ /\ op[p].next = "replaced" /\ op'[p].next = Null
           /\ Carried(op'[p], op[p]) /\ Aims(op'[p], op[p])
           /\ op'[p].at \in {"final", "undo"}
        \/ GoOn(p)
    BY <1>12, MigratedEdge
  <2>3. CASE GoOn(p)
    BY <1>0, <1>1, <2>1, <2>3, GoOnEdge, NullIsNoWord
    DEF Ordered, Carried, Aims, Coherent, LockedKinds
  <2>4. CASE /\ op[p].next = "replaced" /\ op'[p].next = Null
             /\ Carried(op'[p], op[p]) /\ Aims(op'[p], op[p])
             /\ op'[p].at \in {"final", "undo"}
    <3>1. op[p].kind = "restore" /\ op[p].kind \in LockedKinds
      BY <1>0, <2>4 DEF Coherent, LockedKinds
    <3>2. op[p].doomed = {}
      BY <1>0, <3>1 DEF Ordered
    <3> QED
      BY <2>1, <2>4, <3>1, <3>2, NullIsNoWord DEF Ordered, Carried, Aims
  <2> QED
    BY <1>1, <2>1, <2>2, <2>3, <2>4
<1>13. CASE Check(p)
  <2>1. op[p].at = "check"
    BY <1>13 DEF Check, At
  <2> QED
    BY <1>0, <1>13, <2>1, CheckEdge DEF Ordered
<1>14. CASE Checkpoint(p)
  <2>1. op[p].at = "checkpoint"
    BY <1>14 DEF Checkpoint, At
  <2> QED
    BY <1>0, <1>14, <2>1, CheckpointEdge DEF Ordered, Aims
<1>15. ASSUME NEW step \in RestoreAts \ {"check", "checkpoint"}, Go(p, step),
              op[p].at \in RestoreAts \ {"check", "checkpoint"}
       PROVE  Ordered(op'[p]) /\ Others(p)
  BY <1>0, <1>15, GoEdge DEF Ordered, Carried, Aims, RestoreAts
<1>16. CASE Copy(p) \/ MoveAside(p) \/ Replace(p) \/ Drop(p)
  BY <1>15, <1>16 DEF Copy, MoveAside, Replace, Drop, At, RestoreAts
<1>17. CASE RemoveLog(p)
  <2>1. op[p].at = "clean"
    BY <1>17 DEF RemoveLog, At
  <2> QED
    BY <1>0, <1>17, <2>1, RemoveLogEdge, NullIsNoWord DEF Ordered, Carried, Aims
<1>18. CASE Finish(p)
  <2>1. /\ op[p].at = "final"
        /\ op' = [op EXCEPT ![p] = RecordCatalog(p, "restored")]
    BY <1>18 DEF Finish, At
  <2>2. /\ Others(p) /\ Carried(op'[p], op[p]) /\ Aims(op'[p], op[p])
        /\ op'[p].at = "read_schema" /\ op'[p].next = "restored"
    BY <2>1, CatalogEdge
  <2>3. op[p].doomed = {}
    BY <1>0, <2>1, NullIsNoWord DEF Ordered
  <2> QED
    BY <2>2, <2>3, NullIsNoWord DEF Ordered, Carried, Aims
<1>19. CASE Undo(p)
  <2>1. op[p].at = "undo" /\ (Return(p) \/ Go(p, "drop"))
    BY <1>19 DEF Undo, At
  <2> QED
    BY <1>1, <1>15, <2>1, ReturnEdge DEF RestoreAts
<1>20. CASE PutBack(p)
  BY <1>1, <1>20, ReturnEdge DEF PutBack
<1>21. ASSUME NEW next \in {"serve", "migrated"}, op[p] = Idle,
              op' = [op EXCEPT ![p].at = "read_schema", ![p].next = next]
       PROVE  Ordered(op'[p]) /\ Others(p)
  <2>1. next # Null
    BY NullIsNoWord
  <2> QED
    BY <1>21, <2>1, BeginEdge DEF Ordered
<1>22. CASE BeginMigrate(p)
  BY <1>0, <1>21, <1>22 DEF BeginMigrate, At, Coherent
<1>23. CASE p = Service /\ Start
  BY <1>21, <1>23 DEF Start, Offline
<1>24. CASE Fails(p)
  BY <1>0, <1>1, <1>24, FailsEdge DEF Ordered, Carried, Aims
<1>25. CASE Cut(p)
  BY <1>0, <1>1, <1>25, CutEdge
<1> QED
  BY <1>2, <1>3, <1>4, <1>5, <1>6, <1>7, <1>8, <1>9, <1>10, <1>11, <1>12, <1>13, <1>14,
     <1>16, <1>17, <1>18, <1>19, <1>20, <1>22, <1>23, <1>24, <1>25
  DEF ProcessStep, CreateStep, PruneStep, MigrateStep, RestoreStep

\* How the kind of an operation and the will to serve come and go.
LEMMA KindKept ==
    ASSUME OpsOK, NEW p \in Processes, ProcessStep(p), op[p] # Idle
    PROVE  \/ op'[p] = Idle
           \/ /\ op'[p].kind = op[p].kind
              /\ op'[p].next = "serve" => op[p].next = "serve"
<1>0. op[p].at # "idle"
  BY DEF OpsOK, Coherents, Coherent
<1>1. CASE op'[p] = Idle
  BY <1>1
<1>2. ASSUME NEW step, Go(p, step)
      PROVE  op'[p].kind = op[p].kind /\ op'[p].next = op[p].next
  BY <1>2, GoEdge DEF Carried
<1>3. CASE \/ Acquire(p) \/ BeginMigrate(p) \/ (p = Service /\ Start)
  BY <1>0, <1>3 DEF Acquire, MayBegin, BeginMigrate, Start, Offline, At
<1>4. CASE \/ UnlinkStaleLock(p) \/ CreateLock(p) \/ Copy(p) \/ MoveAside(p) \/ Replace(p)
           \/ Drop(p)
  BY <1>2, <1>4, CreateLockEdge DEF Carried, UnlinkStaleLock, Copy, MoveAside, Replace, Drop, Aims
<1>5. CASE \/ Snapshot(p) \/ List(p) \/ RemoveSidecar(p) \/ RemoveFile(p) \/ ReadSchema(p)
           \/ ApplyMigration(p) \/ Check(p) \/ Checkpoint(p)
  BY ZenonT(60), <1>5, SnapshotEdge, ListEdge, RemoveSidecarEdge, RemoveFileEdge, MigrateEdges,
     CheckEdge, CheckpointEdge DEF Carried
<1>11. CASE RemoveLog(p)
  BY <1>11, RemoveLogEdge DEF Carried
<1>6. CASE Describe(p) \/ VerifyBackup(p) \/ Finish(p)
  <2>1. \E status \in {"active", "restored"} : op' = [op EXCEPT ![p] = RecordCatalog(p, status)]
    BY <1>6 DEF Describe, VerifyBackup, Finish
  <2> QED
    BY <2>1, CatalogEdge DEF Carried
<1>7. CASE Discard(p) \/ Pruned(p) \/ Undo(p) \/ PutBack(p)
  BY <1>2, <1>7, ReturnEdge DEF Discard, Pruned, Undo, Drop, PutBack
<1>8. CASE Migrated(p) \/ MigrationFails(p)
  <2>1. GoOn(p) => op'[p] = Idle \/ (op'[p].kind = op[p].kind /\ op'[p].next = Null)
    BY GoOnEdge DEF Carried
  <2> QED
    BY <1>8, <2>1, MigratedEdge, NullIsNoWord DEF Carried
<1>9. CASE Fails(p)
  BY <1>9, FailsEdge DEF Carried
<1>10. CASE Cut(p)
  BY <1>10, CutEdge
<1> QED
  BY <1>3, <1>4, <1>5, <1>6, <1>7, <1>8, <1>9, <1>10, <1>11
  DEF ProcessStep, CreateStep, PruneStep, MigrateStep, RestoreStep

\* The service begins to accept requests in one way only.
LEMMA UpKept ==
    ASSUME OpsOK, NEW p \in Processes, ProcessStep(p)
    PROVE  (up' => up) \/ (Migrated(p) /\ op[p].next = "serve")
<1>1. CASE Migrated(p) \/ MigrationFails(p)
  BY <1>1, MigratedEdge
<1>2. CASE ~(Migrated(p) \/ MigrationFails(p))
  BY <1>2
  DEF ProcessStep, CreateStep, PruneStep, MigrateStep, RestoreStep, Acquire, UnlinkStaleLock,
      CreateLock, Snapshot, Describe, Discard, VerifyBackup, List, RemoveSidecar, RemoveFile,
      Pruned, ReadSchema, ApplyMigration, Check, Checkpoint, Copy, MoveAside, Replace,
      RemoveLog, Finish, Undo, Drop, PutBack, BeginMigrate, Fails, Cut, CutShort, Crash, Start
<1> QED
  BY <1>1, <1>2

LEMMA AloneKept ==
    ASSUME OpsOK, OrderOK, Alone, NEW p \in Processes, ProcessStep(p)
    PROVE  Alone'
<1>0. Others(p) /\ Processes = {Service, CommandLine} /\ Service # CommandLine
  BY OrderKept, RecoveryAssumption DEF Processes
<1>1. CASE op[p] # Idle
  <2>1. op[Service] # Idle /\ p = Service => op[CommandLine].kind # "restore"
    BY DEF Alone
  <2>2. op'[p].kind = "restore" => op[p].kind = "restore" /\ p = CommandLine
    BY <1>0, <1>1, KindKept, IdleFields, NullIsNoWord DEF Alone
  <2>3. \A q \in Processes : op'[q].next = "serve" => op[q].next = "serve"
    BY <1>0, <1>1, KindKept, IdleFields, NullIsNoWord DEF Others
  <2>4. CASE up' => up
    BY <1>0, <1>1, <2>1, <2>2, <2>3, <2>4 DEF Alone, Others
  <2>5. CASE Migrated(p) /\ op[p].next = "serve"
    <3>1. p = Service
      BY <2>5 DEF Alone
    <3>2. op'[p] = Idle
      BY <2>5, ReturnEdge DEF Migrated
    <3> QED
      BY <1>0, <1>1, <2>1, <2>2, <2>3, <3>1, <3>2, IdleFields, NullIsNoWord DEF Alone, Others
  <2> QED
    BY <2>4, <2>5, UpKept
<1>2. CASE op[p] = Idle
  <2>0. op[p].at = "idle" /\ op[p].next = Null
    BY <1>2, IdleFields
  <2>1. CASE Acquire(p)
    <3>1. PICK kind \in LockedKinds :
            /\ MayBegin(p, kind) /\ op'[p].kind = kind /\ op'[p].next = Null
      BY <2>1, AcquireEdge
    <3>2. up' = up
      BY <2>1 DEF Acquire
    <3>3. CASE p = Service
      <4>1. kind # "restore" /\ up
        BY <3>1, <3>3, RecoveryAssumption DEF MayBegin
      <4> QED
        BY <1>0, <3>1, <3>2, <3>3, <4>1, NullIsNoWord DEF Alone, Others
    <3>4. CASE p = CommandLine
      <4>1. kind = "restore" => ~up /\ op[Service] = Idle
        BY <3>1 DEF MayBegin, Offline
      <4> QED
        BY <1>0, <3>1, <3>2, <3>4, <4>1, NullIsNoWord DEF Alone, Others
    <3> QED
      BY <1>0, <3>3, <3>4
  <2>2. CASE BeginMigrate(p)
    <3>1. /\ p = CommandLine /\ up' = up
          /\ op' = [op EXCEPT ![p].at = "read_schema", ![p].next = "migrated"]
      BY <2>2 DEF BeginMigrate
    <3>2. op'[p].kind = Null /\ op'[p].next = "migrated"
      BY <1>2, <3>1, BeginEdge
    <3> QED
      BY <1>0, <3>1, <3>2, NullIsNoWord DEF Alone, Others
  <2>3. CASE p = Service /\ Start
    <3>1. /\ ~up /\ up' = up /\ op[CommandLine].kind # "restore"
          /\ op' = [op EXCEPT ![p].at = "read_schema", ![p].next = "serve"]
      BY <2>3 DEF Start, Offline
    <3>2. op'[p].kind = Null /\ op'[p].next = "serve"
      BY <1>2, <3>1, BeginEdge
    <3> QED
      BY <1>0, <2>3, <3>1, <3>2, NullIsNoWord DEF Alone, Others
  <2>4. CASE Cut(p)
    <3>1. op'[p] = Idle /\ (up' => up)
      BY <2>4, CutEdge
    <3> QED
      BY <1>0, <1>2, <3>1 DEF Alone, Others
  <2>5. CASE \/ UnlinkStaleLock(p) \/ CreateLock(p) \/ CreateStep(p) \/ PruneStep(p)
             \/ MigrateStep(p) \/ RestoreStep(p) \/ Fails(p)
    BY <2>0, <2>5
    DEF CreateStep, PruneStep, MigrateStep, RestoreStep, UnlinkStaleLock,
        CreateLock, Snapshot, Describe, Discard, VerifyBackup, List, RemoveSidecar, RemoveFile,
        Pruned, ReadSchema, ApplyMigration, Migrated, MigrationFails, Check, Checkpoint, Copy,
        MoveAside, Replace, RemoveLog, Finish, Undo, Drop, PutBack, Fails, At
  <2> QED
    BY <2>1, <2>2, <2>3, <2>4, <2>5 DEF ProcessStep
<1> QED
  BY <1>1, <1>2

LEMMA WorldKeepsAlone ==
    ASSUME Alone, WorldStep
    PROVE  Alone'
<1>1. UNCHANGED op /\ (up' => up)
  BY DEF WorldStep, LockAges, Stop, Write, Deploy, Rollback, vars
<1> QED
  BY <1>1 DEF Alone

-----------------------------------------------------------------------------
(* What the service runs on *)

Whole == SchemaOK /\ SoundOK /\ ServesWhole

\* A step of one operation that leaves database, log and release alone.
LEMMA QuietWhole ==
    ASSUME Whole, NEW p \in Processes, Others(p), UNCHANGED <<db, wal, release, unflushed>>,
           previous' \in {previous, Null}, up' => up,
           op'[p].at = "migrate" => op[p].at = "migrate" /\ op'[p].plan = op[p].plan,
           PastFlush(op'[p]) => PastFlush(op[p]) \/ wal = Null \/ unflushed
    PROVE  Whole'
<1>1. Visible' = Visible
  BY DEF Visible
<1>2. SchemaOK'
  BY <1>1 DEF Whole, SchemaOK, Others
<1>3. SoundOK'
  BY DEF Whole, SoundOK, Others
<1>4. ServesWhole'
  BY <1>1 DEF Whole, ServesWhole
<1> QED
  BY <1>2, <1>3, <1>4 DEF Whole

\* A restore works alone, on the files of a service that is down.
LEMMA RestoresAlone ==
    ASSUME OpsOK, Alone, NEW p \in Processes, op[p].kind = "restore"
    PROVE  p = CommandLine /\ ~up /\ \A q \in Processes : q # p => op[q] = Idle
BY RecoveryAssumption DEF Alone, Processes

LEMMA RestoreWhole ==
    ASSUME OpsOK, Alone, NEW p \in Processes, op[p].kind = "restore", Others(p), up' = up,
           op'[p].at # "migrate", SoundOK'
    PROVE  Whole'
<1>1. ~up /\ \A q \in Processes : q # p => op'[q].at = "idle"
  BY RestoresAlone, IdleFields DEF Others
<1> QED
  BY <1>1 DEF Whole, SchemaOK, ServesWhole

LEMMA RestoreStepWhole ==
    ASSUME IInv, OrderOK, Alone, Whole, NEW p \in Processes, RestoreStep(p)
    PROVE  Whole'
<1>0. /\ OpsOK /\ FilesOK /\ op[p] \in Operations /\ Coherent(op[p]) /\ Ordered(op[p])
      /\ Visible \in Contents
  BY OperationFacts, VisibleOK DEF IInv, DataOK, ControlOK, OrderOK
<1>a. RestoreStep(p) => up' = up
  BY DEF RestoreStep, Check, Checkpoint, Copy, MoveAside, Replace, RemoveLog, Finish, Undo, Drop,
         PutBack
<1>b. op[p].at \in RestoreAts /\ op[p].kind = "restore"
  <2>1. op[p].at \in RestoreAts
    BY DEF RestoreStep, Check, Checkpoint, Copy, MoveAside, Replace, RemoveLog, Finish, Undo, Drop,
           PutBack, At, RestoreAts
  <2> QED
    BY <1>0, <2>1 DEF Coherent
<1>c. \A q \in Processes : q # p => op[q] = Idle
  BY <1>0, <1>b, RestoresAlone
<1>d. ASSUME Others(p)
      PROVE  \A q \in Processes : q # p => ~PastFlush(op'[q])
  BY <1>c, <1>d, IdleFields DEF Others
<1>e. op[p].at \in RestoreAts => op[p].next = Null /\ Null # "replaced"
  BY <1>0, NullIsNoWord DEF Ordered, RestoreAts
<1>1. CASE Check(p)
  <2>1. PICK b \in Backups :
          /\ Others(p) /\ op'[p].next = op[p].next
          /\ op'[p].at = IF db = Null THEN "copy" ELSE "snapshot"
    BY <1>0, <1>1, CheckEdge
  <2>2. /\ UNCHANGED <<db, wal, release, unflushed, previous, up>>
    BY <1>1 DEF Check, files, environment, history
  <2>3. PastFlush(op'[p]) => wal = Null \/ unflushed
    BY <1>b, <1>e, <2>1 DEF PastFlush, Whole, SoundOK
  <2> QED
    BY <2>1, <2>2, <2>3, QuietWhole
<1>2. CASE Checkpoint(p)
  <2>1. /\ Others(p) /\ op'[p].at = "copy"
        /\ \/ wal' = Null /\ db' = IF db = Null THEN Null ELSE Visible
           \/ unflushed' = TRUE
    BY <1>0, <1>2, CheckpointEdge
  <2>2. previous' = previous /\ (unflushed' = unflushed \/ unflushed')
    BY <1>2 DEF Checkpoint
  <2>3. SoundOK'
    BY <1>d, <2>1, <2>2 DEF Whole, SoundOK, Visible
  <2> QED
    BY <1>0, <1>a, <1>b, <2>1, <2>3, RestoreWhole
<1>3. CASE Copy(p)
  <2>1. Others(p) /\ op'[p].at = "aside" /\ op[p].at = "copy"
    BY <1>0, <1>3, GoEdge DEF Copy, At
  <2>2. UNCHANGED <<db, wal, release, unflushed, up>> /\ previous' = Null
    BY <1>3 DEF Copy, environment, history
  <2> QED
    BY <2>1, <2>2, QuietWhole DEF PastFlush
<1>4. CASE MoveAside(p)
  <2>1. Others(p) /\ op'[p].at = "replace" /\ op[p].at = "aside"
    BY <1>0, <1>4, GoEdge DEF MoveAside, At
  <2>2. /\ previous' \in {previous, db} /\ db' = Null /\ wal' = wal /\ unflushed' = unflushed
    BY <1>4 DEF MoveAside
  <2>3. wal = Null \/ unflushed
    BY <2>1 DEF Whole, SoundOK, PastFlush
  <2>4. SoundOK'
    BY <2>2, <2>3 DEF Whole, SoundOK
  <2> QED
    BY <1>0, <1>a, <1>b, <2>1, <2>4, RestoreWhole
<1>5. CASE Replace(p)
  <2>1. Others(p) /\ op'[p].at = "clean" /\ op[p].at = "replace"
    BY <1>0, <1>5, GoEdge DEF Replace, At
  <2>2. /\ db' = [temp EXCEPT !.sound = wal = Null] /\ temp # Null
        /\ UNCHANGED <<wal, previous, unflushed>>
    BY <1>5 DEF Replace, history
  <2>3. wal = Null \/ unflushed
    BY <2>1 DEF Whole, SoundOK, PastFlush
  <2>4. db' \in Contents /\ db'.sound = (wal = Null)
    BY <1>0, <2>2 DEF FilesOK, Contents
  <2>5. SoundOK'
    BY <2>2, <2>3, <2>4 DEF Whole, SoundOK
  <2> QED
    BY <1>0, <1>a, <1>b, <2>1, <2>5, RestoreWhole
<1>6. CASE RemoveLog(p)
  <2>1. Others(p) /\ op'[p].at # "migrate"
    BY <1>0, <1>6, RemoveLogEdge
  <2>2. /\ wal' = Null /\ db' = IF db = Null THEN Null ELSE [db EXCEPT !.sound = TRUE]
        /\ UNCHANGED <<previous, unflushed>>
    BY <1>6 DEF RemoveLog, history
  <2>3. db' # Null => db'.sound
    BY <1>0, <2>2 DEF FilesOK, Contents
  <2>4. SoundOK'
    BY <2>2, <2>3 DEF Whole, SoundOK
  <2> QED
    BY <1>0, <1>a, <1>b, <2>1, <2>4, RestoreWhole
<1>7. CASE Finish(p)
  <2>1. Others(p) /\ op'[p].at = "read_schema" /\ op'[p].next = "restored"
    BY <1>0, <1>7, CatalogEdge DEF Finish
  <2>2. UNCHANGED <<db, wal, release, unflushed, up>> /\ previous' = Null
    BY <1>7 DEF Finish, environment, history
  <2> QED
    BY <2>1, <2>2, QuietWhole DEF PastFlush
<1>8. CASE Undo(p)
  <2>1. op[p].at = "undo" /\ UNCHANGED <<db, wal, previous, unflushed>>
    BY <1>8 DEF Undo, At, history
  <2>2. Others(p) /\ op'[p].at # "migrate"
    <3>1. CASE Return(p)
      BY <1>0, <3>1, ReturnEdge, IdleFields
    <3>2. CASE Go(p, "drop")
      BY <1>0, <3>2, GoEdge
    <3> QED
      BY <1>8, <3>1, <3>2 DEF Undo
  <2>3. wal = Null \/ unflushed
    BY <2>1 DEF Whole, SoundOK, PastFlush
  <2>4. SoundOK'
    BY <2>1, <2>3 DEF Whole, SoundOK
  <2> QED
    BY <1>0, <1>a, <1>b, <2>2, <2>4, RestoreWhole
<1>9. CASE PutBack(p)
  <2>1. /\ op[p].at = "put_back" /\ UNCHANGED <<wal, unflushed>>
        /\ db' = previous /\ previous' = Null
    BY <1>9 DEF PutBack, At
  <2>2. Others(p) /\ op'[p].at # "migrate"
    BY <1>0, <1>9, ReturnEdge, IdleFields DEF PutBack
  <2>3. wal = Null \/ unflushed
    BY <2>1 DEF Whole, SoundOK, PastFlush
  <2>4. SoundOK'
    BY <2>1, <2>3 DEF Whole, SoundOK
  <2> QED
    BY <1>0, <1>a, <1>b, <2>2, <2>4, RestoreWhole
<1>10. CASE Drop(p)
  <2>1. /\ op[p].at = "drop" /\ UNCHANGED <<wal, previous, unflushed>> /\ db' = Null
        /\ Go(p, "put_back")
    BY <1>10 DEF Drop, At, history
  <2>2. Others(p) /\ op'[p].at # "migrate"
    BY <1>0, <2>1, GoEdge
  <2>3. wal = Null \/ unflushed
    BY <2>1 DEF Whole, SoundOK, PastFlush
  <2>4. SoundOK'
    BY <2>1, <2>3 DEF Whole, SoundOK
  <2> QED
    BY <1>0, <1>a, <1>b, <2>2, <2>4, RestoreWhole
<1> QED
  BY <1>1, <1>2, <1>3, <1>4, <1>5, <1>6, <1>7, <1>8, <1>9, <1>10 DEF RestoreStep

\* A transaction of an operation or of the service.
LEMMA CommitKeeps ==
    ASSUME FilesOK, NEW content \in Contents, Commit(content)
    PROVE  /\ db' # Null
           /\ Visible'.schema = content.schema /\ Visible'.data = content.data
           /\ db' = db \/ db'.sound = (db = Null \/ db.sound)
           /\ up /\ db # Null => db' = db /\ wal' = content
           /\ ~(up /\ db # Null) => wal' = Null /\ db' \in Contents /\ Visible' = db'
<1>1. CASE up /\ db # Null
  <2>1. wal' = content /\ db' = db
    BY <1>1 DEF Commit
  <2>2. content # Null
    BY RecoveryAssumption DEF Contents
  <2> QED
    BY <1>1, <2>1, <2>2 DEF Visible
<1>2. CASE ~(up /\ db # Null)
  <2> DEFINE sound == db = Null \/ db.sound
             written == [content EXCEPT !.sound = sound]
  <2>1. wal' = Null /\ db' = written
    BY <1>2 DEF Commit
  <2>2. sound \in BOOLEAN
    BY DEF FilesOK, Contents
  <2>3. /\ written \in Contents /\ written.schema = content.schema
        /\ written.data = content.data /\ written.sound = sound
    <3> HIDE DEF sound
    <3> QED
      BY <2>2 DEF Contents
  <2>4. written # Null
    BY <2>3, RecoveryAssumption DEF Contents
  <2> QED
    BY <1>2, <2>1, <2>3, <2>4 DEF Visible
<1> QED
  BY <1>1, <1>2

LEMMA EmptyIsContent == Empty \in Contents /\ Empty.schema = 0 /\ Empty.data = 0 /\ Empty.sound
BY RecoveryAssumption DEF Empty, Contents

\* A commit leaves what it needs for the service and for a restore.
LEMMA CommitWhole ==
    ASSUME FilesOK, Whole, NEW content \in Contents, Commit(content),
           UNCHANGED <<previous, up, release, unflushed>>,
           content.sound = Visible.sound \/ content.sound,
           up => db # Null /\ content.schema = release,
           \A p \in Processes : PastFlush(op'[p]) => ~up,
           \A p \in Processes : op'[p].at = "migrate" =>
              op'[p].plan <= content.schema /\ content.schema <= release
    PROVE  Whole'
<1>1. /\ db' # Null /\ Visible'.schema = content.schema
      /\ up /\ db # Null => db' = db /\ wal' = content
      /\ ~(up /\ db # Null) => wal' = Null
      /\ db' = db \/ db'.sound = (db = Null \/ db.sound)
  BY CommitKeeps
<1>2. SchemaOK'
  BY <1>1 DEF SchemaOK
<1>3. Visible.sound \/ unflushed
  BY EmptyIsContent DEF Whole, SoundOK, Visible
<1>4. SoundOK'
  BY <1>1, <1>3 DEF Whole, SoundOK
<1>5. ServesWhole'
  BY <1>1 DEF Whole, ServesWhole
<1> QED
  BY <1>2, <1>4, <1>5 DEF Whole

LEMMA MigrateStepWhole ==
    ASSUME IInv, OrderOK, Alone, Whole, NEW p \in Processes, MigrateStep(p)
    PROVE  Whole'
<1>0. /\ OpsOK /\ FilesOK /\ op[p] \in Operations /\ Coherent(op[p]) /\ Ordered(op[p])
      /\ Visible \in Contents /\ release \in Int
  BY OperationFacts, VisibleOK, RecoveryAssumption
  DEF IInv, DataOK, ControlOK, OrderOK, RestOK, Versions
<1>a. ASSUME NEW q \in Processes, PastFlush(op[q])
      PROVE  ~up
  <2>1. op[q].at \in RestoreAts \/ op[q].next = "replaced"
    BY <1>a DEF PastFlush, RestoreAts
  <2>2. op[q].kind = "restore"
    BY <1>0, <2>1 DEF OpsOK, Coherents, Coherent
  <2> QED
    BY <1>0, <2>2, RestoresAlone
<1>1. CASE ReadSchema(p)
  <2>1. /\ Others(p) /\ op'[p].at = "migrate" /\ op'[p].next = op[p].next
        /\ op'[p].plan = Visible.schema
    BY <1>0, <1>1, MigrateEdges
  <2>2. op[p].at = "read_schema" /\ Visible.schema < release
        /\ UNCHANGED <<previous, up, release, unflushed>>
    BY <1>1 DEF ReadSchema, At, environment, history
  <2>3. \A q \in Processes : PastFlush(op'[q]) => PastFlush(op[q])
    BY <2>1 DEF PastFlush, Others
  <2>4. Visible.schema \in Int
    BY <1>0 DEF Contents
  <2>5. CASE db = Null
    <3>1. Commit(Empty) /\ Visible = Empty
      BY <1>1, <2>5 DEF ReadSchema, Visible
    <3>2. \A q \in Processes : op'[q].at = "migrate" => q = p
      BY <2>1, <2>5 DEF Others, Whole, SchemaOK
    <3>3. ~up
      BY <2>5 DEF Whole, ServesWhole
    <3>4. \A q \in Processes :
             op'[q].at = "migrate" => op'[q].plan <= Empty.schema /\ Empty.schema <= release
      BY <1>0, <2>1, <2>2, <3>1, <3>2, EmptyIsContent
    <3>5. \A q \in Processes : PastFlush(op'[q]) => ~up
      BY <3>3
    <3> QED
      BY <1>0, <2>2, <3>1, <3>3, <3>4, <3>5, EmptyIsContent, CommitWhole
  <2>6. CASE db # Null
    <3>1. UNCHANGED <<db, wal>> /\ Visible' = Visible
      BY <1>1, <2>6 DEF ReadSchema, Visible
    <3>2. SchemaOK'
      BY <1>0, <2>1, <2>2, <2>4, <2>6, <3>1 DEF Whole, SchemaOK, Others
    <3>3. SoundOK' /\ ServesWhole'
      BY <2>2, <2>3, <3>1 DEF Whole, SoundOK, ServesWhole
    <3> QED
      BY <3>2, <3>3 DEF Whole
  <2> QED
    BY <2>5, <2>6
<1>2. CASE ApplyMigration(p)
  <2> DEFINE content == [Visible EXCEPT !.schema = @ + 1]
  <2>1. /\ Others(p) /\ op'[p].at = "migrate" /\ op'[p].next = op[p].next
        /\ op'[p].plan = op[p].plan + 1
    BY <1>0, <1>2, MigrateEdges
  <2>2. /\ op[p].at = "migrate" /\ op[p].plan < release /\ Visible.schema = op[p].plan
        /\ Commit(content) /\ UNCHANGED <<previous, up, release, unflushed>>
    BY <1>2 DEF ApplyMigration, At, environment, history
  <2>3. \A q \in Processes : PastFlush(op'[q]) => PastFlush(op[q])
    BY <2>1, <2>2 DEF PastFlush, Others
  <2>4. Visible.schema \in Nat /\ Visible.schema + 1 \in 0..Latest
    BY <1>0, <2>2, RecoveryAssumption DEF Contents, IInv, DataOK, RestOK, Versions
  <2>5. content \in Contents /\ content.schema = Visible.schema + 1 /\ content.sound = Visible.sound
    BY <1>0, <2>4 DEF Contents
  <2>6. db # Null /\ ~up
    BY <2>2, <2>4, <1>0 DEF Whole, SchemaOK, ServesWhole
  <2>7. ASSUME NEW q \in Processes, op'[q].at = "migrate"
        PROVE  op'[q].plan <= content.schema
    <3>1. CASE q = p
      BY <2>1, <2>2, <2>5, <3>1, <1>0 DEF Operations
    <3>2. CASE q # p
      <4>1. op[q].plan <= Visible.schema /\ op[q].plan \in Int /\ op'[q] = op[q]
        BY <1>0, <2>1, <2>7, <3>2, RecoveryAssumption
        DEF Others, Whole, SchemaOK, OpsOK, Coherents, Operations
      <4> QED
        BY <2>4, <2>5, <4>1
    <3> QED
      BY <3>1, <3>2
  <2>8. content.schema <= release
    BY <1>0, <2>2, <2>4, <2>5
  <2> HIDE DEF content
  <2> QED
    BY <1>0, <1>a, <2>2, <2>3, <2>5, <2>6, <2>7, <2>8, CommitWhole
<1>3. CASE Migrated(p) \/ MigrationFails(p)
  <2>1. /\ UNCHANGED <<db, wal, previous, release, unflushed>> /\ Others(p)
        /\ op[p].at \in {"read_schema", "migrate"}
    BY <1>0, <1>3, MigratedEdge DEF environment, history
  <2>2. /\ op'[p].at # "migrate"
        /\ PastFlush(op'[p]) => PastFlush(op[p])
    <3>1. GoOn(p) => op'[p].at # "migrate" /\ ~PastFlush(op'[p])
      <4>1. GoOn(p) => \/ op'[p] = Idle
                       \/ /\ op'[p].at \in {"remove", "list", "checkpoint"}
                          /\ op'[p].next = Null
        BY <1>0, GoOnEdge
      <4> QED
        BY <4>1, IdleFields, NullIsNoWord DEF PastFlush
    <3> QED
      BY <1>0, <1>3, <3>1, MigratedEdge, IdleFields DEF PastFlush
  <2>3. CASE up' => up
    BY <2>1, <2>2, <2>3, QuietWhole
  <2>4. CASE Migrated(p) /\ op[p].next = "serve"
    <3>1. Visible.schema = release /\ db # Null
      <4>1. CASE op[p].at = "migrate"
        <5>1. /\ op[p].plan = release /\ db # Null /\ op[p].plan <= Visible.schema
              /\ Visible.schema <= release
          BY <2>4, <4>1 DEF Migrated, At, Whole, SchemaOK
        <5> QED
          BY <1>0, <5>1 DEF Contents
      <4>2. CASE op[p].at = "read_schema"
        <5>1. Visible.schema = release
          BY <2>4, <4>2 DEF Migrated, At
        <5>2. release # 0
          BY RecoveryAssumption DEF IInv, DataOK, RestOK, Versions
        <5> QED
          BY <5>1, <5>2, EmptyIsContent DEF Visible
      <4> QED
        BY <2>1, <4>1, <4>2
    <3>2. Visible' = Visible
      BY <2>1 DEF Visible
    <3>3. ServesWhole'
      BY <2>1, <3>1, <3>2 DEF Whole, SoundOK, ServesWhole
    <3>4. SchemaOK'
      BY <2>1, <2>2, <3>2 DEF Whole, SchemaOK, Others
    <3>5. SoundOK'
      BY <2>1, <2>2 DEF Whole, SoundOK, Others
    <3> QED
      BY <3>3, <3>4, <3>5 DEF Whole
  <2> QED
    BY <1>0, <1>3, <2>3, <2>4, MigratedEdge
<1> QED
  BY <1>1, <1>2, <1>3 DEF MigrateStep

LEMMA StepWhole ==
    ASSUME IInv, OrderOK, Alone, Whole, NEW p \in Processes, ProcessStep(p)
    PROVE  Whole'
<1>0. OpsOK /\ Ordered(op[p]) /\ Null # "replaced" /\ Others(p)
  BY NullIsNoWord, OrderKept DEF IInv, ControlOK, OrderOK
<1>1. ASSUME UNCHANGED <<db, wal, previous, release, unflushed>>, up' => up,
             op'[p].at = "migrate" => op[p].at = "migrate" /\ op'[p].plan = op[p].plan,
             PastFlush(op'[p]) => PastFlush(op[p])
      PROVE  Whole'
  BY <1>0, <1>1, QuietWhole
<1>2. CASE Acquire(p)
  <2>1. op'[p].next = Null /\ op'[p].at \in {"unlink", "snapshot", "list", "verify", "check"}
    BY <1>0, <1>2, AcquireEdge, FirstSteps
  <2> QED
    BY <1>0, <1>1, <1>2, <2>1 DEF Acquire, PastFlush, files, environment, history
<1>3. CASE UnlinkStaleLock(p)
  <2>1. op[p].at = "unlink" /\ op'[p].at = "relock" /\ op'[p].next = op[p].next
    BY <1>0, <1>3, GoEdge DEF UnlinkStaleLock, At
  <2> QED
    BY <1>0, <1>1, <1>3, <2>1 DEF UnlinkStaleLock, PastFlush, files, environment
<1>4. CASE CreateLock(p)
  <2>1. op[p].at = "relock" /\ op[p].kind \in LockedKinds /\ op[p].next = Null
    BY <1>0, <1>4 DEF CreateLock, At, Ordered
  <2>2. \/ op'[p] = Idle
        \/ /\ op'[p].next = Null
           /\ op'[p].at \in {"snapshot", "list", "verify", "check"}
    BY <1>0, <1>4, <2>1, CreateLockEdge, FirstSteps
  <2>3. op'[p].at # "migrate" /\ ~PastFlush(op'[p])
    BY <1>0, <2>2, IdleFields DEF PastFlush
  <2> QED
    BY <1>1, <1>4, <2>3 DEF CreateLock, files, environment, history
<1>5. CASE CreateStep(p)
  <2>1. UNCHANGED <<db, wal, previous, release, unflushed, up>>
    BY <1>5
    DEF CreateStep, Snapshot, Describe, Discard, VerifyBackup, files, environment, history
  <2>2. op'[p].at # "migrate" /\ (PastFlush(op'[p]) => PastFlush(op[p]))
    <3>1. CASE Snapshot(p)
      BY <1>0, <3>1, SnapshotEdge DEF PastFlush
    <3>2. CASE Describe(p) \/ VerifyBackup(p)
      <4>1. op' = [op EXCEPT ![p] = RecordCatalog(p, "active")]
        BY <3>2 DEF Describe, VerifyBackup
      <4>2. op'[p].at = "read_schema" /\ op'[p].next = "active"
        BY <1>0, <4>1, CatalogEdge
      <4> QED
        BY <4>2 DEF PastFlush
    <3>3. CASE Discard(p)
      BY <1>0, <3>3, ReturnEdge, IdleFields DEF Discard
    <3> QED
      BY <1>5, <3>1, <3>2, <3>3 DEF CreateStep
  <2> QED
    BY <1>1, <2>1, <2>2
<1>6. CASE PruneStep(p)
  <2>1. UNCHANGED <<db, wal, previous, release, unflushed, up>>
    BY <1>6 DEF PruneStep, List, RemoveSidecar, RemoveFile, Pruned, files, environment, history
  <2>2. op'[p].at # "migrate" /\ (PastFlush(op'[p]) => PastFlush(op[p]))
    <3>1. CASE List(p)
      BY <1>0, <3>1, ListEdge DEF PastFlush
    <3>2. CASE RemoveSidecar(p)
      <4>1. op'[p].at \in {"remove", "remove_file"} /\ op'[p].next = op[p].next
        BY <1>0, <3>2, RemoveSidecarEdge
      <4> QED
        BY <4>1 DEF PastFlush
    <3>3. CASE RemoveFile(p)
      BY <1>0, <3>3, RemoveFileEdge DEF PastFlush
    <3>4. CASE Pruned(p)
      BY <1>0, <3>4, ReturnEdge, IdleFields DEF Pruned
    <3> QED
      BY <1>6, <3>1, <3>2, <3>3, <3>4 DEF PruneStep
  <2> QED
    BY <1>1, <2>1, <2>2
<1>7. CASE BeginMigrate(p) \/ (p = Service /\ Start)
  <2>1. /\ UNCHANGED <<db, wal, previous, release, unflushed, up>>
        /\ \E next \in {"serve", "migrated"} :
              op' = [op EXCEPT ![p].at = "read_schema", ![p].next = next]
        /\ op[p].at = "idle"
    BY <1>7, IdleFields
    DEF BeginMigrate, Start, Offline, At, files, environment, history
  <2>2. op[p] = Idle
    BY <1>0, <2>1 DEF OpsOK, Coherents, Coherent
  <2>3. op'[p].at # "migrate" /\ ~PastFlush(op'[p])
    BY <1>0, <2>1, <2>2, BeginEdge DEF PastFlush
  <2> QED
    BY <1>1, <2>1, <2>3
<1>8. CASE Fails(p)
  <2>1. /\ UNCHANGED <<db, wal, previous, release, unflushed, up>>
        /\ op'[p] = Idle \/ (/\ op[p].at \in {"aside", "replace", "clean", "final"}
                             /\ op'[p].at = "undo")
    BY <1>0, <1>8, FailsEdge DEF files, environment, history
  <2>2. op'[p].at # "migrate" /\ (PastFlush(op'[p]) => PastFlush(op[p]))
    BY <2>1, IdleFields DEF PastFlush
  <2> QED
    BY <1>1, <2>1, <2>2
<1>9. CASE Cut(p)
  <2>1. /\ UNCHANGED <<db, wal, previous, release, unflushed>> /\ (up' => up)
        /\ op'[p] = Idle
    BY <1>0, <1>9, CutEdge DEF history
  <2> QED
    BY <1>1, <2>1, IdleFields
<1> QED
  BY <1>2, <1>3, <1>4, <1>5, <1>6, <1>7, <1>8, <1>9, MigrateStepWhole, RestoreStepWhole
  DEF ProcessStep

LEMMA WorldWhole ==
    ASSUME IInv, OrderOK, Alone, Whole, WorldStep
    PROVE  Whole'
<1>0. /\ OpsOK /\ FilesOK /\ Visible \in Contents /\ release \in Int
      /\ UNCHANGED <<op, unflushed, previous>>
      /\ \A p \in Processes : op[p] \in Operations /\ Coherent(op[p])
  BY VisibleOK, RecoveryAssumption, WorldKeepsOps, OperationFacts
  DEF IInv, DataOK, ControlOK, RestOK, Versions
<1>a. ASSUME NEW q \in Processes, PastFlush(op[q])
      PROVE  ~up
  <2>1. op[q].at \in RestoreAts \/ op[q].next = "replaced"
    BY <1>a DEF PastFlush, RestoreAts
  <2>2. op[q].kind = "restore"
    BY <1>0, <2>1 DEF Coherent
  <2> QED
    BY <1>0, <2>2, RestoresAlone
<1>1. CASE UNCHANGED <<db, wal, release, up>>
  <2>1. Visible' = Visible
    BY <1>1 DEF Visible
  <2> QED
    BY <1>0, <1>1, <2>1 DEF Whole, SchemaOK, SoundOK, ServesWhole
<1>2. CASE LockAges \/ UNCHANGED vars
  BY <1>1, <1>2 DEF LockAges, vars, files, environment
<1>3. CASE Deploy
  <2>1. \A p \in Processes : op'[p].at = "idle"
    BY <1>0, <1>3, IdleFields DEF Deploy
  <2>2. UNCHANGED <<db, wal>> /\ ~up'
    BY <1>3 DEF Deploy, files
  <2> QED
    BY <1>0, <2>1, <2>2 DEF Whole, SchemaOK, SoundOK, ServesWhole
<1>4. CASE Stop
  <2> DEFINE content == [Visible EXCEPT !.sound = Sound]
  <2>1. up /\ ~up' /\ db' = content /\ wal' = Null /\ release' = release
    BY <1>4 DEF Stop, environment
  <2>2. db # Null /\ (db.sound \/ unflushed)
    BY <2>1 DEF Whole, ServesWhole
  <2>3. Sound \in BOOLEAN /\ (Sound \/ unflushed)
    BY <1>0, <2>2 DEF Sound, FilesOK, Contents
  <2>4. /\ content \in Contents /\ content.schema = Visible.schema /\ content.sound = Sound
        /\ content # Null
    <3>1. /\ content \in Contents /\ content.schema = Visible.schema /\ content.sound = Sound
      BY <1>0, <2>3 DEF Contents
    <3> QED
      BY <3>1, RecoveryAssumption
  <2> HIDE DEF content
  <2>5. Visible' = content
    BY <2>1, <2>4 DEF Visible
  <2>6. SchemaOK'
    BY <1>0, <2>1, <2>4, <2>5 DEF Whole, SchemaOK
  <2>7. SoundOK'
    BY <1>0, <2>1, <2>3, <2>4 DEF Whole, SoundOK
  <2> QED
    BY <2>1, <2>6, <2>7 DEF Whole, ServesWhole
<1>5. CASE Write
  <2> DEFINE content == [Visible EXCEPT !.data = writes + 1]
  <2>1. up /\ Commit(content) /\ UNCHANGED <<previous, up, release, unflushed>>
    BY <1>5 DEF Write, history
  <2>2. db # Null /\ Visible.schema = release
    BY <2>1 DEF Whole, ServesWhole
  <2>3. writes + 1 \in 0..MaxWrites
    BY <1>5, RecoveryAssumption DEF Write, IInv, DataOK, RestOK
  <2>4. content \in Contents /\ content.schema = Visible.schema /\ content.sound = Visible.sound
    BY <1>0, <2>3 DEF Contents
  <2> HIDE DEF content
  <2>5. \A q \in Processes : op'[q].at = "migrate" =>
            op'[q].plan <= content.schema /\ content.schema <= release
    BY <1>0, <2>4 DEF Whole, SchemaOK
  <2> QED
    BY <1>0, <1>a, <2>1, <2>2, <2>4, <2>5, CommitWhole
<1>6. ASSUME NEW p \in Processes, Rollback(p)
      PROVE  Whole'
  <2> DEFINE content == [Visible EXCEPT !.schema = @ - 1]
  <2>1. /\ ~up /\ Commit(content) /\ UNCHANGED <<previous, up, release, unflushed>>
        /\ \A q \in Processes : op'[q].at = "idle"
    BY <1>0, <1>6, IdleFields DEF Rollback, Offline, At, history, Processes
  <2>2. Visible.schema - 1 \in 0..Latest
    BY <1>0, <1>6, RecoveryAssumption DEF Rollback, IInv, DataOK, RestOK, Versions, Contents
  <2>3. content \in Contents /\ content.sound = Visible.sound
    BY <1>0, <2>2 DEF Contents
  <2> HIDE DEF content
  <2> QED
    BY <1>0, <2>1, <2>3, CommitWhole
<1> QED
  BY <1>2, <1>3, <1>4, <1>5, <1>6 DEF WorldStep

-----------------------------------------------------------------------------
(* What a restore keeps and what it puts in place *)

\* No other process takes a step beside a restore.
LEMMA NobodyBeside ==
    ASSUME IInv, OrderOK, Alone, NEW p \in Processes, ProcessStep(p),
           NEW q \in Processes, op[q].kind = "restore"
    PROVE  q = p
<1> SUFFICES ASSUME q # p PROVE FALSE
  OBVIOUS
<1>1. q = CommandLine /\ ~up /\ p = Service /\ op[p] = Idle
  BY RestoresAlone DEF IInv, ControlOK, Processes
<1>2. op[p].at = "idle"
  BY <1>1, IdleFields
<1>3. ~Acquire(p) /\ ~BeginMigrate(p) /\ ~(p = Service /\ Start) /\ ~Cut(p)
  BY <1>1, <1>2, RecoveryAssumption
  DEF Acquire, MayBegin, BeginMigrate, Start, Cut, CutShort, Crash
<1>4. /\ ~UnlinkStaleLock(p) /\ ~CreateLock(p) /\ ~CreateStep(p) /\ ~PruneStep(p)
      /\ ~MigrateStep(p) /\ ~RestoreStep(p) /\ ~Fails(p)
  BY <1>2
  DEF CreateStep, PruneStep, MigrateStep, RestoreStep, UnlinkStaleLock,
      CreateLock, Snapshot, Describe, Discard, VerifyBackup, List, RemoveSidecar, RemoveFile,
      Pruned, ReadSchema, ApplyMigration, Migrated, MigrationFails, Check, Checkpoint, Copy,
      MoveAside, Replace, RemoveLog, Finish, Undo, Drop, PutBack, Fails, At
<1> QED
  BY <1>3, <1>4 DEF ProcessStep

LEMMA WorldBeside ==
    ASSUME IInv, Alone, WorldStep, NEW q \in Processes, op[q].kind = "restore"
    PROVE  UNCHANGED <<files, backup, made, op, up, environment, history>>
<1>1. q = CommandLine /\ ~up /\ op[q] # Idle /\ op[q].at # "idle"
  BY RestoresAlone, IdleFields, NullIsNoWord DEF IInv, ControlOK, OpsOK, Coherents, Coherent
<1>2. ~Stop /\ ~Write /\ ~Deploy /\ \A p \in Processes : ~Rollback(p)
  BY <1>1 DEF Stop, Write, Deploy, Rollback, At
<1> QED
  BY <1>2 DEF WorldStep, LockAges, vars, files, environment, history

LEMMA NumberedKept ==
    ASSUME IInv, Numbered, NEW p \in Processes, ProcessStep(p)
    PROVE  Numbered'
<1>0. made \in Int /\ OpsOK /\ backup \in [Backups -> Copies \cup {Null}]
  BY DEF IInv, DataOK, BackupsOK, ControlOK
<1>1. CASE UNCHANGED made /\ \A b \in Backups : backup'[b] # Null => backup[b] # Null
  BY <1>1 DEF Numbered
<1>2. CASE Snapshot(p)
  <2>1. made' = made + 1 /\ \A b \in Backups : b # made + 1 => backup'[b] = backup[b]
    BY <1>0, <1>2 DEF Snapshot
  <2> QED
    BY <1>0, <2>1 DEF Numbered, Backups
<1>3. CASE UNCHANGED <<made, backup>>
  BY <1>1, <1>3
<1>4. CASE Describe(p) \/ Discard(p) \/ RemoveFile(p)
  <2>1. /\ made' = made
        /\ \/ backup' = [backup EXCEPT ![op[p].new].described = TRUE] /\ backup[op[p].new] # Null
           \/ \E b \in 0..MaxBackups : backup' = [backup EXCEPT ![b] = Null]
    BY <1>0, <1>4 DEF Describe, Discard, RemoveFile, OpsOK, Coherents, Operations
  <2> QED
    BY <1>0, <1>1, <2>1
<1>5. CASE RemoveSidecar(p)
  <2>1. made' = made
    BY <1>5 DEF RemoveSidecar
  <2>2. PICK b \in Backups :
          backup' = IF backup[b] = Null THEN backup ELSE [backup EXCEPT ![b].described = FALSE]
    BY <1>0, <1>5, RemoveSidecarEdge
  <2> QED
    BY <1>0, <1>1, <2>1, <2>2
<1>6. CASE ~(Snapshot(p) \/ Describe(p) \/ Discard(p) \/ RemoveFile(p) \/ RemoveSidecar(p))
  <2>1. UNCHANGED <<made, backup>>
    BY <1>6
    DEF ProcessStep, CreateStep, PruneStep, MigrateStep, RestoreStep, Acquire, UnlinkStaleLock,
        CreateLock, VerifyBackup, List, Pruned, ReadSchema, ApplyMigration, Migrated,
        MigrationFails, Check, Checkpoint, Copy, MoveAside, Replace, RemoveLog, Finish, Undo, Drop,
        PutBack, BeginMigrate, Fails, Cut, CutShort, Crash, Start
  <2> QED
    BY <1>3, <2>1
<1> QED
  BY <1>2, <1>4, <1>5, <1>6

\* What the invariants say of a process that restores.
LEMMA RestoreFacts ==
    ASSUME IInv, OrderOK, Alone, Whole, RestoreOK,
           NEW p \in Processes, op[p].kind = "restore"
    PROVE  /\ OpsOK /\ FilesOK /\ Visible \in Contents /\ release \in Int /\ made \in Int
           /\ backup \in [Backups -> Copies \cup {Null}]
           /\ op[p] \in Operations /\ Coherent(op[p]) /\ Ordered(op[p])
           /\ OldKept(op[p]) /\ NewComes(op[p]) /\ Numbered
           /\ ~up
           /\ Null \notin Contents /\ Null \notin Int /\ Null \notin Copies
           /\ Null \notin {"active", "deleted", "restored", "replaced"}
BY OperationFacts, VisibleOK, RecoveryAssumption, RestoresAlone
DEF IInv, DataOK, BackupsOK, RestOK, Versions, ControlOK, OrderOK, RestoreOK

LEMMA SafetyCopyRestores ==
    ASSUME IInv, OrderOK, Alone, Whole, RestoreOK, NEW p \in Processes,
           CreateStep(p) \/ PruneStep(p), op[p].kind = "restore", op'[p] # Idle
    PROVE  OldKept(op[p])' /\ NewComes(op[p])'
<1>0. /\ OpsOK /\ FilesOK /\ Visible \in Contents /\ release \in Int /\ made \in Int
      /\ backup \in [Backups -> Copies \cup {Null}]
      /\ op[p] \in Operations /\ Coherent(op[p]) /\ Ordered(op[p])
      /\ OldKept(op[p]) /\ NewComes(op[p]) /\ Numbered
      /\ Null \notin Contents /\ Null \notin Int /\ Null \notin Copies
      /\ Null \notin {"active", "deleted", "restored", "replaced"}
  BY RestoreFacts
<1>1. ~PruneStep(p)
  <2>1. op[p].at \notin {"list", "remove", "remove_file"}
    BY <1>0 DEF Coherent
  <2>2. ~Pruned(p)
    BY <1>0, ReturnEdge DEF Pruned
  <2> QED
    BY <2>1, <2>2 DEF PruneStep, List, RemoveSidecar, RemoveFile, At
<1>2. CASE Snapshot(p)
  <2>1. /\ op[p].at = "snapshot" /\ UNCHANGED files /\ made' = made + 1
        /\ backup' = [backup EXCEPT ![made + 1] = [content |-> Visible, described |-> FALSE]]
    BY <1>2 DEF Snapshot, At
  <2>2. /\ Carried(op'[p], op[p]) /\ op'[p].from = op[p].from
        /\ op'[p].new = made + 1 /\ op'[p].at = "describe" /\ op'[p].next = op[p].next
    BY <1>0, <1>2, SnapshotEdge
  <2>3. op[p].from \in Backups /\ op[p].next = Null
    BY <1>0, <2>1 DEF Coherent, Ordered
  <2>4. backup[op[p].from] # Null /\ backup[op[p].from].content.data = op[p].chosen
    BY <2>1 , <1>0 DEF NewComes
  <2>5. op[p].from # made + 1
    BY <1>0, <2>3, <2>4 DEF Numbered, Backups
  <2>6. backup'[op[p].from] = backup[op[p].from]
    BY <1>0, <2>1, <2>3, <2>5
  <2>7. OldKept(op[p])'
    BY <1>0, <2>1, <2>2, <2>3 DEF OldKept, Carried, files, Visible, PastFlush
  <2>8. NewComes(op[p])'
    BY <1>0, <2>2, <2>3, <2>4, <2>5, <2>6 DEF NewComes, Carried
  <2> QED
    BY <2>7, <2>8
<1>3. CASE Describe(p)
  <2>1. /\ op[p].at = "describe" /\ UNCHANGED files /\ backup[op[p].new] # Null
        /\ backup' = [backup EXCEPT ![op[p].new].described = TRUE]
        /\ op' = [op EXCEPT ![p] = RecordCatalog(p, "active")]
    BY <1>3 DEF Describe, At
  <2>2. /\ Carried(op'[p], op[p]) /\ Aims(op'[p], op[p])
        /\ op'[p].at = "read_schema" /\ op'[p].next = "active"
    BY <1>0, <2>1, CatalogEdge
  <2>3. op[p].from \in Backups /\ op[p].next = Null
    BY <1>0, <2>1 DEF Coherent, Ordered
  <2>4. /\ backup[op[p].from] # Null /\ backup[op[p].from].content.data = op[p].chosen
        /\ op[p].new # op[p].from
    BY <1>0, <2>1 DEF NewComes
  <2>5. backup'[op[p].from] = backup[op[p].from]
    BY <1>0, <2>1, <2>3, <2>4
  <2>6. OldKept(op[p])'
    BY <1>0, <2>1, <2>2, <2>3 DEF OldKept, Carried, files, Visible, PastFlush
  <2>7. NewComes(op[p])'
    BY <1>0, <2>2, <2>4, <2>5 DEF NewComes, Carried, Aims
  <2> QED
    BY <2>6, <2>7
<1>4. CASE VerifyBackup(p)
  BY <1>0, <1>4 DEF VerifyBackup, At, Ordered
<1>5. CASE Discard(p)
  BY <1>0, <1>5, ReturnEdge DEF Discard
<1> QED
  BY <1>1, <1>2, <1>3, <1>4, <1>5 DEF CreateStep

LEMMA MigrationRestores ==
    ASSUME IInv, OrderOK, Alone, Whole, RestoreOK, NEW p \in Processes,
           MigrateStep(p), op[p].kind = "restore", op'[p] # Idle
    PROVE  OldKept(op[p])' /\ NewComes(op[p])'
<1>0. /\ OpsOK /\ FilesOK /\ Visible \in Contents /\ release \in Int /\ made \in Int
      /\ backup \in [Backups -> Copies \cup {Null}]
      /\ op[p] \in Operations /\ Coherent(op[p]) /\ Ordered(op[p])
      /\ OldKept(op[p]) /\ NewComes(op[p]) /\ Numbered /\ ~up
      /\ Null \notin Contents /\ Null \notin Int /\ Null \notin Copies
      /\ Null \notin {"active", "deleted", "restored", "replaced"}
  BY RestoreFacts
<1>1. CASE ReadSchema(p)
  <2>1. /\ Carried(op'[p], op[p]) /\ Aims(op'[p], op[p])
        /\ op'[p].at = "migrate" /\ op'[p].next = op[p].next
    BY <1>0, <1>1, MigrateEdges
  <2>2. UNCHANGED <<previous, temp, backup, release>> /\ op[p].at = "read_schema"
    BY <1>1 DEF ReadSchema, At, environment
  <2>3. CASE db # Null
    <3>1. UNCHANGED <<db, wal>>
      BY <1>1, <2>3 DEF ReadSchema
    <3>2. OldKept(op[p])'
      BY <1>0, <2>1, <2>2, <3>1 DEF OldKept, Carried, Visible, PastFlush
    <3>3. NewComes(op[p])'
      BY <1>0, <2>1, <2>2, <3>1 DEF NewComes, Carried, Aims
    <3> QED
      BY <3>2, <3>3
  <2>4. CASE db = Null
    <3>1. wal' = Null
      BY <1>0, <1>1, <2>4 DEF ReadSchema, Commit
    <3>2. OldKept(op[p])'
      BY <1>0, <2>1, <2>2, <2>4, <3>1 DEF OldKept, Carried, PastFlush
    <3>3. NewComes(op[p])'
      BY <1>0, <2>1, <2>2, <2>4 DEF NewComes, Carried, Aims
    <3> QED
      BY <3>2, <3>3
  <2> QED
    BY <2>3, <2>4
<1>2. CASE ApplyMigration(p)
  <2> DEFINE content == [Visible EXCEPT !.schema = @ + 1]
  <2>1. /\ Carried(op'[p], op[p]) /\ Aims(op'[p], op[p])
        /\ op'[p].at = "migrate" /\ op'[p].next = op[p].next
    BY <1>0, <1>2, MigrateEdges
  <2>2. /\ UNCHANGED <<previous, temp, backup, release>> /\ Commit(content)
        /\ op[p].plan < release /\ Visible.schema = op[p].plan /\ op[p].at = "migrate"
    BY <1>2 DEF ApplyMigration, At, environment
  <2>3. content \in Contents /\ content.data = Visible.data
    <3>1. Visible.schema + 1 \in 0..Latest
      BY <1>0, <2>2, RecoveryAssumption DEF Contents, IInv, DataOK, RestOK, Versions
    <3> QED
      BY <1>0, <3>1 DEF Contents
  <2> HIDE DEF content
  <2>4. /\ db' # Null /\ wal' = Null /\ Visible' = db' /\ Visible'.data = Visible.data
    BY <1>0, <2>2, <2>3, CommitKeeps
  <2>5. op[p].next # "restored"
    <3>1. db # Null /\ wal = Null => Visible.schema = db.schema
      BY DEF Visible
    <3>2. Visible.schema # release
      BY <1>0, <2>2 DEF Contents
    <3> QED
      BY <1>0, <3>1, <3>2 DEF NewComes
  <2>6. OldKept(op[p])'
    BY <1>0, <2>1, <2>2, <2>4 DEF OldKept, Carried, PastFlush
  <2>7. op[p].next = "replaced" => db.data = op[p].chosen /\ Visible = db
    BY <1>0 DEF NewComes, Visible
  <2>8. NewComes(op[p])'
    BY <1>0, <2>1, <2>2, <2>4, <2>5, <2>7 DEF NewComes, Carried, Aims
  <2> QED
    BY <2>6, <2>8
<1>3. CASE Migrated(p) \/ MigrationFails(p)
  <2>1. /\ UNCHANGED <<db, wal, previous, temp, backup, release>>
        /\ op[p].at \in {"read_schema", "migrate"}
    BY <1>0, <1>3, MigratedEdge DEF environment
  <2>2. CASE /\ op[p].next = "replaced" /\ op'[p].next = Null
             /\ Carried(op'[p], op[p]) /\ Aims(op'[p], op[p])
             /\ (op'[p].at = "final" /\ Migrated(p)) \/ op'[p].at = "undo"
    <3>1. OldKept(op[p])'
      BY <1>0, <2>1, <2>2 DEF OldKept, Carried, Visible, PastFlush
    <3>2. db # Null /\ wal = Null /\ db.data = op[p].chosen
      BY <1>0, <2>2 DEF NewComes
    <3>3. Migrated(p) => db.schema = release
      <4>1. Visible = db
        BY <3>2 DEF Visible
      <4>2. Migrated(p) /\ op[p].at = "migrate" =>
              op[p].plan = release /\ op[p].plan <= Visible.schema /\ Visible.schema <= release
        BY DEF Migrated, At, Whole, SchemaOK
      <4>3. Migrated(p) /\ op[p].at = "read_schema" => Visible.schema = release
        BY DEF Migrated, At
      <4> QED
        BY <1>0, <2>1, <4>1, <4>2, <4>3 DEF Contents
    <3>4. NewComes(op[p])'
      BY <1>0, <2>1, <2>2, <3>2, <3>3 DEF NewComes, Carried, Aims
    <3> QED
      BY <3>1, <3>4
  <2>3. CASE GoOn(p)
    <3>1. /\ op[p].next = "active" /\ op'[p].at = "checkpoint"
          /\ op'[p].next = Null /\ Carried(op'[p], op[p]) /\ Aims(op'[p], op[p])
      <4>1. op[p].next # "deleted"
        BY <1>0 DEF Coherent
      <4> QED
        BY <1>0, <2>3, <4>1, GoOnEdge
    <3>2. OldKept(op[p])'
      BY <1>0, <2>1, <3>1 DEF OldKept, Carried, Visible, PastFlush
    <3>3. NewComes(op[p])'
      BY <1>0, <2>1, <3>1 DEF NewComes, Carried, Aims
    <3> QED
      BY <3>2, <3>3
  <2> QED
    BY <1>0, <1>3, <2>2, <2>3, MigratedEdge
<1> QED
  BY <1>1, <1>2, <1>3 DEF MigrateStep

LEMMA RestoreRestores ==
    ASSUME IInv, OrderOK, Alone, Whole, RestoreOK, NEW p \in Processes,
           RestoreStep(p) \/ Fails(p), op[p].kind = "restore", op'[p] # Idle
    PROVE  OldKept(op[p])' /\ NewComes(op[p])'
<1>0. /\ OpsOK /\ FilesOK /\ Visible \in Contents /\ release \in Int /\ made \in Int
      /\ backup \in [Backups -> Copies \cup {Null}]
      /\ op[p] \in Operations /\ Coherent(op[p]) /\ Ordered(op[p])
      /\ OldKept(op[p]) /\ NewComes(op[p]) /\ Numbered /\ ~up
      /\ Null \notin Contents /\ Null \notin Int /\ Null \notin Copies
      /\ Null \notin {"active", "deleted", "restored", "replaced"}
  BY RestoreFacts
<1>1. CASE Check(p)
  <2>1. PICK b \in Backups :
          /\ Good(b) /\ op'[p].kind = op[p].kind /\ op'[p].next = op[p].next
          /\ op'[p].at = IF db = Null THEN "copy" ELSE "snapshot"
          /\ op'[p].from = b
          /\ op'[p].before = IF db = Null THEN Null ELSE Visible.data
          /\ op'[p].chosen = backup[b].content.data
    BY <1>0, <1>1, CheckEdge
  <2>2. UNCHANGED <<files, backup>> /\ op[p].at = "check"
    BY <1>1 DEF Check, At
  <2>3. op[p].next = Null
    BY <1>0, <2>2 DEF Ordered
  <2>4. OldKept(op[p])'
    BY <1>0, <2>1, <2>2, <2>3 DEF OldKept, Visible, PastFlush, files
  <2>5. NewComes(op[p])'
    BY <1>0, <2>1, <2>2, <2>3 DEF NewComes, Good
  <2> QED
    BY <2>4, <2>5
<1>2. CASE Checkpoint(p)
  <2>1. /\ Aims(op'[p], op[p])
        /\ op'[p].kind = op[p].kind /\ op'[p].before = op[p].before
        /\ op'[p].chosen = op[p].chosen
        /\ op'[p].at = "copy" /\ op'[p].next = op[p].next
        /\ \/ /\ op'[p].flushed = op[p].flushed
              /\ wal' = Null /\ db' = IF db = Null THEN Null ELSE Visible
           \/ op'[p].flushed = FALSE
    BY <1>0, <1>2, CheckpointEdge
  <2>2. op[p].at = "checkpoint" /\ UNCHANGED <<previous, backup>>
    BY <1>2 DEF Checkpoint, At
  <2>3. op[p].next = Null
    BY <1>0, <2>2 DEF Ordered
  <2>4. OldKept(op[p])'
    BY <1>0, <2>1, <2>2, <2>3 DEF OldKept, Visible, PastFlush
  <2>5. NewComes(op[p])'
    BY <1>0, <2>1, <2>2, <2>3 DEF NewComes, Aims
  <2> QED
    BY <2>4, <2>5
<1>3. CASE Copy(p)
  <2>1. /\ Carried(op'[p], op[p]) /\ Aims(op'[p], op[p])
        /\ op'[p].at = "aside" /\ op'[p].next = op[p].next
    BY <1>0, <1>3, GoEdge DEF Copy
  <2>2. /\ op[p].at = "copy" /\ UNCHANGED <<db, wal>> /\ previous' = Null
        /\ temp' = backup[op[p].from].content
    BY <1>3 DEF Copy, At
  <2>3. op[p].next = Null /\ op[p].from \in Backups
    BY <1>0, <2>2 DEF Ordered, Coherent
  <2>4. temp' # Null /\ temp'.data = op[p].chosen
    BY <1>0, <2>2, <2>3 DEF NewComes, Copies
  <2>5. OldKept(op[p])'
    BY <1>0, <2>1, <2>2, <2>3 DEF OldKept, Carried, Visible, PastFlush
  <2>6. NewComes(op[p])'
    BY <1>0, <2>1, <2>3, <2>4 DEF NewComes, Carried
  <2> QED
    BY <2>5, <2>6
<1>4. CASE MoveAside(p)
  <2>1. /\ Carried(op'[p], op[p]) /\ Aims(op'[p], op[p])
        /\ op'[p].at = "replace" /\ op'[p].next = op[p].next
    BY <1>0, <1>4, GoEdge DEF MoveAside
  <2>2. /\ op[p].at = "aside" /\ UNCHANGED <<wal, temp>>
        /\ previous' = IF db = Null THEN previous ELSE db
    BY <1>4 DEF MoveAside, At
  <2>3. op[p].next = Null
    BY <1>0, <2>2 DEF Ordered
  <2>4. OldKept(op[p])'
    BY <1>0, <2>1, <2>2, <2>3 DEF OldKept, Carried, Visible, PastFlush
  <2>5. NewComes(op[p])'
    BY <1>0, <2>1, <2>2, <2>3 DEF NewComes, Carried
  <2> QED
    BY <2>4, <2>5
<1>5. CASE Replace(p)
  <2>1. /\ Carried(op'[p], op[p]) /\ Aims(op'[p], op[p])
        /\ op'[p].at = "clean" /\ op'[p].next = op[p].next
    BY <1>0, <1>5, GoEdge DEF Replace
  <2>2. /\ op[p].at = "replace" /\ UNCHANGED <<wal, previous>> /\ temp # Null
        /\ db' = [temp EXCEPT !.sound = wal = Null]
    BY <1>5 DEF Replace, At
  <2>3. op[p].next = Null
    BY <1>0, <2>2 DEF Ordered
  <2>4. db' # Null /\ db'.data = temp.data
    BY <1>0, <2>2 DEF FilesOK, Contents
  <2>5. OldKept(op[p])'
    BY <1>0, <2>1, <2>2, <2>3 DEF OldKept, Carried, PastFlush
  <2>6. NewComes(op[p])'
    BY <1>0, <2>1, <2>2, <2>3, <2>4 DEF NewComes, Carried
  <2> QED
    BY <2>5, <2>6
<1>6. CASE RemoveLog(p)
  <2>1. /\ Carried(op'[p], op[p]) /\ Aims(op'[p], op[p])
        /\ \/ op'[p].at = "read_schema" /\ op'[p].next = "replaced"
           \/ op'[p].at = "undo" /\ op'[p].next = op[p].next
    BY <1>0, <1>6, RemoveLogEdge
  <2>0. op[p].next = Null
    BY <1>0, <1>6 DEF RemoveLog, At, Ordered
  <2>2. /\ op[p].at = "clean" /\ previous' = previous /\ wal' = Null
        /\ db' = IF db = Null THEN Null ELSE [db EXCEPT !.sound = TRUE]
    BY <1>6 DEF RemoveLog, At
  <2>3. db # Null /\ db.data = op[p].chosen
    BY <1>0, <2>2 DEF NewComes
  <2>4. db' # Null /\ db'.data = op[p].chosen
    BY <1>0, <2>2, <2>3 DEF FilesOK, Contents
  <2>5. OldKept(op[p])'
    BY <1>0, <2>0, <2>1, <2>2 DEF OldKept, Carried, PastFlush
  <2>6. NewComes(op[p])'
    BY <1>0, <2>0, <2>1, <2>2, <2>4 DEF NewComes, Carried
  <2> QED
    BY <2>5, <2>6
<1>7. CASE Finish(p)
  <2>1. op' = [op EXCEPT ![p] = RecordCatalog(p, "restored")]
    BY <1>7 DEF Finish
  <2>2. /\ Carried(op'[p], op[p]) /\ Aims(op'[p], op[p])
        /\ op'[p].at = "read_schema" /\ op'[p].next = "restored"
    BY <1>0, <2>1, CatalogEdge
  <2>3. /\ op[p].at = "final" /\ UNCHANGED <<db, wal, release>> /\ db.sound
    BY <1>7 DEF Finish, At, environment, Sound
  <2>4. OldKept(op[p])'
    BY <2>2 DEF OldKept, PastFlush
  <2>5. NewComes(op[p])'
    BY <1>0, <2>2, <2>3 DEF NewComes, Carried
  <2> QED
    BY <2>4, <2>5
<1>8. CASE Undo(p)
  <2>1. /\ op[p].at = "undo" /\ UNCHANGED <<wal, previous>>
        /\ previous # Null /\ Go(p, "drop")
    BY <1>0, <1>8, ReturnEdge DEF Undo, At
  <2>2. /\ Carried(op'[p], op[p]) /\ Aims(op'[p], op[p])
        /\ op'[p].at = "drop" /\ op'[p].next = op[p].next
    BY <1>0, <2>1, GoEdge
  <2>3. op[p].next = Null
    BY <1>0, <2>1 DEF Ordered
  <2>4. OldKept(op[p])'
    BY <1>0, <2>1, <2>2, <2>3 DEF OldKept, Carried, PastFlush
  <2>5. NewComes(op[p])'
    BY <1>0, <2>2, <2>3 DEF NewComes
  <2> QED
    BY <2>4, <2>5
<1>9. CASE PutBack(p)
  BY <1>0, <1>9, ReturnEdge DEF PutBack
<1>10. CASE Fails(p)
  <2>1. /\ UNCHANGED files
        /\ op[p].at \in {"aside", "replace", "clean", "final"}
        /\ op'[p].at = "undo" /\ op'[p].next = op[p].next
        /\ Carried(op'[p], op[p]) /\ Aims(op'[p], op[p])
    BY <1>0, <1>10, FailsEdge
  <2>2. op[p].next = Null
    BY <1>0, <2>1 DEF Ordered
  <2>3. OldKept(op[p])'
    BY <1>0, <2>1, <2>2 DEF OldKept, Carried, Visible, PastFlush, files
  <2>4. NewComes(op[p])'
    BY <1>0, <2>1, <2>2 DEF NewComes
  <2> QED
    BY <2>3, <2>4
<1>11. CASE Drop(p)
  <2>1. /\ op[p].at = "drop" /\ UNCHANGED <<wal, previous>> /\ Go(p, "put_back")
    BY <1>11 DEF Drop, At
  <2>2. /\ Carried(op'[p], op[p]) /\ Aims(op'[p], op[p])
        /\ op'[p].at = "put_back" /\ op'[p].next = op[p].next
    BY <1>0, <2>1, GoEdge
  <2>3. op[p].next = Null
    BY <1>0, <2>1 DEF Ordered
  <2>4. OldKept(op[p])'
    BY <1>0, <2>1, <2>2, <2>3 DEF OldKept, Carried, PastFlush
  <2>5. NewComes(op[p])'
    BY <1>0, <2>2, <2>3 DEF NewComes
  <2> QED
    BY <2>4, <2>5
<1> QED
  BY <1>1, <1>2, <1>3, <1>4, <1>5, <1>6, <1>7, <1>8, <1>9, <1>10, <1>11 DEF RestoreStep

LEMMA StepRestores ==
    ASSUME IInv, OrderOK, Alone, Whole, RestoreOK, NEW p \in Processes, ProcessStep(p)
    PROVE  RestoreOK'
<1>0. OpsOK /\ Others(p) /\ Numbered' /\ Ordered(op[p])
  BY OrderKept, NumberedKept DEF IInv, ControlOK, RestoreOK, OrderOK
<1>1. ASSUME NEW q \in Processes, q # p
      PROVE  OldKept(op[q])' /\ NewComes(op[q])'
  <2>1. op'[q].kind # "restore"
    BY <1>0, <1>1, NobodyBeside DEF Others
  <2> QED
    BY <2>1 DEF OldKept, NewComes
<1>2. CASE op'[p] = Idle
  <2>1. op'[p].kind # "restore"
    BY <1>2, IdleFields, NullIsNoWord
  <2> QED
    BY <1>0, <1>1, <2>1 DEF OldKept, NewComes, RestoreOK
<1>3. CASE op'[p].kind # "restore"
  BY <1>0, <1>1, <1>3 DEF OldKept, NewComes, RestoreOK
<1>4. CASE op'[p] # Idle /\ op'[p].kind = "restore" /\ op[p] = Idle
  <2>1. op[p].at = "idle"
    BY <1>4, IdleFields
  <2>2. CASE Acquire(p)
    <3>1. op'[p].next = Null /\ op'[p].before = Null
          /\ op'[p].at \in {"check", "unlink"}
      BY <1>0, <1>4, <2>2, AcquireEdge, FirstSteps
    <3>2. OldKept(op[p])' /\ NewComes(op[p])'
      BY <3>1, NullIsNoWord DEF OldKept, NewComes
    <3> QED
      BY <1>0, <1>1, <3>2 DEF RestoreOK
  <2>3. CASE BeginMigrate(p) \/ (p = Service /\ Start)
    <3>1. \E next : op' = [op EXCEPT ![p].at = "read_schema", ![p].next = next]
      BY <2>3 DEF BeginMigrate, Start
    <3>2. op'[p].kind = Null
      BY <1>0, <1>4, <3>1, BeginEdge
    <3> QED
      BY <1>4, <3>2, NullIsNoWord
  <2>4. CASE Cut(p)
    BY <1>0, <1>4, <2>4, CutEdge
  <2>5. CASE \/ UnlinkStaleLock(p) \/ CreateLock(p) \/ CreateStep(p) \/ PruneStep(p)
             \/ MigrateStep(p) \/ RestoreStep(p) \/ Fails(p)
    BY <2>1, <2>5
    DEF CreateStep, PruneStep, MigrateStep, RestoreStep, UnlinkStaleLock,
        CreateLock, Snapshot, Describe, Discard, VerifyBackup, List, RemoveSidecar, RemoveFile,
        Pruned, ReadSchema, ApplyMigration, Migrated, MigrationFails, Check, Checkpoint, Copy,
        MoveAside, Replace, RemoveLog, Finish, Undo, Drop, PutBack, Fails, At
  <2> QED
    BY <2>2, <2>3, <2>4, <2>5 DEF ProcessStep
<1>5. CASE op'[p] # Idle /\ op'[p].kind = "restore" /\ op[p] # Idle
  <2>1. op[p].kind = "restore" /\ op[p].at # "idle"
    BY <1>0, <1>5, KindKept DEF OpsOK, Coherents, Coherent
  <2>2. CASE UnlinkStaleLock(p) \/ CreateLock(p)
    <3>1. op[p].at \in {"unlink", "relock"}
      BY <2>2 DEF UnlinkStaleLock, CreateLock, At
    <3>2. op[p].next = Null
      BY <1>0, <3>1 DEF Ordered
    <3>3. op'[p].next = Null /\ op'[p].before = Null /\ op'[p].at \in {"relock", "check"}
      <4>1. op[p].before = Null
        BY <1>0, <3>1 DEF Ordered
      <4>2. CASE UnlinkStaleLock(p)
        BY <1>0, <3>2, <4>1, <4>2, GoEdge DEF UnlinkStaleLock, Carried
      <4>3. CASE CreateLock(p)
        BY <1>0, <1>5, <2>1, <3>2, <4>1, <4>3, CreateLockEdge, FirstSteps DEF Carried, LockedKinds
      <4> QED
        BY <2>2, <4>2, <4>3
    <3>4. OldKept(op[p])' /\ NewComes(op[p])'
      BY <3>3, NullIsNoWord DEF OldKept, NewComes
    <3> QED
      BY <1>0, <1>1, <3>4 DEF RestoreOK
  <2>3. CASE Acquire(p) \/ BeginMigrate(p) \/ (p = Service /\ Start) \/ Cut(p)
    BY <1>0, <1>5, <2>1, <2>3, CutEdge, IdleFields
    DEF Acquire, MayBegin, BeginMigrate, Start, Offline, At
  <2>4. CASE CreateStep(p) \/ PruneStep(p) \/ MigrateStep(p) \/ RestoreStep(p) \/ Fails(p)
    <3>1. OldKept(op[p])' /\ NewComes(op[p])'
      BY <1>5, <2>1, <2>4, SafetyCopyRestores, MigrationRestores, RestoreRestores
    <3> QED
      BY <1>0, <1>1, <3>1 DEF RestoreOK
  <2> QED
    BY <2>2, <2>3, <2>4 DEF ProcessStep
<1> QED
  BY <1>2, <1>3, <1>4, <1>5

LEMMA WorldRestores ==
    ASSUME IInv, Alone, RestoreOK, WorldStep
    PROVE  RestoreOK'
<1>1. UNCHANGED <<op, backup, made>>
  BY WorldKeepsOps
<1>2. ASSUME NEW q \in Processes
      PROVE  OldKept(op[q])' /\ NewComes(op[q])'
  <2>1. CASE op[q].kind # "restore"
    BY <1>1, <2>1 DEF OldKept, NewComes
  <2>2. CASE op[q].kind = "restore"
    <3>1. UNCHANGED <<db, wal, previous, temp, backup, op, release>>
      BY <2>2, WorldBeside DEF files, environment
    <3> QED
      BY <3>1 DEF RestoreOK, OldKept, NewComes, Visible, PastFlush
  <2> QED
    BY <2>1, <2>2
<1> QED
  BY <1>1, <1>2 DEF RestoreOK, Numbered

-----------------------------------------------------------------------------
(* What retention leaves *)

\* What pruning takes has as many newer backups as are kept.
LEMMA TakenIsOutlived ==
    ASSUME Numbered, made \in Int, NEW keep \in Nat \ {0},
           NEW kept \in SUBSET Present, Cardinality(kept) = keep,
           \A k \in kept, d \in Present \ kept : Age(k) >= Age(d),
           NEW b \in Present \ kept, Good(b)
    PROVE  b \in Int /\ made >= b + keep
<1>1. b \in Backups /\ b >= 1 /\ b \in Int /\ Age(b) = b
  BY DEF Present, Backups, Good, Age
<1>2. ASSUME NEW k \in kept
      PROVE  k \in (b + 1)..made
  <2>1. k \in Int /\ k >= 1 /\ k # b /\ k <= made
    BY DEF Present, Backups, Numbered
  <2>2. Age(k) >= b
    BY <1>1
  <2>3. Age(k) = k
    BY <1>1, <2>2 DEF Age
  <2> QED
    BY <1>1, <2>1, <2>2, <2>3
<1>3. kept \subseteq (b + 1)..made
  BY <1>2
<1>4. /\ IsFiniteSet((b + 1)..made)
      /\ Cardinality((b + 1)..made) = IF b + 1 > made THEN 0 ELSE made - (b + 1) + 1
  BY <1>1, FS_Interval
<1>5. Cardinality(kept) <= Cardinality((b + 1)..made)
  BY <1>3, <1>4, FS_Subset
<1> QED
  BY <1>1, <1>4, <1>5

\* An operation that retention has nothing to say of.
LEMMA ElsewhereKept ==
    ASSUME NEW p \in Processes,
           op'[p].doomed = {}, op'[p].next \notin {"active", "deleted"},
           op'[p].at \notin {"describe", "checkpoint", "copy", "aside", "list", "remove",
                            "remove_file"}
    PROVE  Kept(op[p])'
BY DEF Kept

LEMMA IdleKept ==
    ASSUME NEW p \in Processes, op'[p] = Idle
    PROVE  Kept(op[p])'
BY ElsewhereKept, IdleFields, NullIsNoWord

\* An operation without the lock.
Outside(o) == o.kind \notin LockedKinds \/ o.at \in {"unlink", "relock"}

LEMMA OutsideFacts ==
    ASSUME NEW o, Ordered(o), Outside(o)
    PROVE  /\ o.doomed = {}
           /\ o.at \in {"idle", "unlink", "relock", "read_schema", "migrate"}
           /\ o.kind \in {"create", "restore"} => o.next = Null
<1>1. CASE o.kind \notin LockedKinds
  BY <1>1 DEF Ordered, LockedKinds
<1>2. CASE o.at \in {"unlink", "relock"}
  <2>1. o.next = Null
    BY <1>2 DEF Ordered
  <2> QED
    BY <1>2, <2>1, NullIsNoWord DEF Ordered
<1> QED
  BY <1>1, <1>2 DEF Outside

LEMMA OutsideKept ==
    ASSUME NEW p \in Processes, Ordered(op'[p]), Outside(op'[p])
    PROVE  Kept(op[p])'
<1>1. /\ op'[p].doomed = {}
      /\ op'[p].at \in {"idle", "unlink", "relock", "read_schema", "migrate"}
      /\ op'[p].kind \in {"create", "restore"} => op'[p].next = Null
  BY OutsideFacts
<1> QED
  BY <1>1, NullIsNoWord DEF Kept

LEMMA OneHolder ==
    ASSUME IInv, ~raced, NEW p \in Processes, NEW q \in Processes, Holds(p), Holds(q)
    PROVE  p = q
BY DEF IInv, ControlOK, LockNamesHolder

\* Without the lock nobody touches a backup.
LEMMA OutsidersKeep ==
    ASSUME IInv, OrderOK, NEW p \in Processes, ProcessStep(p), ~Holds(p)
    PROVE  UNCHANGED <<backup, made, owed>>
<1>0. Ordered(op[p]) /\ Coherent(op[p])
  BY OperationFacts DEF IInv, OrderOK
<1>1. op[p].at \in {"idle", "unlink", "relock", "read_schema", "migrate"}
  BY <1>0, OutsideFacts DEF Holds, Outside
<1>2. ~CreateStep(p) /\ ~PruneStep(p) /\ ~RestoreStep(p)
  <2>1. ~CreateStep(p)
    BY <1>1 DEF CreateStep, Snapshot, Describe, Discard, VerifyBackup, At
  <2>2. ~PruneStep(p)
    BY <1>1 DEF PruneStep, List, RemoveSidecar, RemoveFile, Pruned, At
  <2>3. ~RestoreStep(p)
    BY <1>1
    DEF RestoreStep, Check, Checkpoint, Copy, MoveAside, Replace, RemoveLog, Finish, Undo, Drop,
        PutBack, At
  <2> QED
    BY <2>1, <2>2, <2>3
<1> QED
  BY <1>2
  DEF ProcessStep, MigrateStep, Acquire, UnlinkStaleLock, CreateLock, ReadSchema,
      ApplyMigration, Migrated, MigrationFails, BeginMigrate, Fails, Cut, CutShort, Crash,
      Start, history

LEMMA RacedStays == ASSUME IInv, NEW p \in Processes, ProcessStep(p), raced PROVE raced'
BY DEF ProcessStep, CreateStep, PruneStep, MigrateStep, RestoreStep, Acquire, UnlinkStaleLock,
       CreateLock, Snapshot, Describe, Discard, VerifyBackup, List, RemoveSidecar, RemoveFile,
       Pruned, ReadSchema, ApplyMigration, Migrated, MigrationFails, Check, Checkpoint, Copy,
       MoveAside, Replace, RemoveLog, Finish, Undo, Drop, PutBack, BeginMigrate, Fails, Cut,
       CutShort, Crash, Start, history

\* What a restore has replaced stays covered while its backup stays.
LEMMA StaysCovered ==
    ASSUME NEW d, Covered(d), d.since \in Int, d.least \in Int,
           made \in Int, made' \in Int, made <= made',
           \/ Outlived(d)
           \/ d.since >= 1 /\ Good(d.since) =>
                Good(d.since)' /\ backup'[d.since].content = backup[d.since].content
    PROVE  Covered(d)'
<1>1. Outlived(d) => Outlived(d)'
  BY DEF Outlived
<1> QED
  BY <1>1 DEF Covered

\* A step that touches neither the backups nor what is owed.
LEMMA QuietCovered ==
    ASSUME UNCHANGED <<backup, made>>, owed' \subseteq owed, \A d \in owed : Covered(d)
    PROVE  \A d \in owed' : Covered(d)'
BY DEF Covered, Good, Outlived

\* What the invariants say of a process that holds the lock.
LEMMA HolderFacts ==
    ASSUME IInv, OrderOK, KeptOK, ~raced, NEW p \in Processes
    PROVE  /\ OpsOK /\ FilesOK /\ Visible \in Contents
           /\ made \in Int /\ made >= 0 /\ made <= MaxBackups /\ MaxBackups \in Int
           /\ backup \in [Backups -> Copies \cup {Null}]
           /\ op[p] \in Operations /\ Coherent(op[p]) /\ Ordered(op[p]) /\ Kept(op[p])
           /\ \A d \in owed : Covered(d) /\ d.since \in Int /\ d.least \in Int
           /\ Null \notin Contents /\ Null \notin Copies
           /\ Retention \in Int /\ Retention >= 1
BY OperationFacts, VisibleOK, RecoveryAssumption
DEF IInv, DataOK, BackupsOK, RestOK, ControlOK, OrderOK, KeptOK

\* A backup gets its sidecar, and nothing else changes.
LEMMA Described ==
    ASSUME backup \in [Backups -> Copies \cup {Null}], NEW b \in Backups, backup[b] # Null,
           backup' = [backup EXCEPT ![b].described = TRUE]
    PROVE  /\ backup'[b] # Null /\ backup'[b].described = TRUE
           /\ backup'[b].content = backup[b].content
           /\ \A c \in Backups : c # b => backup'[c] = backup[c]
<1> DEFINE n == [backup[b] EXCEPT !.described = TRUE]
<1>1. backup[b] \in Copies /\ Null \notin Copies
  BY RecoveryAssumption
<1>2. n \in Copies /\ n.described = TRUE /\ n.content = backup[b].content
  BY <1>1 DEF Copies
<1>3. backup'[b] = n /\ \A c \in Backups : c # b => backup'[c] = backup[c]
  OBVIOUS
<1> QED
  BY <1>1, <1>2, <1>3

\* A backup loses its sidecar, and nothing else changes.
LEMMA Bared ==
    ASSUME backup \in [Backups -> Copies \cup {Null}], NEW b \in Backups, backup[b] # Null,
           backup' = [backup EXCEPT ![b].described = FALSE]
    PROVE  /\ backup'[b] # Null /\ backup'[b].described = FALSE
           /\ backup'[b].content = backup[b].content
           /\ \A c \in Backups : c # b => backup'[c] = backup[c]
<1> DEFINE n == [backup[b] EXCEPT !.described = FALSE]
<1>1. backup[b] \in Copies /\ Null \notin Copies
  BY RecoveryAssumption
<1>2. n \in Copies /\ n.described = FALSE /\ n.content = backup[b].content
  BY <1>1 DEF Copies
<1>3. backup'[b] = n /\ \A c \in Backups : c # b => backup'[c] = backup[c]
  OBVIOUS
<1> QED
  BY <1>1, <1>2, <1>3

LEMMA CreateStepKept ==
    ASSUME IInv, OrderOK, KeptOK, ~raced, NEW p \in Processes, CreateStep(p)
    PROVE  Kept(op[p])' /\ \A d \in owed' : Covered(d)'
<1>0. /\ OpsOK /\ FilesOK /\ Visible \in Contents
      /\ made \in Int /\ made >= 0 /\ made <= MaxBackups /\ MaxBackups \in Int
      /\ backup \in [Backups -> Copies \cup {Null}]
      /\ op[p] \in Operations /\ Coherent(op[p]) /\ Ordered(op[p]) /\ Kept(op[p])
      /\ \A d \in owed : Covered(d) /\ d.since \in Int /\ d.least \in Int
      /\ Null \notin Contents /\ Null \notin Copies
  BY HolderFacts
<1>1. CASE Snapshot(p)
  <2> DEFINE copy == [content |-> Visible, described |-> FALSE]
  <2>1. /\ op[p].at = "snapshot" /\ db # Null /\ made < MaxBackups /\ made' = made + 1
        /\ UNCHANGED <<db, wal, owed>> /\ backup' = [backup EXCEPT ![made + 1] = copy]
    BY <1>1 DEF Snapshot, At, Sound, files, history
  <2>2. /\ Carried(op'[p], op[p]) /\ op'[p].doomed = op[p].doomed /\ op'[p].new = made + 1
        /\ op'[p].at = "describe" /\ op'[p].next = op[p].next
    BY <1>0, <1>1, SnapshotEdge
  <2>3. op[p].next = Null /\ op[p].doomed = {}
    BY <1>0, <2>1, NullIsNoWord DEF Ordered
  <2>4. made + 1 \in Backups
    BY <1>0, <2>1 DEF Backups
  <2>5. copy # Null /\ copy.content = Visible
    <3>1. copy \in Copies
      BY <1>0 DEF Copies
    <3> QED
      BY <1>0, <3>1
  <2>6. backup'[made + 1] = copy /\ \A b \in Backups : b # made + 1 => backup'[b] = backup[b]
    BY <1>0, <2>1, <2>4
  <2> HIDE DEF copy
  <2>7. Visible' = Visible
    BY <2>1 DEF Visible
  <2>8. ASSUME NEW d \in owed
        PROVE  Covered(d)' /\ d.since < made'
    <3>1. d.since <= made /\ d.since \in Int /\ d.least \in Int /\ Covered(d)
      BY <1>0 DEF Covered
    <3>2. d.since >= 1 => d.since \in Backups /\ d.since # made + 1
      BY <1>0, <3>1 DEF Backups
    <3> QED
      BY <1>0, <2>1, <2>6, <3>1, <3>2, StaysCovered DEF Good
  <2>9. Kept(op[p])'
    BY <1>0, <2>1, <2>2, <2>3, <2>5, <2>6, <2>7, <2>8, NullIsNoWord DEF Kept
  <2> QED
    BY <2>1, <2>8, <2>9
<1>2. CASE Describe(p)
  <2>1. /\ op[p].at = "describe" /\ UNCHANGED <<db, wal, made, owed>> /\ backup[op[p].new] # Null
        /\ backup' = [backup EXCEPT ![op[p].new].described = TRUE]
        /\ op' = [op EXCEPT ![p] = RecordCatalog(p, "active")]
    BY <1>2 DEF Describe, At, files, history
  <2>2. /\ Carried(op'[p], op[p]) /\ Aims(op'[p], op[p])
        /\ op'[p].at = "read_schema" /\ op'[p].next = "active"
    BY <1>0, <2>1, CatalogEdge
  <2>3. op[p].next = Null /\ op[p].doomed = {}
    BY <1>0, <2>1, NullIsNoWord DEF Ordered
  <2>4. op[p].new = made /\ made >= 1 /\ made \in Backups /\ \A d \in owed : d.since < made
    BY <1>0, <2>1 DEF Kept, Backups
  <2>5. /\ backup'[made] # Null /\ backup'[made].described
        /\ backup'[made].content = backup[made].content
        /\ \A c \in Backups : c # made => backup'[c] = backup[c]
    <3>1. backup' = [backup EXCEPT ![made].described = TRUE] /\ backup[made] # Null
      BY <2>1, <2>4
    <3> QED
      BY <1>0, <2>4, <3>1, Described
  <2>6. Visible' = Visible
    BY <2>1 DEF Visible
  <2>7. ASSUME NEW d \in owed
        PROVE  Covered(d)'
    <3>1. d.since < made /\ d.since \in Int /\ d.least \in Int /\ Covered(d)
      BY <1>0, <2>4
    <3>2. d.since >= 1 => d.since \in Backups /\ d.since # made
      BY <1>0, <3>1 DEF Backups
    <3>3. made' = made /\ made <= made'
      BY <1>0, <2>1
    <3>4. d.since >= 1 => backup'[d.since] = backup[d.since]
      BY <2>5, <3>2
    <3> QED
      BY <1>0, <3>1, <3>3, <3>4, StaysCovered DEF Good
  <2>8. Safe(op[p])'
    BY <2>1, <2>2, <2>4, <2>5 DEF Safe, Good, Aims
  <2>9. op[p].kind = "restore" => db # Null /\ backup[made].content.data = Visible.data
    BY <1>0, <2>1 DEF Kept
  <2>10. Kept(op[p])'
    BY <2>1, <2>2, <2>3, <2>5, <2>6, <2>8, <2>9 DEF Kept, Carried, Aims
  <2> QED
    BY <2>1, <2>7, <2>10
<1>3. CASE Discard(p)
  <2>1. /\ op[p].at = "describe" /\ UNCHANGED <<made, owed>>
        /\ backup' = [backup EXCEPT ![op[p].new] = Null] /\ Return(p)
    BY <1>3 DEF Discard, At, history
  <2>2. op[p].new = made /\ \A d \in owed : d.since < made
    BY <1>0, <2>1 DEF Kept
  <2>3. ASSUME NEW d \in owed
        PROVE  Covered(d)'
    <3>1. d.since < made /\ d.since \in Int /\ d.least \in Int /\ Covered(d)
      BY <1>0, <2>2
    <3>2. d.since >= 1 => d.since \in Backups /\ d.since # made
      BY <1>0, <3>1 DEF Backups
    <3>3. d.since >= 1 => backup'[d.since] = backup[d.since]
      BY <1>0, <2>1, <2>2, <3>2
    <3> QED
      BY <1>0, <2>1, <3>1, <3>3, StaysCovered DEF Good
  <2> QED
    BY <1>0, <2>1, <2>3, ReturnEdge, IdleKept
<1>4. CASE VerifyBackup(p)
  <2>1. /\ op[p].at = "verify" /\ UNCHANGED <<made, owed, backup>>
        /\ op' = [op EXCEPT ![p] = RecordCatalog(p, "active")]
    BY <1>4 DEF VerifyBackup, At, history
  <2>2. /\ Carried(op'[p], op[p]) /\ Aims(op'[p], op[p])
        /\ op'[p].at = "read_schema" /\ op'[p].next = "active"
    BY <1>0, <2>1, CatalogEdge
  <2>3. op[p].doomed = {} /\ op[p].kind = "verify"
    BY <1>0, <2>1, NullIsNoWord DEF Ordered
  <2>4. Kept(op[p])'
    BY <2>2, <2>3 DEF Kept, Carried, Aims
  <2> QED
    BY <1>0, <2>1, <2>4, QuietCovered
<1> QED
  BY <1>1, <1>2, <1>3, <1>4 DEF CreateStep

LEMMA PruneStepKept ==
    ASSUME IInv, OrderOK, RestoreOK, KeptOK, ~raced, NEW p \in Processes, PruneStep(p)
    PROVE  Kept(op[p])' /\ \A d \in owed' : Covered(d)'
<1>0. /\ OpsOK /\ made \in Int /\ Numbered /\ MaxBackups \in Int
      /\ backup \in [Backups -> Copies \cup {Null}]
      /\ op[p] \in Operations /\ Coherent(op[p]) /\ Ordered(op[p]) /\ Kept(op[p])
      /\ \A d \in owed : Covered(d) /\ d.since \in Int /\ d.least \in Int
      /\ Retention \in Int /\ Retention >= 1
  BY HolderFacts DEF RestoreOK
<1>1. CASE List(p)
  <2>1. op[p].at = "list" /\ UNCHANGED <<backup, made>>
    BY <1>1 DEF List, At
  <2>2. PICK keep \in Nat \ {0}, kept \in SUBSET Present :
          /\ Cardinality(kept) = keep
          /\ \A k \in kept, d \in Present \ kept : Age(k) >= Age(d)
          /\ owed' = {[o EXCEPT !.least = IF keep < @ THEN keep ELSE @] : o \in owed}
          /\ Carried(op'[p], op[p]) /\ op'[p].new = op[p].new
          /\ op'[p].at = "remove" /\ op'[p].next = op[p].next
          /\ op'[p].doomed = Present \ kept
    BY <1>0, <1>1, ListEdge
  <2>3. ASSUME NEW d \in owed'
        PROVE  /\ \E o \in owed : d.since = o.since /\ d.data = o.data /\ d.least <= o.least
               /\ d.least \in Int /\ d.least <= keep
    <3>1. PICK o \in owed : d = [o EXCEPT !.least = IF keep < @ THEN keep ELSE @]
      BY <2>2
    <3>2. o \in [data : 0..MaxWrites, since : 0..MaxBackups, least : 1..Retention]
      BY DEF IInv, DataOK, RestOK
    <3>3. o.least \in Int
      BY <3>2, <1>0
    <3>4. /\ d.since = o.since /\ d.data = o.data
          /\ d.least = IF keep < o.least THEN keep ELSE o.least
      BY <3>1, <3>2
    <3> QED
      BY <3>3, <3>4
  <2>4. ASSUME NEW b \in Present \ kept, Good(b)
        PROVE  Dispensable(b)'
    <3>1. b \in Int /\ made >= b + keep
      BY <1>0, <2>2, <2>4, TakenIsOutlived
    <3>2. ASSUME NEW d \in owed', d.since = b
          PROVE  Outlived(d)'
      BY <1>0, <2>1, <2>3, <3>1, <3>2 DEF Outlived
    <3> QED
      BY <1>0, <2>1, <3>1, <3>2 DEF Dispensable
  <2>5. ASSUME NEW d \in owed'
        PROVE  Covered(d)'
    <3>1. PICK o \in owed : d.since = o.since /\ d.data = o.data /\ d.least <= o.least
      BY <2>3
    <3>2. Covered(o) /\ o.since \in Int /\ o.least \in Int /\ d.least \in Int
      BY <1>0, <2>3
    <3>3. Outlived(o) => Outlived(d)'
      BY <1>0, <2>1, <3>1, <3>2 DEF Outlived
    <3> QED
      BY <2>1, <3>1, <3>2, <3>3 DEF Covered, Good
  <2>6. op[p].kind \in {"create", "prune"} /\ op[p].next = Null
    BY <1>0, <2>1 DEF Coherent, Ordered
  <2>7. op[p].kind = "create" => Safe(op[p])
    BY <1>0, <2>1 DEF Kept
  <2>8. \A b \in op'[p].doomed : Good(b)' => Dispensable(b)'
    BY <2>1, <2>2, <2>4 DEF Good
  <2>9. Kept(op[p])'
    BY <2>1, <2>2, <2>6, <2>7, <2>8, NullIsNoWord DEF Kept, Carried, Safe, Good
  <2> QED
    BY <2>5, <2>9
<1>2. CASE RemoveSidecar(p)
  <2>1. op[p].at = "remove" /\ UNCHANGED <<made, owed>>
    BY <1>2 DEF RemoveSidecar, At, history
  <2>2. PICK b \in op[p].doomed :
          /\ b \in Backups
          /\ Carried(op'[p], op[p]) /\ op'[p].new = op[p].new
          /\ op'[p].next = op[p].next
          /\ op'[p].at = IF backup[b] = Null THEN "remove" ELSE "remove_file"
          /\ op'[p].doomed = op[p].doomed \ {b}
          /\ op'[p].from = b
          /\ backup' = IF backup[b] = Null THEN backup
                       ELSE [backup EXCEPT ![b].described = FALSE]
    BY <1>0, <1>2, RemoveSidecarEdge
  <2>3. op[p].kind \in {"create", "prune"} /\ op[p].next = Null
    BY <1>0, <2>1 DEF Coherent, Ordered
  <2>4. ~Good(b)' /\ \A c \in Backups : c # b => backup'[c] = backup[c]
    <3>1. CASE backup[b] = Null
      BY <2>2, <3>1 DEF Good
    <3>2. CASE backup[b] # Null
      BY <1>0, <2>2, <3>2, Bared DEF Good
    <3> QED
      BY <3>1, <3>2
  <2>5. Good(b) => Dispensable(b)
    BY <1>0, <2>2 DEF Kept
  <2>6. op[p].kind = "create" => Safe(op[p])'
    <3>1. op[p].kind = "create" => Safe(op[p]) /\ made \in Backups
      BY <1>0, <2>1, RecoveryAssumption DEF Kept, Safe, Backups, IInv, DataOK, BackupsOK
    <3>2. op[p].kind = "create" => made # b
      BY <1>0, <2>5, <3>1 DEF Safe, Dispensable
    <3> QED
      BY <2>1, <2>2, <2>4, <3>1, <3>2 DEF Safe, Good
  <2>7. \A c \in Backups : Good(c)' => Good(c)
    BY <2>4 DEF Good
  <2>8. ASSUME NEW c \in op'[p].doomed, Good(c)'
        PROVE  Dispensable(c)'
    <3>1. c \in op[p].doomed /\ c \in Backups
      BY <1>0, <2>2, <2>8 DEF Operations
    <3> QED
      BY <1>0, <2>1, <2>7, <2>8, <3>1 DEF Kept, Dispensable, Outlived
  <2>9. Kept(op[p])'
    BY <2>2, <2>3, <2>4, <2>6, <2>8, NullIsNoWord DEF Kept, Carried
  <2>10. ASSUME NEW d \in owed
         PROVE  Covered(d)'
    <3>1. /\ Covered(d) /\ d.since \in Int /\ d.least \in Int
          /\ made' = made /\ made <= made' /\ d.since <= made
      BY <1>0, <2>1 DEF Covered
    <3>2. d.since >= 1 => d.since \in Backups
      BY <1>0, <3>1 DEF Backups, IInv, DataOK, BackupsOK
    <3>3. \/ Outlived(d)
          \/ d.since >= 1 /\ Good(d.since) => backup'[d.since] = backup[d.since]
      BY <2>4, <2>5, <3>2 DEF Dispensable
    <3> QED
      BY <1>0, <3>1, <3>3, StaysCovered DEF Good
  <2> QED
    BY <2>1, <2>9, <2>10
<1>3. CASE RemoveFile(p)
  <2>1. /\ op[p].at = "remove_file" /\ UNCHANGED <<made, owed>>
        /\ backup' = [backup EXCEPT ![op[p].from] = Null]
    BY <1>3 DEF RemoveFile, At, history
  <2>2. /\ Carried(op'[p], op[p]) /\ op'[p].new = op[p].new /\ op'[p].doomed = op[p].doomed
        /\ op'[p].at = "read_schema" /\ op'[p].next = "deleted"
    BY <1>0, <1>3, RemoveFileEdge
  <2>3. /\ op[p].kind \in {"create", "prune"} /\ ~Good(op[p].from)
        /\ op[p].kind = "create" => Safe(op[p])
    BY <1>0, <2>1 DEF Coherent, Kept
  <2>4. \A c \in Backups : Good(c) => backup'[c] = backup[c]
    BY <1>0, <2>1, <2>3
  <2>5. \A c \in Backups : Good(c)' => Good(c)
    BY <1>0, <2>1 DEF Good
  <2>6. op[p].kind = "create" => Safe(op[p])'
    <3>1. op[p].kind = "create" => made \in Backups
      BY <1>0, <2>3, RecoveryAssumption DEF Safe, Backups, IInv, DataOK, BackupsOK
    <3> QED
      BY <2>1, <2>2, <2>3, <2>4, <3>1 DEF Safe, Good
  <2>7. ASSUME NEW c \in op'[p].doomed, Good(c)'
        PROVE  Dispensable(c)'
    <3>1. c \in op[p].doomed /\ c \in Backups
      BY <1>0, <2>2, <2>7 DEF Operations
    <3> QED
      BY <1>0, <2>1, <2>5, <2>7, <3>1 DEF Kept, Dispensable, Outlived
  <2>8. Kept(op[p])'
    BY <2>2, <2>3, <2>6, <2>7 DEF Kept, Carried
  <2>9. ASSUME NEW d \in owed
        PROVE  Covered(d)'
    <3>1. /\ Covered(d) /\ d.since \in Int /\ d.least \in Int
          /\ made' = made /\ made <= made' /\ d.since <= made
      BY <1>0, <2>1 DEF Covered
    <3>2. d.since >= 1 => d.since \in Backups
      BY <1>0, <3>1 DEF Backups, IInv, DataOK, BackupsOK
    <3>3. d.since >= 1 /\ Good(d.since) => backup'[d.since] = backup[d.since]
      BY <2>4, <3>2
    <3> QED
      BY <1>0, <3>1, <3>3, StaysCovered DEF Good
  <2> QED
    BY <2>1, <2>8, <2>9
<1>4. CASE Pruned(p)
  <2>1. Return(p) /\ UNCHANGED <<backup, made, owed>>
    BY <1>4 DEF Pruned, history
  <2> QED
    BY <1>0, <2>1, ReturnEdge, IdleKept, QuietCovered
<1> QED
  BY <1>1, <1>2, <1>3, <1>4 DEF PruneStep

LEMMA MigrateStepKept ==
    ASSUME IInv, OrderOK, Alone, KeptOK, ~raced, NEW p \in Processes, MigrateStep(p)
    PROVE  Kept(op[p])' /\ \A d \in owed' : Covered(d)'
<1>0. /\ OpsOK /\ FilesOK /\ Visible \in Contents
      /\ op[p] \in Operations /\ Coherent(op[p]) /\ Ordered(op[p]) /\ Kept(op[p])
      /\ \A d \in owed : Covered(d)
  BY HolderFacts
<1>1. /\ UNCHANGED <<backup, made, owed>> /\ op[p].at \in {"read_schema", "migrate"}
      /\ \A d \in owed' : Covered(d)'
  <2>1. UNCHANGED <<backup, made, owed>> /\ op[p].at \in {"read_schema", "migrate"}
    BY DEF MigrateStep, ReadSchema, ApplyMigration, Migrated, MigrationFails, At, history
  <2> QED
    BY <1>0, <2>1, QuietCovered
<1>2. ASSUME /\ Carried(op'[p], op[p]) /\ Aims(op'[p], op[p])
             /\ op'[p].at = "migrate" /\ op'[p].next = op[p].next,
             db # Null => db' # Null /\ Visible'.data = Visible.data
      PROVE  Kept(op[p])'
  BY <1>0, <1>1, <1>2 DEF Kept, Carried, Aims, Safe, Good, Dispensable, Outlived
<1>3. CASE ReadSchema(p)
  <2>1. /\ Carried(op'[p], op[p]) /\ Aims(op'[p], op[p])
        /\ op'[p].at = "migrate" /\ op'[p].next = op[p].next
    BY <1>0, <1>3, MigrateEdges
  <2>2. db # Null => UNCHANGED <<db, wal>>
    BY <1>3 DEF ReadSchema
  <2>3. db # Null => db' # Null /\ Visible' = Visible
    BY <2>2 DEF Visible
  <2> QED
    BY <1>1, <1>2, <2>1, <2>3
<1>4. CASE ApplyMigration(p)
  <2> DEFINE content == [Visible EXCEPT !.schema = @ + 1]
  <2>1. /\ Carried(op'[p], op[p]) /\ Aims(op'[p], op[p])
        /\ op'[p].at = "migrate" /\ op'[p].next = op[p].next
    BY <1>0, <1>4, MigrateEdges
  <2>2. /\ UNCHANGED <<previous, temp, up>> /\ Commit(content)
        /\ op[p].plan < release /\ Visible.schema = op[p].plan
    BY <1>4 DEF ApplyMigration
  <2>3. content \in Contents /\ content.data = Visible.data
    <3>1. Visible.schema + 1 \in 0..Latest
      BY <1>0, <2>2, RecoveryAssumption DEF Contents, IInv, DataOK, RestOK, Versions
    <3> QED
      BY <1>0, <3>1 DEF Contents
  <2> HIDE DEF content
  <2>4. db' # Null /\ Visible'.data = Visible.data
    BY <1>0, <2>2, <2>3, CommitKeeps
  <2> QED
    BY <1>1, <1>2, <2>1, <2>4
<1>5. CASE Migrated(p) \/ MigrationFails(p)
  <2>1. UNCHANGED <<db, wal>> /\ Visible' = Visible
    BY <1>0, <1>5, MigratedEdge DEF Visible
  <2>2. CASE op'[p] = Idle
    BY <1>1, <2>2, IdleKept
  <2>3. CASE /\ op[p].next = "replaced" /\ op'[p].next = Null
             /\ Aims(op'[p], op[p]) /\ op'[p].at \in {"final", "undo"}
    <3>1. op[p].doomed = {}
      BY <1>0, <2>3 DEF Ordered, Coherent
    <3> QED
      BY <1>1, <2>3, <3>1, ElsewhereKept, NullIsNoWord DEF Aims
  <2>4. CASE GoOn(p) /\ op'[p] # Idle
    <3>1. \/ /\ op[p].next = "deleted" /\ op'[p].at = "remove"
             /\ op'[p].next = Null /\ Carried(op'[p], op[p]) /\ Aims(op'[p], op[p])
          \/ /\ op[p].next = "active" /\ op[p].kind = "create" /\ op'[p].at = "list"
             /\ op'[p].next = Null /\ Carried(op'[p], op[p]) /\ Aims(op'[p], op[p])
          \/ /\ op[p].next = "active" /\ op[p].kind = "restore" /\ op'[p].at = "checkpoint"
             /\ op'[p].next = Null /\ Carried(op'[p], op[p]) /\ Aims(op'[p], op[p])
      BY <1>0, <2>4, GoOnEdge
    <3>2. Kept(op[p])'
      BY <1>0, <1>1, <2>1, <3>1, NullIsNoWord
      DEF Kept, Carried, Aims, Safe, Good, Dispensable, Outlived
    <3> QED
      BY <1>1, <3>2
  <2> QED
    BY <1>0, <1>5, <2>2, <2>3, <2>4, MigratedEdge
<1> QED
  BY <1>3, <1>4, <1>5 DEF MigrateStep

LEMMA RestoreStepKept ==
    ASSUME IInv, OrderOK, KeptOK, ~raced, NEW p \in Processes, RestoreStep(p) \/ Fails(p)
    PROVE  Kept(op[p])' /\ \A d \in owed' : Covered(d)'
<1>0. /\ OpsOK /\ FilesOK /\ Visible \in Contents /\ made \in Int
      /\ op[p] \in Operations /\ Coherent(op[p]) /\ Ordered(op[p]) /\ Kept(op[p])
      /\ \A d \in owed : Covered(d)
      /\ Null \notin Contents
  BY HolderFacts
<1>1. /\ UNCHANGED <<backup, made>>
      /\ op[p].at \in RestoreAts => op[p].doomed = {} /\ op[p].kind = "restore"
  <2>1. UNCHANGED <<backup, made>>
    BY DEF RestoreStep, Check, Checkpoint, Copy, MoveAside, Replace, RemoveLog, Finish, Undo, Drop,
           PutBack, Fails
  <2>2. op[p].at \in RestoreAts => op[p].doomed = {} /\ op[p].kind = "restore"
    BY <1>0 DEF Coherent, Ordered
  <2> QED
    BY <2>1, <2>2
<1>2. CASE Check(p)
  <2>1. op[p].at = "check" /\ UNCHANGED <<db, owed>>
    BY <1>2 DEF Check, At, files, history
  <2>2. /\ op'[p].doomed = op[p].doomed /\ op'[p].next = op[p].next
        /\ op'[p].kind = op[p].kind
        /\ op'[p].at = IF db = Null THEN "copy" ELSE "snapshot"
    BY <1>0, <1>2, CheckEdge
  <2>3. op[p].next = Null /\ op[p].doomed = {} /\ op[p].kind = "restore"
    BY <1>0, <1>1, <2>1 DEF Ordered, RestoreAts
  <2>4. Kept(op[p])'
    BY <2>1, <2>2, <2>3, NullIsNoWord DEF Kept
  <2> QED
    BY <1>0, <1>1, <2>1, <2>4, QuietCovered
<1>3. CASE Checkpoint(p)
  <2>1. op[p].at = "checkpoint" /\ owed' = owed
    BY <1>3 DEF Checkpoint, At
  <2>2. /\ Aims(op'[p], op[p]) /\ op'[p].kind = op[p].kind
        /\ op'[p].at = "copy" /\ op'[p].next = op[p].next
        /\ \/ wal' = Null /\ db' = IF db = Null THEN Null ELSE Visible
           \/ UNCHANGED <<db, wal>>
    BY <1>0, <1>3, CheckpointEdge
  <2>3. op[p].next = Null /\ op[p].doomed = {} /\ op[p].kind = "restore"
    BY <1>0, <1>1, <2>1 DEF Ordered, RestoreAts
  <2>4. db # Null /\ Safe(op[p]) /\ backup[made].content.data = Visible.data
    BY <1>0, <2>1, <2>3 DEF Kept
  <2>5. Visible' = Visible
    BY <1>0, <2>2, <2>4 DEF Visible
  <2>6. Kept(op[p])'
    BY <1>1, <2>2, <2>3, <2>4, <2>5, NullIsNoWord DEF Kept, Safe, Good, Aims
  <2> QED
    BY <1>0, <1>1, <2>1, <2>6, QuietCovered
<1>4. CASE Copy(p)
  <2>1. op[p].at = "copy" /\ UNCHANGED <<db, wal, owed>> /\ Go(p, "aside")
    BY <1>4 DEF Copy, At, history
  <2>2. /\ Carried(op'[p], op[p]) /\ Aims(op'[p], op[p])
        /\ op'[p].at = "aside" /\ op'[p].next = op[p].next
    BY <1>0, <2>1, GoEdge
  <2>3. op[p].next = Null /\ op[p].doomed = {} /\ op[p].kind = "restore"
    BY <1>0, <1>1, <2>1 DEF Ordered, RestoreAts
  <2>4. Visible' = Visible
    BY <2>1 DEF Visible
  <2>5. db = Null \/ (Safe(op[p]) /\ backup[made].content.data = Visible.data)
    BY <1>0, <2>1, <2>3 DEF Kept
  <2>6. Kept(op[p])'
    BY <1>1, <2>1, <2>2, <2>3, <2>4, <2>5, NullIsNoWord DEF Kept, Safe, Good, Aims, Carried
  <2> QED
    BY <1>0, <1>1, <2>1, <2>6, QuietCovered
<1>5. CASE MoveAside(p)
  <2> DEFINE e == [data |-> Visible.data, since |-> made, least |-> Retention]
  <2>1. /\ op[p].at = "aside" /\ Go(p, "replace")
        /\ owed' = IF db = Null THEN owed ELSE owed \cup {e}
    BY <1>5 DEF MoveAside, At
  <2>2. /\ Aims(op'[p], op[p]) /\ op'[p].at = "replace" /\ op'[p].next = op[p].next
    BY <1>0, <2>1, GoEdge
  <2>3. op[p].next = Null /\ op[p].doomed = {} /\ op[p].kind = "restore"
    BY <1>0, <1>1, <2>1 DEF Ordered, RestoreAts
  <2>4. db = Null \/ (Safe(op[p]) /\ backup[made].content.data = Visible.data)
    BY <1>0, <2>1, <2>3 DEF Kept
  <2>5. Kept(op[p])'
    BY <2>2, <2>3, ElsewhereKept, NullIsNoWord DEF Aims
  <2>6. \A d \in owed : Covered(d)'
    BY <1>0, <1>1 DEF Covered, Good, Outlived
  <2>7. ASSUME NEW d, d = e, db # Null
        PROVE  Covered(d)'
    <3>1. d.since = made /\ d.data = Visible.data
      BY <2>7
    <3> HIDE DEF e
    <3> QED
      BY <1>0, <1>1, <2>4, <2>7, <3>1 DEF Covered, Safe, Good
  <2>8. ASSUME NEW d \in owed'
        PROVE  Covered(d)'
    <3>1. d \in owed \/ (d = e /\ db # Null)
      BY <2>1
    <3> QED
      BY <2>6, <2>7, <3>1
  <2> QED
    BY <2>5, <2>8
<1>6. ASSUME op[p].at \in RestoreAts, op'[p] = Idle \/ (/\ Aims(op'[p], op[p])
                /\ op'[p].next \in {op[p].next, "replaced", "restored"}
                /\ op'[p].at \in {"clean", "read_schema", "undo", "drop", "put_back"}),
             owed' \subseteq owed
      PROVE  Kept(op[p])' /\ \A d \in owed' : Covered(d)'
  <2>1. op[p].next = Null /\ op[p].doomed = {}
    BY <1>0, <1>1, <1>6 DEF Ordered, RestoreAts
  <2>2. Kept(op[p])'
    BY <1>6, <2>1, IdleKept, ElsewhereKept, NullIsNoWord DEF Aims
  <2> QED
    BY <1>0, <1>1, <1>6, <2>2, QuietCovered
<1>7. CASE Replace(p)
  <2>1. op[p].at = "replace" /\ owed' = owed /\ Go(p, "clean")
    BY <1>7 DEF Replace, At, history
  <2> QED
    BY <1>0, <1>6, <2>1, GoEdge DEF RestoreAts
<1>8. CASE RemoveLog(p)
  <2>1. op[p].at = "clean" /\ owed' = owed
    BY <1>8 DEF RemoveLog, At, history
  <2> QED
    BY <1>0, <1>6, <1>8, <2>1, RemoveLogEdge DEF RestoreAts
<1>9. CASE Finish(p)
  <2>1. /\ op[p].at = "final" /\ owed' = owed
        /\ op' = [op EXCEPT ![p] = RecordCatalog(p, "restored")]
    BY <1>9 DEF Finish, At, history
  <2> QED
    BY <1>0, <1>6, <2>1, CatalogEdge DEF RestoreAts
<1>10. CASE Undo(p)
  <2>1. op[p].at = "undo" /\ owed' = owed /\ (Return(p) \/ Go(p, "drop"))
    BY <1>10 DEF Undo, At, history
  <2> QED
    BY <1>0, <1>6, <2>1, GoEdge, ReturnEdge DEF RestoreAts
<1>11. CASE PutBack(p)
  <2>1. op[p].at = "put_back" /\ owed' \subseteq owed /\ Return(p)
    BY <1>11 DEF PutBack, At
  <2> QED
    BY <1>0, <1>6, <2>1, ReturnEdge DEF RestoreAts
<1>12. CASE Fails(p)
  <2>1. owed' = owed
    BY <1>12 DEF Fails, history
  <2>2. CASE op'[p] = Idle
    BY <1>0, <1>1, <2>1, <2>2, IdleKept, QuietCovered
  <2>3. CASE op'[p] # Idle
    BY <1>0, <1>6, <1>12, <2>1, <2>3, FailsEdge DEF RestoreAts
  <2> QED
    BY <2>2, <2>3
<1>13. CASE Drop(p)
  <2>1. op[p].at = "drop" /\ owed' = owed /\ Go(p, "put_back")
    BY <1>13 DEF Drop, At, history
  <2> QED
    BY <1>0, <1>6, <2>1, GoEdge DEF RestoreAts
<1> QED
  BY <1>2, <1>3, <1>4, <1>5, <1>7, <1>8, <1>9, <1>10, <1>11, <1>12, <1>13 DEF RestoreStep

\* A step without the lock: it may be the one that takes it.
LEMMA OutsideStepKept ==
    ASSUME IInv, OrderOK, KeptOK, ~raced, NEW p \in Processes, ProcessStep(p), ~Holds(p)
    PROVE  Kept(op[p])' /\ \A d \in owed' : Covered(d)'
<1>0. /\ OpsOK /\ Ordered(op[p]) /\ Ordered(op'[p]) /\ \A d \in owed : Covered(d)
      /\ UNCHANGED <<backup, made, owed>>
  BY HolderFacts, OrderKept, OutsidersKeep
<1>1. \A d \in owed' : Covered(d)'
  BY <1>0, QuietCovered
<1>2. CASE Outside(op'[p])
  BY <1>0, <1>1, <1>2, OutsideKept
<1>3. CASE ~Outside(op'[p])
  <2>1. /\ op[p].doomed = {}
        /\ op[p].at \in {"idle", "unlink", "relock", "read_schema", "migrate"}
    BY <1>0, OutsideFacts DEF Holds, Outside
  <2>2. ASSUME op'[p].at \in {"snapshot", "list", "verify", "check"}, op'[p].next = Null,
               op'[p].doomed = {}, op'[p].at = "list" => op'[p].kind # "create"
        PROVE  Kept(op[p])'
    BY <2>2, NullIsNoWord DEF Kept
  <2>3. CASE Acquire(p)
    <3>1. PICK kind \in LockedKinds :
            /\ op'[p].at = First(kind) \/ op'[p].at = "unlink"
            /\ op'[p].kind = kind /\ op'[p].next = Null /\ op'[p].doomed = {}
      BY <1>0, <2>3, AcquireEdge
    <3>2. op'[p].at = First(kind)
      BY <1>3, <3>1 DEF Outside
    <3> QED
      BY <1>1, <2>2, <3>1, <3>2, FirstSteps
  <2>4. CASE CreateLock(p)
    <3>1. op[p].at = "relock" /\ op[p].next = Null /\ op[p].kind \in LockedKinds
      BY <1>0, <2>4 DEF CreateLock, At, Ordered
    <3>2. CASE op'[p] = Idle
      BY <1>1, <3>2, IdleKept
    <3>3. CASE op'[p] # Idle
      <4>1. /\ op'[p].at = First(op[p].kind) /\ op'[p].next = Null
            /\ op'[p].kind = op[p].kind /\ op'[p].doomed = {}
        BY <1>0, <2>1, <2>4, <3>1, <3>3, CreateLockEdge DEF Carried, Aims
      <4> QED
        BY <1>1, <2>2, <3>1, <4>1, FirstSteps
    <3> QED
      BY <3>2, <3>3
  <2>5. CASE UnlinkStaleLock(p)
    <3>1. op'[p].at = "relock"
      BY <1>0, <2>5, GoEdge DEF UnlinkStaleLock
    <3> QED
      BY <1>3, <3>1 DEF Outside
  <2>6. CASE MigrateStep(p)
    <3>1. op[p].kind \notin LockedKinds
      <4>1. op[p].at \in {"read_schema", "migrate"}
        BY <2>6 DEF MigrateStep, ReadSchema, ApplyMigration, Migrated, MigrationFails, At
      <4> QED
        BY <4>1 DEF Holds
    <3>2. op[p] # Idle
      <4>1. op[p].at # "idle"
        BY <2>6 DEF MigrateStep, ReadSchema, ApplyMigration, Migrated, MigrationFails, At
      <4> QED
        BY <4>1, IdleFields
    <3>3. op'[p] = Idle \/ op'[p].kind = op[p].kind
      BY <1>0, <3>2, KindKept
    <3> QED
      BY <1>3, <3>1, <3>3, IdleFields, NullIsNoWord DEF Outside
  <2>7. CASE BeginMigrate(p) \/ (p = Service /\ Start)
    <3>1. /\ \E next : op' = [op EXCEPT ![p].at = "read_schema", ![p].next = next]
          /\ op[p].at = "idle"
      BY <2>7, IdleFields DEF BeginMigrate, Start, Offline, At
    <3>2. op[p] = Idle
      BY <1>0, <3>1 DEF OpsOK, Coherents, Coherent
    <3>3. op'[p].kind = Null
      BY <1>0, <3>1, <3>2, BeginEdge
    <3> QED
      BY <1>3, <3>3, NullIsNoWord DEF Outside
  <2>8. CASE Cut(p)
    BY <1>0, <1>1, <2>8, CutEdge, IdleKept
  <2>10. CASE Fails(p)
    BY <1>0, <1>1, <2>1, <2>10, FailsEdge, IdleKept
  <2>9. CASE CreateStep(p) \/ PruneStep(p) \/ RestoreStep(p)
    BY <2>1, <2>9
    DEF CreateStep, PruneStep, RestoreStep, Snapshot, Describe, Discard, VerifyBackup, List,
        RemoveSidecar, RemoveFile, Pruned, Check, Checkpoint, Copy, MoveAside, Replace,
        RemoveLog, Finish, Undo, Drop, PutBack, At
  <2> QED
    BY <2>3, <2>4, <2>5, <2>6, <2>7, <2>8, <2>9, <2>10 DEF ProcessStep
<1> QED
  BY <1>2, <1>3

LEMMA StepKept ==
    ASSUME IInv, OrderOK, Alone, RestoreOK, KeptOK, NEW p \in Processes, ProcessStep(p)
    PROVE  KeptOK'
<1> SUFFICES ASSUME ~raced'
             PROVE  (\A q \in Processes : Kept(op[q])') /\ \A d \in owed' : Covered(d)'
  BY DEF KeptOK
<1>0. ~raced /\ OpsOK /\ Others(p) /\ \A d \in owed : Covered(d)
  BY RacedStays, OrderKept DEF KeptOK, IInv, ControlOK
<1>1. Kept(op[p])' /\ \A d \in owed' : Covered(d)'
  <2>1. CASE ~Holds(p)
    BY <1>0, <2>1, OutsideStepKept
  <2>2. CASE Holds(p)
    <3>1. ~Acquire(p) /\ ~UnlinkStaleLock(p) /\ ~CreateLock(p) /\ ~BeginMigrate(p)
          /\ ~(p = Service /\ Start)
      <4>1. op[p].at \notin {"idle", "unlink", "relock"}
        BY <1>0, <2>2, IdleFields, NullIsNoWord DEF Holds, OpsOK, Coherents, Coherent
      <4> QED
        BY <4>1, IdleFields
        DEF Acquire, MayBegin, UnlinkStaleLock, CreateLock, BeginMigrate, Start, Offline, At
    <3>2. CASE Cut(p)
      <4>1. op'[p] = Idle /\ UNCHANGED <<backup, made, owed>>
        BY <1>0, <3>2, CutEdge DEF history
      <4> QED
        BY <1>0, <4>1, IdleKept, QuietCovered
    <3> QED
      BY <1>0, <3>1, <3>2, CreateStepKept, PruneStepKept, MigrateStepKept, RestoreStepKept
      DEF ProcessStep
  <2> QED
    BY <2>1, <2>2
<1>2. ASSUME NEW q \in Processes, q # p
      PROVE  Kept(op[q])'
  <2>0. op'[q] = op[q] /\ Ordered(op[q]) /\ Kept(op[q]) /\ op[q].kind # "restore"
    BY <1>0, <1>2, NobodyBeside DEF Others, OrderOK, KeptOK
  <2>1. CASE Holds(p)
    <3>1. ~Holds(q)
      BY <1>0, <1>2, <2>1, OneHolder
    <3> QED
      BY <2>0, <3>1, OutsideKept DEF Holds, Outside
  <2>2. CASE ~Holds(p)
    <3>1. UNCHANGED <<backup, made, owed>>
      BY <2>2, OutsidersKeep
    <3> QED
      BY <2>0, <3>1 DEF Kept, Safe, Good, Dispensable, Outlived
  <2> QED
    BY <2>1, <2>2
<1> QED
  BY <1>1, <1>2

LEMMA WorldKept ==
    ASSUME IInv, Alone, KeptOK, WorldStep
    PROVE  KeptOK'
<1>1. UNCHANGED <<op, backup, made, owed, raced>>
  BY WorldKeepsOps
<1>2. ASSUME ~raced, NEW q \in Processes
      PROVE  Kept(op[q])'
  <2>1. Kept(op[q])
    BY <1>2 DEF KeptOK
  <2>2. CASE op[q].kind # "restore"
    BY <1>1, <2>1, <2>2 DEF Kept, Safe, Good, Dispensable, Outlived
  <2>3. CASE op[q].kind = "restore"
    <3>1. UNCHANGED <<db, wal>> /\ Visible' = Visible
      BY <2>3, WorldBeside DEF files, Visible
    <3> QED
      BY <1>1, <2>1, <3>1 DEF Kept, Safe, Good, Dispensable, Outlived
  <2> QED
    BY <2>2, <2>3
<1> QED
  BY <1>1, <1>2, QuietCovered DEF KeptOK

\* A restore goes on with the safety backup it has made.
LEMMA SafetyCarried ==
    ASSUME NEW p \in Processes, SafetyKept(op[p]), UNCHANGED <<backup, made>>,
           op'[p] = Idle \/ (/\ op'[p].kind = op[p].kind /\ op'[p].before = op[p].before
                             /\ op'[p].new = op[p].new),
           op[p].at \notin {"idle", "unlink", "relock", "check", "snapshot", "describe"}
    PROVE  SafetyKept(op[p])'
BY IdleFields, NullIsNoWord DEF SafetyKept, Safe, Good

LEMMA SafetyOfStep ==
    ASSUME IInv, OrderOK, RestoreOK, KeptOK, ~raced, NEW p \in Processes, ProcessStep(p),
           SafetyKept(op[p]), Whole, Alone
    PROVE  SafetyKept(op[p])'
<1>0. OpsOK /\ Ordered(op[p]) /\ Ordered(op'[p]) /\ Coherent(op[p])
  BY HolderFacts, OrderKept
<1>1. CASE op'[p] = Idle
  BY <1>1, IdleFields, NullIsNoWord DEF SafetyKept
<1>2. CASE op'[p].kind # "restore" \/ op'[p].before = Null
           \/ op'[p].at \in {"idle", "unlink", "relock", "check", "snapshot", "describe"}
  BY <1>2 DEF SafetyKept
<1>3. CASE Acquire(p)
  BY <1>0, <1>2, <1>3, AcquireEdge
<1>4. CASE UnlinkStaleLock(p) \/ CreateLock(p)
  <2>1. UnlinkStaleLock(p) => op'[p].at = "relock"
    BY <1>0, GoEdge DEF UnlinkStaleLock
  <2>2. CreateLock(p) => op'[p] = Idle \/ op'[p].at = First(op'[p].kind)
    <3>1. ASSUME CreateLock(p), op'[p] # Idle
          PROVE  op'[p].at = First(op'[p].kind)
      BY <1>0, <3>1, CreateLockEdge DEF Carried
    <3> QED
      BY <3>1
  <2>3. op'[p].kind = "restore" => First(op'[p].kind) = "check"
    BY FirstSteps DEF LockedKinds
  <2> QED
    BY <1>1, <1>2, <1>4, <2>1, <2>2, <2>3
<1>5. CASE BeginMigrate(p) \/ (p = Service /\ Start)
  <2>1. /\ \E next : op' = [op EXCEPT ![p].at = "read_schema", ![p].next = next]
        /\ op[p].at = "idle"
    BY <1>5, IdleFields DEF BeginMigrate, Start, Offline, At
  <2>2. op[p] = Idle
    BY <1>0, <2>1 DEF Coherent
  <2>3. op'[p].kind = Null
    BY <1>0, <2>1, <2>2, BeginEdge
  <2> QED
    BY <1>2, <2>3, NullIsNoWord
<1>6. CASE Cut(p)
  BY <1>0, <1>1, <1>6, CutEdge
<1>7. CASE CreateStep(p)
  <2>1. CASE Snapshot(p)
    BY <1>0, <1>2, <2>1, SnapshotEdge
  <2>2. CASE Discard(p)
    BY <1>0, <1>1, <2>2, ReturnEdge DEF Discard
  <2>3. CASE VerifyBackup(p)
    <3>1. op[p].kind = "verify" /\ op' = [op EXCEPT ![p] = RecordCatalog(p, "active")]
      BY <1>0, <2>3 DEF VerifyBackup, At, Ordered
    <3>2. op'[p].kind = "verify"
      BY <1>0, <3>1, CatalogEdge DEF Carried
    <3> QED
      BY <1>2, <3>2
  <2>4. CASE Describe(p)
    <3>1. /\ op[p].at = "describe" /\ made' = made /\ backup[op[p].new] # Null
          /\ backup' = [backup EXCEPT ![op[p].new].described = TRUE]
          /\ op' = [op EXCEPT ![p] = RecordCatalog(p, "active")]
      BY <2>4 DEF Describe, At
    <3>2. Carried(op'[p], op[p]) /\ Aims(op'[p], op[p])
      BY <1>0, <3>1, CatalogEdge
    <3>3. SUFFICES ASSUME op[p].kind = "restore", op[p].before # Null
                   PROVE  SafetyKept(op[p])'
      BY <1>2, <3>2 DEF Carried
    <3>4. /\ op[p].new = made /\ made >= 1 /\ made \in Backups
          /\ backup[made].content.data = op[p].before
      <4>1. op[p].new = made /\ made >= 1 /\ backup[made].content.data = Visible.data
        BY <3>1, <3>3 DEF KeptOK, Kept
      <4>2. op[p].flushed /\ Visible.data = op[p].before
        BY <1>0, <3>1, <3>3 DEF Ordered, RestoreOK, OldKept
      <4>3. made \in Backups
        BY <4>1 DEF IInv, DataOK, BackupsOK, Backups
      <4> QED
        BY <4>1, <4>2, <4>3
    <3>5. /\ backup'[made] # Null /\ backup'[made].described = TRUE
          /\ backup'[made].content = backup[made].content
      BY <3>1, <3>4, Described DEF IInv, DataOK, BackupsOK
    <3> QED
      BY <3>1, <3>2, <3>4, <3>5 DEF SafetyKept, Safe, Good, Carried, Aims
  <2> QED
    BY <1>7, <2>1, <2>2, <2>3, <2>4 DEF CreateStep
<1>8. CASE PruneStep(p)
  <2>1. op[p].at \in {"list", "remove", "remove_file"}
    BY <1>8 DEF PruneStep, List, RemoveSidecar, RemoveFile, Pruned, At
  <2>2. op[p].kind \in {"create", "prune"} /\ op[p] # Idle
    BY <1>0, <2>1, IdleFields DEF Coherent
  <2>3. op'[p] = Idle \/ op'[p].kind = op[p].kind
    BY <1>0, <2>2, KindKept
  <2> QED
    BY <1>1, <1>2, <2>2, <2>3
<1>9. CASE MigrateStep(p)
  <2>1. UNCHANGED <<backup, made>> /\ op[p].at \in {"read_schema", "migrate"}
    BY <1>9 DEF MigrateStep, ReadSchema, ApplyMigration, Migrated, MigrationFails, At
  <2>2. op'[p] = Idle \/ (Carried(op'[p], op[p]) /\ Aims(op'[p], op[p]))
    <3>1. CASE ReadSchema(p) \/ ApplyMigration(p)
      BY <1>0, <3>1, MigrateEdges
    <3>2. CASE Migrated(p) \/ MigrationFails(p)
      <4>1. GoOn(p) => op'[p] = Idle \/ (Carried(op'[p], op[p]) /\ Aims(op'[p], op[p]))
        BY <1>0, GoOnEdge
      <4> QED
        BY <1>0, <3>2, <4>1, MigratedEdge
    <3> QED
      BY <1>9, <3>1, <3>2 DEF MigrateStep
  <2> QED
    BY <2>1, <2>2, SafetyCarried DEF Carried, Aims
<1>10. CASE Check(p)
  <2>1. /\ op'[p].before = IF db = Null THEN Null ELSE Visible.data
        /\ op'[p].at = IF db = Null THEN "copy" ELSE "snapshot"
    BY <1>0, <1>10, CheckEdge
  <2> QED
    BY <1>2, <2>1
<1>11. CASE RestoreStep(p) /\ ~Check(p)
  <2>1. UNCHANGED <<backup, made>> /\ op[p].at \in RestoreAts \ {"check"}
    BY <1>11
    DEF RestoreStep, Check, Checkpoint, Copy, MoveAside, Replace, RemoveLog, Finish, Undo, Drop,
        PutBack, At, RestoreAts
  <2>2. ASSUME NEW step, Go(p, step)
        PROVE  Carried(op'[p], op[p]) /\ Aims(op'[p], op[p])
    BY <1>0, <2>2, GoEdge
  <2>3. \/ op'[p] = Idle
        \/ /\ op'[p].kind = op[p].kind /\ op'[p].before = op[p].before
           /\ op'[p].new = op[p].new
    <3>1. CASE Checkpoint(p)
      BY <1>0, <3>1, CheckpointEdge DEF Aims
    <3>2. CASE Copy(p) \/ MoveAside(p) \/ Replace(p) \/ Drop(p)
      BY <2>2, <3>2 DEF Copy, MoveAside, Replace, Drop, Carried, Aims
    <3>3. CASE RemoveLog(p)
      BY <1>0, <3>3, RemoveLogEdge DEF Carried, Aims
    <3>4. CASE Finish(p)
      BY <1>0, <3>4, CatalogEdge DEF Finish, Carried, Aims
    <3>5. CASE Undo(p) \/ PutBack(p)
      BY <1>0, <2>2, <3>5, ReturnEdge DEF Undo, PutBack, Carried, Aims
    <3> QED
      BY <1>11, <3>1, <3>2, <3>3, <3>4, <3>5 DEF RestoreStep
  <2> QED
    BY <2>1, <2>3, SafetyCarried DEF RestoreAts
<1>12. CASE Fails(p)
  <2>1. UNCHANGED <<backup, made>>
    BY <1>0, <1>12, FailsEdge
  <2>2. CASE op'[p] = Idle
    BY <1>1, <2>2
  <2>3. CASE op'[p] # Idle
    <3>1. /\ op[p].at \in {"aside", "replace", "clean", "final"}
          /\ Carried(op'[p], op[p]) /\ Aims(op'[p], op[p])
      BY <1>0, <1>12, <2>3, FailsEdge
    <3> QED
      BY <2>1, <3>1, SafetyCarried DEF Carried, Aims
  <2> QED
    BY <2>2, <2>3
<1> QED
  BY <1>3, <1>4, <1>5, <1>6, <1>7, <1>8, <1>9, <1>10, <1>11, <1>12 DEF ProcessStep

LEMMA StepSafe ==
    ASSUME IInv, OrderOK, Alone, Whole, RestoreOK, KeptOK, SafetyOK,
           NEW p \in Processes, ProcessStep(p)
    PROVE  SafetyOK'
<1> SUFFICES ASSUME ~raced', NEW q \in Processes PROVE SafetyKept(op[q])'
  BY DEF SafetyOK
<1>0. ~raced /\ Others(p) /\ SafetyKept(op[p])
  BY RacedStays, OrderKept DEF SafetyOK, IInv, ControlOK
<1>1. CASE q = p
  BY <1>0, <1>1, SafetyOfStep
<1>2. CASE q # p
  <2>1. op'[q] = op[q] /\ op[q].kind # "restore"
    BY <1>0, <1>2, NobodyBeside DEF Others
  <2> QED
    BY <2>1 DEF SafetyKept
<1> QED
  BY <1>1, <1>2

LEMMA WorldSafe ==
    ASSUME SafetyOK, WorldStep
    PROVE  SafetyOK'
BY WorldKeepsOps DEF SafetyOK, SafetyKept, Safe, Good

-----------------------------------------------------------------------------

JInv == IInv /\ OrderOK /\ Alone /\ Whole /\ RestoreOK /\ KeptOK /\ SafetyOK

LEMMA StartsSo == Init => JInv
<1> SUFFICES ASSUME Init PROVE JInv
  OBVIOUS
<1>1. IInv
  BY InitEstablishes
<1>2. \A p \in Processes : op[p] = Idle
  BY DEF Init
<1>3. OrderOK /\ Alone
  BY <1>2, IdleFields, NullIsNoWord DEF OrderOK, Alone, Processes
<1>4. Whole
  BY <1>2, IdleFields DEF Init, Whole, SchemaOK, SoundOK, ServesWhole
<1>5. RestoreOK
  BY <1>2, IdleFields, NullIsNoWord DEF Init, RestoreOK, Numbered, OldKept, NewComes
<1>6. KeptOK
  BY <1>2, IdleFields, NullIsNoWord DEF Init, KeptOK, Kept
<1>7. SafetyOK
  BY <1>2, IdleFields, NullIsNoWord DEF SafetyOK, SafetyKept
<1> QED
  BY <1>1, <1>3, <1>4, <1>5, <1>6, <1>7 DEF JInv

LEMMA StaysSo == JInv /\ [Next]_vars => JInv'
<1> SUFFICES ASSUME JInv, [Next]_vars PROVE JInv'
  OBVIOUS
<1>0. /\ IInv /\ OrderOK /\ Alone /\ Whole /\ RestoreOK /\ KeptOK /\ SafetyOK
      /\ IInv' /\ OpsOK
  BY NextKeeps DEF JInv, IInv, ControlOK
<1>1. CASE WorldStep
  <2>1. OrderOK'
    BY <1>0, <1>1, WorldKeepsOps DEF OrderOK
  <2> QED
    BY <1>0, <1>1, <2>1, WorldKeepsAlone, WorldWhole, WorldRestores, WorldKept, WorldSafe
    DEF JInv
<1>2. ASSUME NEW p \in Processes, ProcessStep(p)
      PROVE  JInv'
  <2>1. OrderOK'
    BY <1>0, <1>2, OrderKept DEF OrderOK, Others
  <2>2. Alone'
    BY <1>0, <1>2, AloneKept
  <2>3. Whole'
    BY <1>0, <1>2, StepWhole
  <2>4. RestoreOK'
    BY <1>0, <1>2, StepRestores
  <2>5. KeptOK'
    BY <1>0, <1>2, StepKept
  <2>6. SafetyOK'
    BY <1>0, <1>2, StepSafe
  <2> QED
    BY <1>0, <2>1, <2>2, <2>3, <2>4, <2>5, <2>6 DEF JInv
<1> QED
  BY <1>1, <1>2, Steps

LEMMA AlwaysSo == Spec => []JInv
BY StartsSo, StaysSo, PTL DEF Spec

(***************************************************************************)
(* The service accepts requests only on a database that is there, has the  *)
(* schema of the installed release and is no mixture of two files, unless  *)
(* a checkpoint has failed before a restore (lifespan, migrate,            *)
(* restore_backup).                                                        *)
(***************************************************************************)
THEOREM ServiceRunsOnWholeDatabase == Spec => []ServesWhole
<1>1. JInv => ServesWhole
  BY DEF JInv, Whole
<1> QED
  BY <1>1, AlwaysSo, PTL

LEMMA CoveredIsKept ==
    ASSUME IInv, KeptOK
    PROVE  ReplacedIsKept
<1> SUFFICES ASSUME ~raced, NEW o \in owed
             PROVE  \/ \E b \in Backups : /\ backup[b] # Null /\ backup[b].described
                                          /\ backup[b].content.data = o.data
                    \/ made >= o.since + o.least
  BY DEF ReplacedIsKept
<1>1. Covered(o) /\ o.since \in 0..MaxBackups
  BY DEF KeptOK, IInv, DataOK, RestOK
<1>2. o.since >= 1 => o.since \in Backups
  BY <1>1 DEF Backups
<1> QED
  BY <1>1, <1>2 DEF Covered, Outlived, Good

(***************************************************************************)
(* What a restore has replaced is in a complete backup made before, until  *)
(* as many newer ones were made as the setting says or, if that is less,   *)
(* as the smallest number that prune_backups was asked to keep since: a    *)
(* crash, a failing file operation or a later prune does not change that   *)
(* (pre_restore_safety of restore_backup, prune_backups, _prune_unlocked). *)
(***************************************************************************)
THEOREM NothingRestoredOverIsLost == Spec => []ReplacedIsKept
<1>1. JInv => ReplacedIsKept
  BY CoveredIsKept DEF JInv
<1> QED
  BY <1>1, AlwaysSo, PTL

\* What the end of a restore leaves behind when it does not return.
FoundOrAside(p) ==
    \/ Visible'.data = op[p].before
    \/ incidents' # incidents /\ previous' # Null /\ previous'.data = op[p].before

SafetyLeft(p) ==
    LET safety == backup'[op[p].new]
    IN  safety # Null /\ safety.described /\ safety.content.data = op[p].before

\* How a restore that has the lock comes to its end.
LEMMA RestoreEnds ==
    ASSUME JInv, NEW p \in Processes, ProcessStep(p),
           op[p].kind = "restore", Holds(p), op'[p] = Idle
    PROVE  IF op[p].next = "restored"
           THEN Sound' /\ Visible'.data = op[p].chosen /\ Visible'.schema = release
           ELSE op[p].before # Null /\ op[p].flushed => FoundOrAside(p)
<1>0. /\ OpsOK /\ FilesOK /\ Coherent(op[p]) /\ Ordered(op[p])
      /\ OldKept(op[p]) /\ NewComes(op[p])
      /\ Null \notin {"active", "deleted", "restored", "replaced"}
      /\ op[p].at \notin {"unlink", "relock", "idle"}
  <2>1. op[p].at \notin {"unlink", "relock", "idle"}
    BY IdleFields, NullIsNoWord DEF Holds, JInv, IInv, ControlOK, OpsOK, Coherents, Coherent
  <2> QED
    BY <2>1, RestoreFacts DEF JInv
<1>1. ASSUME op[p].at \in {"snapshot", "describe", "copy", "check"}, UNCHANGED <<db, wal>>
      PROVE  /\ op[p].next # "restored"
             /\ op[p].before # Null /\ op[p].flushed => FoundOrAside(p)
  <2>1. op[p].next = Null /\ Visible' = Visible
    BY <1>0, <1>1 DEF Ordered, Visible
  <2>2. op[p].at = "check" => op[p].before = Null
    BY <1>0 DEF Ordered
  <2> QED
    BY <1>0, <1>1, <2>1, <2>2 DEF OldKept, FoundOrAside
<1>9. ASSUME op[p].next = "restored", UNCHANGED <<db, wal, release>>
      PROVE  Sound' /\ Visible'.data = op[p].chosen /\ Visible'.schema = release
  <2>1. db # Null /\ wal = Null /\ db.data = op[p].chosen /\ db.schema = release /\ db.sound
    BY <1>0, <1>9 DEF NewComes
  <2> QED
    BY <1>9, <2>1 DEF Sound, Visible
<1>10. ASSUME op[p].at \in {"read_schema", "migrate"}
       PROVE  op[p].next \in {"active", "replaced", "restored"}
  <2>1. op[p].next \notin {"serve", "migrated", "deleted", Null}
    BY <1>0, <1>10, NullIsNoWord DEF Ordered, Coherent
  <2> QED
    BY <1>0, <2>1 DEF JInv, IInv, ControlOK, OpsOK, Coherents, Operations, CatalogStatuses
<1>2. CASE CreateStep(p)
  <2>1. ~Snapshot(p)
    BY <1>0, SnapshotEdge, IdleFields
  <2>2. ~Describe(p) /\ ~VerifyBackup(p)
    <3>1. ASSUME op' = [op EXCEPT ![p] = RecordCatalog(p, "active")]
          PROVE  FALSE
      BY <1>0, <3>1, CatalogEdge, IdleFields
    <3> QED
      BY <3>1 DEF Describe, VerifyBackup
  <2>3. op[p].at = "describe" /\ UNCHANGED <<db, wal>>
    BY <1>2, <2>1, <2>2 DEF CreateStep, Discard, At, files
  <2> QED
    BY <1>1, <2>3
<1>3. CASE PruneStep(p)
  <2>1. op[p].at \in {"list", "remove", "remove_file"}
    BY <1>3 DEF PruneStep, List, RemoveSidecar, RemoveFile, Pruned, At
  <2> QED
    BY <1>0, <2>1 DEF Coherent
<1>4. CASE MigrateStep(p)
  <2>1. ~ReadSchema(p) /\ ~ApplyMigration(p)
    BY <1>0, MigrateEdges, IdleFields
  <2>2. /\ Migrated(p) \/ MigrationFails(p)
        /\ op[p].at \in {"read_schema", "migrate"} /\ UNCHANGED <<db, wal, release>>
    BY <1>0, <1>4, <2>1, MigratedEdge DEF MigrateStep, environment
  <2>3. op[p].next # "replaced"
    <3>1. op[p].next = "replaced" => Then(p, "final") \/ Then(p, "undo")
      BY <2>2 DEF Migrated, MigrationFails, CatalogStatuses
    <3> QED
      BY <1>0, <3>1, ThenEdge, IdleFields
  <2>4. op[p].next # "active"
    <3>1. op[p].next = "active" => GoOn(p)
      BY <2>2 DEF Migrated, MigrationFails, CatalogStatuses
    <3>2. op[p].next = "active" => Then(p, "checkpoint")
      BY <3>1 DEF GoOn
    <3> QED
      BY <1>0, <3>2, ThenEdge, IdleFields
  <2> QED
    BY <1>9, <1>10, <2>2, <2>3, <2>4
<1>5. CASE RestoreStep(p)
  <2>1. ASSUME NEW step, Go(p, step)
        PROVE  step = "idle"
    BY <1>0, <2>1, GoEdge, IdleFields
  <2>2. ~Check(p)
    BY <1>0, CheckEdge, IdleFields
  <2>3. ~Checkpoint(p)
    BY <1>0, CheckpointEdge, IdleFields
  <2>4. ~Copy(p) /\ ~MoveAside(p) /\ ~Replace(p) /\ ~Drop(p)
    BY <2>1 DEF Copy, MoveAside, Replace, Drop
  <2>5. ~RemoveLog(p)
    BY <1>0, RemoveLogEdge, IdleFields
  <2>6. ~Finish(p)
    <3>1. ASSUME op' = [op EXCEPT ![p] = RecordCatalog(p, "restored")]
          PROVE  FALSE
      BY <1>0, <3>1, CatalogEdge, IdleFields
    <3> QED
      BY <3>1 DEF Finish
  <2>7. CASE Undo(p)
    <3>1. op[p].at = "undo" /\ UNCHANGED <<db, wal>> /\ previous = Null
      BY <2>1, <2>7 DEF Undo, At
    <3>2. op[p].next = Null /\ Visible' = Visible
      BY <1>0, <3>1 DEF Ordered, Visible
    <3> QED
      BY <1>0, <3>1, <3>2 DEF OldKept, FoundOrAside
  <2>8. CASE PutBack(p)
    <3>1. op[p].at = "put_back" /\ db' = previous /\ wal' = wal
      BY <2>8 DEF PutBack, At
    <3>2. op[p].next = Null
      BY <1>0, <3>1 DEF Ordered
    <3>3. op[p].flushed /\ op[p].before # Null =>
            wal = Null /\ previous # Null /\ previous.data = op[p].before
      BY <1>0, <3>1 DEF OldKept, PastFlush
    <3> QED
      BY <1>0, <3>1, <3>2, <3>3 DEF Visible, FoundOrAside
  <2> QED
    BY <1>5, <2>2, <2>3, <2>4, <2>5, <2>6, <2>7, <2>8 DEF RestoreStep
<1>6. CASE Fails(p)
  <2>1. /\ UNCHANGED <<db, wal>>
        /\ op[p].at \in {"snapshot", "describe", "verify", "list", "remove",
                         "remove_file", "check", "copy"}
    BY <1>0, <1>6, FailsEdge, IdleFields DEF files
  <2>2. op[p].at \notin {"verify", "list", "remove", "remove_file"}
    BY <1>0 DEF Ordered, Coherent
  <2> QED
    BY <1>1, <2>1, <2>2
<1>7. CASE Cut(p)
  <2>1. /\ UNCHANGED <<db, wal, previous, release>> /\ Visible' = Visible
        /\ incidents' # incidents
    BY <1>0, <1>7, CutEdge DEF Visible, JInv, IInv, DataOK, RestOK
  <2>2. CASE op[p].next = "restored"
    BY <1>9, <2>1, <2>2
  <2>3. ASSUME op[p].next # "restored", op[p].before # Null, op[p].flushed
        PROVE  FoundOrAside(p)
    <3>1. \/ op[p].at \in {"read_schema", "migrate"}
          \/ op[p].at \in {"snapshot", "describe"} \cup RestoreAts
      <4>1. op[p].at \notin {"verify", "list", "remove", "remove_file"}
        BY <1>0 DEF Ordered, Coherent
      <4> QED
        BY <1>0, <4>1
        DEF RestoreAts, JInv, IInv, ControlOK, OpsOK, Coherents, Operations, Ats
    <3>2. op[p].at # "check"
      BY <1>0, <2>3 DEF Ordered
    <3>3. \/ db # Null /\ Visible.data = op[p].before
          \/ previous # Null /\ previous.data = op[p].before
      BY <1>0, <1>10, <2>3, <3>1, <3>2 DEF OldKept, RestoreAts
    <3> QED
      BY <2>1, <3>3 DEF FoundOrAside
  <2> QED
    BY <2>2, <2>3
<1>8. ~Acquire(p) /\ ~UnlinkStaleLock(p) /\ ~CreateLock(p) /\ ~BeginMigrate(p)
      /\ ~(p = Service /\ Start)
  BY <1>0, IdleFields
  DEF Acquire, MayBegin, UnlinkStaleLock, CreateLock, BeginMigrate, Start, Offline, At
<1> QED
  BY <1>2, <1>3, <1>4, <1>5, <1>6, <1>7, <1>8 DEF ProcessStep

\* The end of a restore is no end for its safety backup.
LEMMA EndsSafely ==
    ASSUME JInv, NEW p \in Processes, ProcessStep(p), ~raced,
           op[p].kind = "restore", Holds(p), op'[p] = Idle, op[p].before # Null,
           op[p].at \notin {"check", "snapshot", "describe"}
    PROVE  SafetyLeft(p)
<1>1. op[p].at \notin {"idle", "unlink", "relock", "list", "remove", "remove_file"}
  BY IdleFields, NullIsNoWord DEF Holds, JInv, IInv, ControlOK, OpsOK, Coherents, Coherent
<1>2. Safe(op[p]) /\ backup[made].content.data = op[p].before
  BY <1>1 DEF JInv, SafetyOK, SafetyKept
<1>3. backup' = backup
  BY <1>1
  DEF ProcessStep, CreateStep, PruneStep, MigrateStep, RestoreStep, Acquire, UnlinkStaleLock,
      CreateLock, Snapshot, Describe, Discard, VerifyBackup, List, RemoveSidecar, RemoveFile,
      Pruned, ReadSchema, ApplyMigration, Migrated, MigrationFails, Check, Checkpoint, Copy,
      MoveAside, Replace, RemoveLog, Finish, Undo, Drop, PutBack, BeginMigrate, Fails, Cut,
      CutShort, Crash, Start, At
<1> QED
  BY <1>2, <1>3 DEF SafetyLeft, Safe, Good

(***************************************************************************)
(* A restore that returns has put the chosen backup in place, whole and    *)
(* with the schema of this release; one that raises, at whatever file      *)
(* operation, has left or put back the data it found, or a call of its     *)
(* except clause has raised, an interrupt has left the clause out or the   *)
(* process has crashed, and then the data is there or in the file put      *)
(* aside; but for restores whose checkpoint had failed.  However it ends,  *)
(* with or without a checkpoint, the safety backup it has made is there    *)
(* and holds that data (restore_backup and its except clause).             *)
(***************************************************************************)
THEOREM RestoresAreAllOrNothing == Spec => RestoreIsAllOrNothing
<1> DEFINE Ended(p) ==
             IF op[p].next = "restored"
             THEN Sound' /\ Visible'.data = op[p].chosen /\ Visible'.schema = release
             ELSE op[p].before # Null =>
                    /\ op[p].flushed => \/ Visible'.data = op[p].before
                                       \/ /\ incidents' # incidents
                                          /\ previous' # Null
                                          /\ previous'.data = op[p].before
                    /\ op[p].at \notin {"check", "snapshot", "describe"} =>
                          LET safety == backup'[op[p].new]
                          IN  /\ safety # Null /\ safety.described
                              /\ safety.content.data = op[p].before
           Ends == \A p \in Processes :
             /\ op[p].kind = "restore" /\ Holds(p) /\ op'[p] = Idle
             /\ ~raced
             => Ended(p)
<1>1. ASSUME JInv, [Next]_vars PROVE [Ends]_vars
  <2> SUFFICES ASSUME NEW p \in Processes, op[p].kind = "restore", Holds(p),
                      op'[p] = Idle, ~raced
               PROVE  Ended(p)
    OBVIOUS
  <2>1. ~WorldStep
    BY WorldKeepsOps, IdleFields, NullIsNoWord
  <2>2. PICK r \in Processes : ProcessStep(r)
    BY <1>1, <2>1, Steps
  <2>3. r = p
    BY <1>1, <2>2, NobodyBeside DEF JInv
  <2>4. IF op[p].next = "restored"
        THEN Sound' /\ Visible'.data = op[p].chosen /\ Visible'.schema = release
        ELSE op[p].before # Null /\ op[p].flushed => FoundOrAside(p)
    BY <1>1, <2>2, <2>3, RestoreEnds
  <2>5. op[p].before # Null /\ op[p].at \notin {"check", "snapshot", "describe"} => SafetyLeft(p)
    BY <1>1, <2>2, <2>3, EndsSafely
  <2> QED
    BY <2>4, <2>5 DEF FoundOrAside, SafetyLeft
<1>2. Spec => [][Ends]_vars
  BY <1>1, AlwaysSo, PTL DEF Spec
<1> QED
  BY <1>2 DEF RestoreIsAllOrNothing

(***************************************************************************)
(* Retention never takes the backup that create_backup is about to return, *)
(* whatever crashed attempts and copies without a sidecar have left        *)
(* behind.                                                                 *)
(***************************************************************************)
THEOREM PruningSparesTheNewBackup == Spec => NewBackupSurvives
<1> DEFINE Spared == \A p \in Processes :
             Pruned(p) /\ op[p].kind = "create" /\ ~raced =>
                backup[op[p].new] # Null /\ backup[op[p].new].described
<1>1. JInv => Spared
  <2> SUFFICES ASSUME JInv, NEW p \in Processes, Pruned(p), op[p].kind = "create", ~raced
               PROVE  backup[op[p].new] # Null /\ backup[op[p].new].described
    OBVIOUS
  <2>1. op[p].at \in {"list", "remove"} /\ Kept(op[p])
    BY DEF Pruned, At, JInv, KeptOK
  <2> QED
    BY <2>1 DEF Kept, Safe, Good
<1>2. Spec => [][Spared]_vars
  BY <1>1, AlwaysSo, PTL
<1> QED
  BY <1>2 DEF NewBackupSurvives

=============================================================================
