--------------------------- MODULE BackupCatalog ---------------------------
(***************************************************************************)
(* The catalog of PostgreSQL backups in a storage and the commands that    *)
(* change it: backup-push (full, delta, permanent), backup-mark, and       *)
(* delete before / retain / target / everything.                           *)
(*                                                                         *)
(* A wal-g command is a process that reads the storage, decides, and then  *)
(* changes the storage object by object; it may die between any two steps. *)
(* Two commands may run at a time: one backup-push (started by cron on the *)
(* database host) and one administrative command.  The steps of the two    *)
(* interleave.                                                             *)
(*                                                                         *)
(* A backup is named by its place in the (timeline, segment) order of      *)
(* backup names, which is also the order in which backups were started and *)
(* the order delete compares objects in.                                   *)
(***************************************************************************)
EXTENDS Integers, FiniteSets

CONSTANTS
    MaxBackups,     \* bound on the number of backups ever started
    MaxDeltas,      \* WALG_DELTA_MAX_STEPS
    MaxRetain,      \* bound on the number given to "delete retain"
    Selectors,      \* ways to choose the base of a delta: "LATEST", "NAME"
    AdminCommands,  \* the administrative commands that are run
    Overlapping,    \* those of them run while a backup-push is in progress
    Crashable,      \* those of them that may die half-way
    FetchMayFail    \* a read of metadata.json may fail in delete

Backup == 1 .. MaxBackups
None == 0           \* IncrementFrom = nil; also "no backup"

Kinds == {"sentinel", "meta", "data", "wal"}
Objects == Kinds \X Backup

DeleteCommands == {"before", "retain", "target", "everything"}
Commands == DeleteCommands \cup {"mark", "unmark"}
Modifiers == {"NO", "FULL", "FIND_FULL"}

ASSUME BoundsAssumption ==
    MaxBackups \in Nat /\ MaxDeltas \in Nat /\ MaxRetain \in Nat

ASSUME CommandsAssumption ==
    /\ Selectors \subseteq {"LATEST", "NAME"}
    /\ AdminCommands \subseteq Commands
    /\ FetchMayFail \in BOOLEAN

VARIABLES
    stored,     \* the objects present in the storage
    permanent,  \* backups whose metadata.json says is_permanent
    from,       \* DeltaFrom of a sentinel (None for a full backup)
    full,       \* DeltaFullName of a sentinel
    count,      \* DeltaCount of a sentinel
    started,    \* number of backups started so far
    push,       \* the backup-push process
    admin,      \* the administrative process
    doomed      \* history: backups some delete command has chosen

vars == <<stored, permanent, from, full, count, started, push, admin, doomed>>

IdlePush == [pc |-> "idle", perm |-> FALSE, prev |-> None, cnt |-> 0, todo |-> {}]

IdleAdmin == [pc |-> "idle", cmd |-> "none", keep |-> {}, todo |-> {}, objs |-> {},
              floor |-> 0]

Has(kind, b) == <<kind, b>> \in stored

\* GetBackups, GetBackupSentinelObjects: a backup is visible by its sentinel.
Visible == {b \in Backup : Has("sentinel", b)}

IsFull(b) == from[b] = None

\* The backup being made by the backup-push in progress.
Cur == started

-----------------------------------------------------------------------------
(* Graphs of backups *)

\* The smallest set that holds b and is closed under the edges.
Reach(b, edges) ==
    {a \in Backup : \A S \in SUBSET Backup :
        (b \in S /\ \A e \in edges : e[1] \in S => e[2] \in S) => a \in S}

\* The increment chain of b, itself included.
Ancestors(b) == Reach(b, {<<x, from[x]>> : x \in {y \in Backup : ~IsFull(y)}})

\* Mutant: only the direct increments.
FindDirectIncrements(b) == {b} \cup {x \in Visible : from[x] = b}

\* findDependantBackups: breadth first over the listed increments.
FindDependantBackups(b) ==
    Reach(b, {<<from[x], x>> : x \in {y \in Visible : ~IsFull(y)}})

\* findRelatedBackups: everything with the same base backup as the target.
FindRelatedBackups(b) ==
    LET base == IF IsFull(b) THEN b ELSE full[b]
    IN  {x \in Visible : x = base \/ (~IsFull(x) /\ full[x] = base)}

-----------------------------------------------------------------------------
(* backup-mark *)

\* getBackupsToMarkPermanent walks the chain to its full backup; every backup of
\* it needs its metadata and its sentinel, or the command dies.
CanMarkPermanent(b) == \A a \in Ancestors(b) : Has("meta", a) /\ Has("sentinel", a)

GetBackupsToMarkPermanent(b) == Ancestors(b) \ permanent

\* GetPermanentBackups: only what is visible and readable.
PermanentBackups == {b \in Visible : Has("meta", b) /\ b \in permanent}

\* backupHasPermanentInFuture looks at the direct increments of b only.
BackupHasPermanentInFuture(b) ==
    \E c \in PermanentBackups \ {b} : from[c] = b

\* getGraphFromBaseToIncrement fails when one visible backup has no metadata.
CanMarkImpermanent(b) ==
    /\ Has("meta", b)
    /\ Visible # {}
    /\ \A c \in Visible : Has("meta", c)
    /\ ~BackupHasPermanentInFuture(b)

GetBackupsToMarkImpermanent(b) == {b} \cap permanent

\* Mutant: the chain is written in no particular order.
NextToMarkAnyOrder(todo) == todo

\* MarkBackup writes the chain from the full backup on: next comes the one whose
\* own base is not waiting any more.
NextToMark(todo) == {b \in todo : from[b] \notin todo}

-----------------------------------------------------------------------------
(* Selection of a deletion target *)

\* The position of b when the list is sorted from the newest to the oldest.
Newer(b, list) == {c \in list : c >= b}

\* findTarget: the newest backup of the list for which isTarget holds.
FindTarget(list, isTarget) ==
    {b \in list : isTarget[b] /\ \A c \in list : c > b => ~isTarget[c]}

\* getBeforeChoiceFunc
BeforeChoice(name, modifier) ==
    [b \in Backup |->
        CASE modifier = "NO" -> b = name
          [] modifier = "FIND_FULL" -> name \in Visible /\ b <= name /\ IsFull(b)
          [] OTHER -> FALSE]

\* Mutant: the backup looked at is counted once more.
RetainChoiceCountsTwice(n, modifier) ==
    [b \in Backup |->
        LET seen == Newer(b, Visible) IN
        CASE modifier = "NO" -> Cardinality(seen) + 1 = n
          [] modifier = "FULL" -> Cardinality({c \in seen : IsFull(c)}) + 1 = n
          [] modifier = "FIND_FULL" -> Cardinality(seen) + 1 >= n /\ IsFull(b)]

\* getRetainChoiceFunc
RetainChoice(n, modifier) ==
    [b \in Backup |->
        LET seen == Newer(b, Visible) IN
        CASE modifier = "NO" -> Cardinality(seen) = n
          [] modifier = "FULL" -> Cardinality({c \in seen : IsFull(c)}) = n
          [] modifier = "FIND_FULL" -> Cardinality(seen) >= n /\ IsFull(b)]

\* Mutant: the WAL of a permanent backup is not recognised.
IsPermanentBackupOnly(folder, o, keep) ==
    folder = "root" /\ o[1] # "wal" /\ o[2] \in keep

\* postgres.IsPermanent recognises an object by its path from the storage root;
\* inside a sub folder names are relative and nothing is recognised.
IsPermanent(folder, o, keep) == folder = "root" /\ o[2] \in keep

\* Mutant: the target itself is deleted as well.
ObjectsUpTo(target, keep) ==
    {o \in stored : o[2] <= target /\ ~IsPermanent("root", o, keep)}

\* The objects DeleteBeforeTarget passes to the storage.
ObjectsBefore(target, keep) ==
    {o \in stored : o[2] < target /\ ~IsPermanent("root", o, keep)}

\* The objects DeleteTargets passes to the storage.
ObjectsOf(targets, keep) ==
    {o \in stored : /\ o[1] # "wal"
                    /\ o[2] \in targets
                    /\ ~IsPermanent("basebackups", o, keep)}

-----------------------------------------------------------------------------
(* backup-push *)

\* Mutant: the count of the base is compared instead of that of the new backup.
ConfigureDeltaOffByOne(b, perm, fromFull) ==
    IF \/ count[b] > MaxDeltas
       \/ ~Has("meta", b)
       \/ ~perm /\ ~fromFull /\ b \in permanent
    THEN None
    ELSE IF fromFull /\ ~IsFull(b) THEN full[b] ELSE b

\* configureDeltaBackup once the selector has chosen b: the base of the new
\* backup, or None for a full one.
ConfigureDelta(b, perm, fromFull) ==
    IF \/ count[b] + 1 > MaxDeltas
       \/ ~Has("meta", b)
       \/ ~perm /\ ~fromFull /\ b \in permanent
    THEN None
    ELSE IF fromFull /\ ~IsFull(b) THEN full[b] ELSE b

\* The backups the selector can return: the newest one, or the one named.
Selected(selector) ==
    {b \in Visible : selector = "LATEST" => \A c \in Visible : c <= b}

\* A backup takes longer than delete's two reads of the catalog: one that starts
\* in between is not part of what the second read finds.
MayOverlap == admin.pc # "idle" => admin.cmd \in Overlapping /\ admin.pc # "read"

CanPush == push.pc = "idle" /\ started < MaxBackups /\ MayOverlap

\* Mutant: the upload begins before startBackup has given the backup its name.
BeginUnnamedPush(perm, prev, cnt) ==
    /\ push' = [pc |-> "upload", perm |-> perm, prev |-> prev, cnt |-> cnt, todo |-> {}]
    /\ UNCHANGED <<stored, permanent, from, full, count, started, admin, doomed>>

BeginPush(perm, prev, cnt) ==
    /\ push' = [pc |-> "start", perm |-> perm, prev |-> prev, cnt |-> cnt, todo |-> {}]
    /\ UNCHANGED <<stored, permanent, from, full, count, started, admin, doomed>>

\* HandleBackupPush with --full, without deltas configured, or with no backup yet.
HandleFullBackupPush(perm) == CanPush /\ BeginPush(perm, None, 0)

\* HandleBackupPush through configureDeltaBackup.
HandleDeltaBackupPush(perm, selector, fromFull) ==
    /\ CanPush
    /\ \E b \in Selected(selector) :
         LET prev == ConfigureDelta(b, perm, fromFull) IN
         /\ prev # None => Has("sentinel", prev)
         /\ BeginPush(perm, prev, IF prev = None THEN 0 ELSE count[b] + 1)

\* startBackup and handleDeltaBackup fix the name of the new backup.
StartBackup ==
    /\ push.pc = "start"
    /\ started' = started + 1
    /\ push' = [push EXCEPT !.pc = "upload"]
    /\ UNCHANGED <<stored, permanent, from, full, count, admin, doomed>>

\* uploadBackup: all parts are in the storage, and pg_stop_backup has waited
\* for the WAL of the backup to be archived.
UploadBackup ==
    /\ push.pc = "upload"
    /\ stored' = stored \cup {<<"data", Cur>>, <<"wal", Cur>>}
    /\ push' = [push EXCEPT !.pc = "mark"]
    /\ UNCHANGED <<permanent, from, full, count, started, admin, doomed>>

\* markBackups: a permanent delta first makes its whole chain permanent.
MarkBackups ==
    /\ push.pc = "mark"
    /\ IF push.perm /\ push.prev # None
         THEN IF CanMarkPermanent(push.prev)
                THEN push' = [push EXCEPT !.pc = "marking",
                                          !.todo = GetBackupsToMarkPermanent(push.prev)]
                ELSE push' = IdlePush
         ELSE push' = [push EXCEPT !.pc = "meta"]
    /\ UNCHANGED <<stored, permanent, from, full, count, started, admin, doomed>>

PushSetIsPermanent ==
    /\ push.pc = "marking"
    /\ \/ /\ push.todo = {}
          /\ push' = [push EXCEPT !.pc = "meta"]
          /\ UNCHANGED permanent
       \/ \E b \in NextToMark(push.todo) :
            IF Has("meta", b)
              THEN /\ permanent' = permanent \cup {b}
                   /\ push' = [push EXCEPT !.todo = @ \ {b}]
              ELSE push' = IdlePush /\ UNCHANGED permanent
    /\ UNCHANGED <<stored, from, full, count, started, admin, doomed>>

\* uploadExtendedMetadata
UploadExtendedMetadata ==
    /\ push.pc = "meta"
    /\ stored' = stored \cup {<<"meta", Cur>>}
    /\ permanent' = IF push.perm THEN permanent \cup {Cur} ELSE permanent
    /\ push' = [push EXCEPT !.pc = "sentinel"]
    /\ UNCHANGED <<from, full, count, started, admin, doomed>>

\* Mutant: DeltaFullName is the base of the increment.
UploadSentinelFullIsBase ==
    /\ push.pc = "sentinel"
    /\ stored' = stored \cup {<<"sentinel", Cur>>}
    /\ from' = [from EXCEPT ![Cur] = push.prev]
    /\ full' = [full EXCEPT ![Cur] = push.prev]
    /\ count' = [count EXCEPT ![Cur] = push.cnt]
    /\ push' = IdlePush
    /\ UNCHANGED <<permanent, started, admin, doomed>>

\* NewBackupSentinelDto and UploadSentinel: the backup becomes visible.
UploadSentinel ==
    /\ push.pc = "sentinel"
    /\ stored' = stored \cup {<<"sentinel", Cur>>}
    /\ from' = [from EXCEPT ![Cur] = push.prev]
    /\ full' = [full EXCEPT ![Cur] =
                  IF push.prev = None THEN None
                  ELSE IF IsFull(push.prev) THEN push.prev ELSE full[push.prev]]
    /\ count' = [count EXCEPT ![Cur] = push.cnt]
    /\ push' = IdlePush
    /\ UNCHANGED <<permanent, started, admin, doomed>>

PushCrash ==
    /\ push.pc # "idle"
    /\ push' = IdlePush
    /\ UNCHANGED <<stored, permanent, from, full, count, started, admin, doomed>>

-----------------------------------------------------------------------------
(* backup-mark, as a command of its own *)

CanStart(cmd) ==
    /\ cmd \in AdminCommands
    /\ admin.pc = "idle"
    /\ push.pc # "idle" => cmd \in Overlapping

MarkPermanent(b) ==
    /\ CanStart("mark")
    /\ Has("meta", b)
    /\ CanMarkPermanent(b)
    /\ admin' = [IdleAdmin EXCEPT !.pc = "marking", !.cmd = "mark",
                                  !.todo = GetBackupsToMarkPermanent(b)]
    /\ UNCHANGED <<stored, permanent, from, full, count, started, push, doomed>>

MarkImpermanent(b) ==
    /\ CanStart("unmark")
    /\ CanMarkImpermanent(b)
    /\ admin' = [IdleAdmin EXCEPT !.pc = "marking", !.cmd = "unmark",
                                  !.todo = GetBackupsToMarkImpermanent(b)]
    /\ UNCHANGED <<stored, permanent, from, full, count, started, push, doomed>>

AdminSetIsPermanent ==
    /\ admin.pc = "marking"
    /\ \/ /\ admin.todo = {}
          /\ admin' = IdleAdmin
          /\ UNCHANGED permanent
       \/ \E b \in NextToMark(admin.todo) :
            IF Has("meta", b)
              THEN /\ permanent' = IF admin.cmd = "mark" THEN permanent \cup {b}
                                                         ELSE permanent \ {b}
                   /\ admin' = [admin EXCEPT !.todo = @ \ {b}]
              ELSE admin' = IdleAdmin /\ UNCHANGED permanent
    /\ UNCHANGED <<stored, from, full, count, started, push, doomed>>

-----------------------------------------------------------------------------
(* delete *)

\* GetPermanentBackupsAndWals runs first.  A metadata.json that cannot be read
\* is logged and skipped.
RunDelete(cmd) ==
    /\ CanStart(cmd)
    /\ \E keep \in SUBSET PermanentBackups :
         /\ FetchMayFail \/ keep = PermanentBackups
         /\ admin' = [IdleAdmin EXCEPT !.pc = "read", !.cmd = cmd, !.keep = keep]
    /\ UNCHANGED <<stored, permanent, from, full, count, started, push, doomed>>

\* DeleteObjectsWhere lists what the filter accepts and deletes it, in an order
\* that is the storage's own.
DeleteObjectsWhere(objs, floor) ==
    /\ admin' = [admin EXCEPT !.pc = "deleting", !.objs = objs, !.floor = floor]
    /\ doomed' = doomed \cup {o[2] : o \in {x \in objs : x[1] # "wal"}}

\* DeleteBeforeTarget refuses an increment; no target at all ends the command.
DeleteBeforeTarget(targets, floor) ==
    \/ \E t \in targets :
         IF IsFull(t)
           THEN DeleteObjectsWhere(ObjectsBefore(t, admin.keep), floor)
           ELSE admin' = IdleAdmin /\ UNCHANGED doomed
    \/ /\ targets = {}
       /\ admin' = IdleAdmin
       /\ UNCHANGED doomed

HandleDeleteBefore(name, modifier) ==
    /\ admin.pc = "read" /\ admin.cmd = "before"
    /\ DeleteBeforeTarget(FindTarget(Visible, BeforeChoice(name, modifier)), 0)
    /\ UNCHANGED <<stored, permanent, from, full, count, started, push>>

\* floor: how many backups (full ones, with FULL) the command promises to keep.
HandleDeleteRetain(n, modifier) ==
    /\ admin.pc = "read" /\ admin.cmd = "retain"
    /\ DeleteBeforeTarget(FindTarget(Visible, RetainChoice(n, modifier)), n)
    /\ UNCHANGED <<stored, permanent, from, full, count, started, push>>

HandleDeleteTarget(name, findFull) ==
    /\ admin.pc = "read" /\ admin.cmd = "target"
    /\ IF name \in Visible
         THEN LET targets == IF findFull THEN FindRelatedBackups(name)
                                         ELSE FindDependantBackups(name)
              IN  IF \E t \in targets :
                        IsPermanent("basebackups", <<"sentinel", t>>, admin.keep)
                    THEN admin' = IdleAdmin /\ UNCHANGED doomed
                    ELSE DeleteObjectsWhere(ObjectsOf(targets, admin.keep), 0)
         ELSE admin' = IdleAdmin /\ UNCHANGED doomed
    /\ UNCHANGED <<stored, permanent, from, full, count, started, push>>

HandleDeleteEverything(force) ==
    /\ admin.pc = "read" /\ admin.cmd = "everything"
    /\ IF admin.keep # {} /\ ~force
         THEN admin' = IdleAdmin /\ UNCHANGED doomed
         ELSE DeleteObjectsWhere(stored, 0)
    /\ UNCHANGED <<stored, permanent, from, full, count, started, push>>

\* storage.Folder.DeleteObjects, one object at a time.
DeleteObject ==
    /\ admin.pc = "deleting"
    /\ \/ /\ admin.objs = {}
          /\ admin' = IdleAdmin
          /\ UNCHANGED <<stored, permanent>>
       \/ \E o \in admin.objs :
            /\ stored' = stored \ {o}
            /\ permanent' = IF o[1] = "meta" THEN permanent \ {o[2]} ELSE permanent
            /\ admin' = [admin EXCEPT !.objs = @ \ {o}]
    /\ UNCHANGED <<from, full, count, started, push, doomed>>

AdminCrash ==
    /\ admin.pc # "idle"
    /\ admin.cmd \in Crashable
    /\ admin' = IdleAdmin
    /\ UNCHANGED <<stored, permanent, from, full, count, started, push, doomed>>

-----------------------------------------------------------------------------
Init ==
    /\ stored = {}
    /\ permanent = {}
    /\ from = [b \in Backup |-> None]
    /\ full = [b \in Backup |-> None]
    /\ count = [b \in Backup |-> 0]
    /\ started = 0
    /\ push = IdlePush
    /\ admin = IdleAdmin
    /\ doomed = {}

Next ==
    \/ \E perm \in BOOLEAN : HandleFullBackupPush(perm)
    \/ \E perm \in BOOLEAN, selector \in Selectors, fromFull \in BOOLEAN :
          HandleDeltaBackupPush(perm, selector, fromFull)
    \/ StartBackup
    \/ UploadBackup
    \/ MarkBackups
    \/ PushSetIsPermanent
    \/ UploadExtendedMetadata
    \/ UploadSentinel
    \/ PushCrash
    \/ \E b \in Backup : MarkPermanent(b)
    \/ \E b \in Backup : MarkImpermanent(b)
    \/ AdminSetIsPermanent
    \/ \E cmd \in DeleteCommands : RunDelete(cmd)
    \/ \E b \in Backup, m \in {"NO", "FIND_FULL"} : HandleDeleteBefore(b, m)
    \/ \E n \in 0 .. MaxRetain, m \in Modifiers : HandleDeleteRetain(n, m)
    \/ \E b \in Backup, findFull \in BOOLEAN : HandleDeleteTarget(b, findFull)
    \/ \E force \in BOOLEAN : HandleDeleteEverything(force)
    \/ DeleteObject
    \/ AdminCrash

Spec == Init /\ [][Next]_vars

-----------------------------------------------------------------------------
(* Properties *)

PushStates ==
    [pc : {"idle", "start", "upload", "mark", "marking", "meta", "sentinel"},
     perm : BOOLEAN, prev : Backup \cup {None}, cnt : Nat, todo : SUBSET Backup]

AdminStates ==
    [pc : {"idle", "read", "marking", "deleting"}, cmd : Commands \cup {"none"},
     keep : SUBSET Backup, todo : SUBSET Backup, objs : SUBSET Objects, floor : Nat]

\* The types of the storage, of the sentinels' fields and of the two processes.
TypeOK ==
    /\ stored \subseteq Objects
    /\ permanent \subseteq Backup
    /\ from \in [Backup -> Backup \cup {None}]
    /\ full \in [Backup -> Backup \cup {None}]
    /\ count \in [Backup -> Nat]
    /\ started \in 0 .. MaxBackups
    /\ push \in PushStates
    /\ admin \in AdminStates
    /\ doomed \subseteq Backup

\* The backups no delete command has chosen.
Retained == Visible \ doomed

\* A retained permanent delta is based on a permanent backup, whatever
\* combination of backup-push --permanent, backup-mark and delete ran, also when
\* one of them died half-way.  It is what makes the look at direct increments in
\* backupHasPermanentInFuture enough.
PermanentClosed ==
    \A b \in Retained \cap permanent :
        ~IsFull(b) => Has("meta", from[b]) /\ from[b] \in permanent

\* Every backup that is still listed and that nobody asked to delete can be
\* fetched: the sentinel and the parts of its whole increment chain and its own
\* WAL are there (deltaFetchRecursion needs all of them).
Restorable ==
    \A b \in Retained :
        /\ Has("wal", b)
        /\ \A a \in Ancestors(b) : Has("sentinel", a) /\ Has("data", a)

\* delete before and delete retain remove no object of a listed permanent backup,
\* not even when a backup-push in progress makes it permanent after
\* GetPermanentBackupsAndWals has read it.
RetentionSparesPermanent ==
    [][\A o \in stored \ stored' :
         o[2] \in PermanentBackups => admin.cmd \in {"target", "everything"}]_vars

\* docs/README.md on delete: "Backups marked as permanent will not be deleted."
\* Only "everything FORCE" is said to delete them.
PermanentNeverDeleted ==
    [][\A o \in stored \ stored' :
         o[2] \in PermanentBackups => admin.cmd = "everything"]_vars

\* docs/README.md on delete before without FIND_FULL: "If FIND_FULL is not
\* specified, and call can produce orphaned deltas, the call will fail".  No listed
\* delta that delete did not choose has lost a backup of its chain.
NoOrphanedDeltas ==
    \A b \in Retained : \A a \in Ancestors(b) : Has("sentinel", a)

\* The DeltaFullName of a sentinel, by which delete target FIND_FULL groups the
\* backups, is the full backup at the root of the increment chain; and no restore
\* applies more than WALG_DELTA_MAX_STEPS increments, whichever way origins LATEST and
\* LATEST_FULL were mixed.
DeltaChainsSound ==
    \A b \in Retained :
        /\ ~IsFull(b) => full[b] \in Ancestors(b) /\ IsFull(full[b])
        /\ Cardinality(Ancestors(b)) - 1 <= MaxDeltas

\* delete retain leaves at least as many backups as it was asked to keep.
RetainKeepsEnough ==
    admin.cmd = "retain" /\ admin.pc = "deleting" =>
        Cardinality({b \in Visible : \A o \in admin.objs : o[2] # b}) >= admin.floor
=============================================================================
