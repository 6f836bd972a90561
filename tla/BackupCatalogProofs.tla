------------------------ MODULE BackupCatalogProofs ------------------------
(***************************************************************************)
(* Proofs about BackupCatalog, for any number of backups and any           *)
(* WALG_DELTA_MAX_STEPS.                                                   *)
(***************************************************************************)
EXTENDS BackupCatalog, TLAPS

\* What the operators are assumed to do: deltas are based on the latest backup,
\* only before, retain and mark run beside a backup-push, and the storage
\* answers delete's reads.
ASSUME UsageAssumption ==
    /\ Selectors \subseteq {"LATEST"}
    /\ Overlapping \subseteq {"before", "retain", "mark"}
    /\ FetchMayFail = FALSE

-----------------------------------------------------------------------------
(* The inductive invariant *)

\* t is listed and full: what delete may take as its target.
VisibleFull(t) == t \in Visible /\ IsFull(t)

\* Nothing of a backup that was not started exists, and the backup in progress
\* is not visible and has no sentinel contents yet.
FreshInv ==
    /\ \A o \in stored : o[2] <= started
    /\ \A b \in Backup : from[b] # None => b <= started
    /\ push.pc \in {"upload", "mark", "marking", "meta", "sentinel"} =>
         /\ Cur \in Backup
         /\ Cur \notin Visible
         /\ from[Cur] = None
         /\ push.pc # "sentinel" => ~Has("meta", Cur)

\* The contents of sentinels: bases are older, and DeltaFullName is a full backup.
SentinelInv ==
    \A b \in Backup : from[b] # None =>
        /\ from[b] < b
        /\ full[b] \in Backup /\ full[b] < b /\ IsFull(full[b])
        /\ full[b] = IF IsFull(from[b]) THEN from[b] ELSE full[from[b]]

\* Increments never jump over a full backup that is still listed.
LinearInv ==
    \A b \in Backup, t \in Backup :
        from[b] # None /\ VisibleFull(t) /\ t < b => from[b] >= t /\ full[b] >= t

\* The base of the backup in progress is older than it and not older than any
\* listed full backup.
PushInv ==
    /\ push.pc = "idle" => push.todo = {}
    /\ push.pc = "start" => started < MaxBackups
    /\ push.pc # "idle" /\ push.prev # None =>
         /\ push.prev <= started
         /\ push.pc # "start" => push.prev < Cur
         /\ \A t \in Backup : VisibleFull(t) => push.prev >= t
         /\ from[push.prev] # None =>
              \A t \in Backup : VisibleFull(t) => full[push.prev] >= t

Marked(b) == Has("sentinel", b) /\ Has("meta", b) /\ b \in permanent

\* While a chain is being marked, the base of a waiting backup is waiting too or
\* is permanent already.
MarkableTodo(todo) ==
    \A b \in todo :
        /\ Has("sentinel", b) /\ Has("meta", b)
        /\ from[b] # None => from[b] \in todo \/ Marked(from[b])

PushMarkInv ==
    /\ push.pc = "marking" =>
         /\ push.perm
         /\ push.prev # None
         /\ MarkableTodo(push.todo)
         /\ push.prev \in push.todo \/ Marked(push.prev)
         /\ \A b \in push.todo, t \in Backup : VisibleFull(t) => b >= t
    /\ push.pc \in {"meta", "sentinel"} /\ push.perm /\ push.prev # None =>
         Marked(push.prev)
    /\ push.pc = "sentinel" =>
         /\ Has("meta", Cur)
         /\ Cur \in permanent => push.perm

AdminMarkInv ==
    /\ admin.pc # "idle" /\ push.pc # "idle" => admin.cmd \in Overlapping
    /\ admin.pc = "marking" =>
         /\ admin.objs = {}
         /\ admin.cmd \in {"mark", "unmark"}
         /\ admin.cmd = "mark" => MarkableTodo(admin.todo)
         /\ admin.cmd = "unmark" =>
              \A b \in admin.todo : \A c \in PermanentBackups : from[c] # b

\* What a delete command has read and chosen.
DeleteInv ==
    /\ admin.pc \in {"idle", "read"} => admin.objs = {}
    /\ admin.pc \in {"read", "deleting"} => admin.cmd \in DeleteCommands
    /\ admin.pc = "read" =>
         /\ admin.keep \subseteq Visible
         /\ \A b \in admin.keep \ doomed : from[b] # None => from[b] \in admin.keep
    /\ admin.pc = "deleting" =>
         /\ admin.cmd \in {"before", "retain"} =>
              \E t \in Backup : VisibleFull(t) /\ \A o \in admin.objs : o[2] < t
         /\ \A b \in Retained \cap permanent :
              from[b] # None => \A o \in admin.objs : o[2] # from[b]

\* PermanentClosed, with the sentinel of the base.
PermanentInv ==
    /\ \A b \in permanent : Has("meta", b)
    /\ \A b \in Retained \cap permanent : from[b] # None => Marked(from[b])

IInv ==
    /\ TypeOK
    /\ FreshInv
    /\ SentinelInv
    /\ LinearInv
    /\ PushInv
    /\ PushMarkInv
    /\ AdminMarkInv
    /\ DeleteInv
    /\ PermanentInv

-----------------------------------------------------------------------------
(* Graphs of backups *)

\* Reach holds its origin and is closed under the edges.
LEMMA ReachClosed ==
    ASSUME NEW b \in Backup, NEW edges
    PROVE  /\ b \in Reach(b, edges)
           /\ \A e \in edges :
                e[1] \in Reach(b, edges) /\ e[2] \in Backup => e[2] \in Reach(b, edges)
  BY Zenon DEF Reach

\* Reach is the least such set.
LEMMA ReachLeast ==
    ASSUME NEW b \in Backup, NEW edges, NEW S \in SUBSET Backup,
           b \in S, \A e \in edges : e[1] \in S => e[2] \in S
    PROVE  Reach(b, edges) \subseteq S
  BY Zenon DEF Reach

\* The increment chain of a backup holds it and the base of each of its members.
LEMMA AncestorsClosed ==
    ASSUME TypeOK, NEW b \in Backup
    PROVE  /\ b \in Ancestors(b)
           /\ \A a \in Ancestors(b) : a \in Backup
           /\ \A a \in Ancestors(b) : from[a] # None => from[a] \in Ancestors(b)
<1> DEFINE edges == {<<x, from[x]>> : x \in {y \in Backup : ~IsFull(y)}}
<1>1. Ancestors(b) = Reach(b, edges)
  BY Zenon DEF Ancestors
<1>2. \A a \in Ancestors(b) : a \in Backup
  BY <1>1, Zenon DEF Reach
<1>3. \A a \in Backup : from[a] # None => <<a, from[a]>> \in edges /\ from[a] \in Backup
  BY Zenon DEF IsFull, TypeOK
<1> HIDE DEF edges
<1>4. \A a \in Ancestors(b) : from[a] # None => from[a] \in Ancestors(b)
  BY <1>1, <1>2, <1>3, ReachClosed, Zenon
<1>5. b \in Ancestors(b)
  BY <1>1, ReachClosed, Zenon
<1> QED
  BY <1>2, <1>4, <1>5, Zenon

\* No member of the chain of b is older than a listed full backup that b is not
\* older than.
LEMMA AncestorsAbove ==
    ASSUME TypeOK, LinearInv, NEW b \in Backup, NEW t \in Backup,
           VisibleFull(t), b >= t
    PROVE  \A a \in Ancestors(b) : a >= t
<1> DEFINE S == {x \in Backup : x >= t}
<1> DEFINE edges == {<<x, from[x]>> : x \in {y \in Backup : ~IsFull(y)}}
<1>1. \A x \in Backup : x \in S /\ from[x] # None => from[x] \in S
  <2> SUFFICES ASSUME NEW x \in Backup, x >= t, from[x] # None
               PROVE  from[x] \in Backup /\ from[x] >= t
    OBVIOUS
  <2>1. x # t
    BY Zenon DEF VisibleFull, IsFull
  <2>2. t < x
    BY <2>1 DEF Backup
  <2>3. from[x] \in Backup
    BY Zenon DEF TypeOK
  <2> QED
    BY <2>2, <2>3, Zenon DEF LinearInv
<1>2. \A e \in edges : e[1] \in S => e[2] \in S
  BY <1>1 DEF IsFull
<1>3. b \in S
  OBVIOUS
<1> HIDE DEF S, edges
<1>4. S \in SUBSET Backup
  BY Zenon DEF S
<1>5. Reach(b, edges) \subseteq S
  BY <1>2, <1>3, <1>4, ReachLeast, Zenon
<1> QED
  BY <1>5, Zenon DEF Ancestors, edges, S

\* findDependantBackups returns the target and all listed increments of what it
\* returns.
LEMMA DependantsClosed ==
    ASSUME TypeOK, NEW b \in Backup
    PROVE  \A x \in Visible : from[x] # None /\ from[x] \in FindDependantBackups(b)
                               => x \in FindDependantBackups(b)
<1> DEFINE edges == {<<from[x], x>> : x \in {y \in Visible : ~IsFull(y)}}
<1>1. FindDependantBackups(b) = Reach(b, edges)
  BY Zenon DEF FindDependantBackups
<1>2. \A x \in Visible : from[x] # None => <<from[x], x>> \in edges /\ x \in Backup
  BY Zenon DEF IsFull, Visible
<1> HIDE DEF edges
<1> QED
  BY <1>1, <1>2, ReachClosed, Zenon

-----------------------------------------------------------------------------
(* Type correctness *)

\* Backups are compared as integers.
LEMMA BackupIsInt == \A b \in Backup : b \in Int
  BY BoundsAssumption DEF Backup

\* A backup before t is none that is not before t.
LEMMA Apart ==
    ASSUME NEW x \in Backup, NEW y \in Backup, NEW t \in Backup, x < t, y >= t
    PROVE  x # y
  BY BackupIsInt

\* An empty catalog is well typed.
LEMMA TypeInit == Init => TypeOK
  BY BoundsAssumption
  DEF Init, TypeOK, PushStates, AdminStates, IdlePush, IdleAdmin, Backup, None

\* Idle processes have the right type.
LEMMA IdleType == IdlePush \in PushStates /\ IdleAdmin \in AdminStates
  BY Zenon DEF IdlePush, IdleAdmin, PushStates, AdminStates, None

\* The objects a delete command chooses are objects of the storage.
LEMMA DeleteType ==
    ASSUME TypeOK, NEW objs \in SUBSET stored, NEW floor \in Nat,
           DeleteObjectsWhere(objs, floor)
    PROVE  admin' \in AdminStates /\ doomed' \subseteq Backup
<1>1. objs \subseteq Objects
  BY Zenon DEF TypeOK
<1>2. \A o \in objs : o[2] \in Backup
  BY <1>1, Zenon DEF Objects
<1>3. admin' \in AdminStates
  BY <1>1, Zenon DEF DeleteObjectsWhere, TypeOK, AdminStates
<1>4. doomed' \subseteq Backup
  BY <1>2 DEF DeleteObjectsWhere, TypeOK
<1> QED
  BY <1>3, <1>4, Zenon

\* Every step of every command keeps the types.
LEMMA TypeStep == TypeOK /\ FreshInv /\ PushInv /\ [Next]_vars => TypeOK'
<1> SUFFICES ASSUME TypeOK, FreshInv, PushInv, [Next]_vars PROVE TypeOK'
  OBVIOUS
<1> DEFINE InProgress == push.pc \in {"upload", "mark", "marking", "meta", "sentinel"}
<1>0. InProgress => Cur \in Backup
  BY Zenon DEF FreshInv
<1> USE BoundsAssumption, IdleType
<1>1. ASSUME NEW perm \in BOOLEAN, NEW prev \in Backup \cup {None}, NEW cnt \in Nat,
             BeginPush(perm, prev, cnt)
      PROVE  TypeOK'
  BY <1>1, Zenon DEF BeginPush, PushStates, TypeOK
<1>1a. ASSUME NEW perm \in BOOLEAN, HandleFullBackupPush(perm) PROVE TypeOK'
  BY <1>1, <1>1a, Zenon DEF HandleFullBackupPush
<1>1b. ASSUME NEW perm \in BOOLEAN, NEW selector \in Selectors, NEW fromFull \in BOOLEAN,
              HandleDeltaBackupPush(perm, selector, fromFull)
       PROVE  TypeOK'
  <2>1. PICK b \in Selected(selector) :
          LET prev == ConfigureDelta(b, perm, fromFull) IN
          BeginPush(perm, prev, IF prev = None THEN 0 ELSE count[b] + 1)
    BY <1>1b, Zenon DEF HandleDeltaBackupPush
  <2>2. b \in Backup /\ count[b] + 1 \in Nat
    BY DEF Selected, Visible, TypeOK
  <2>3. ConfigureDelta(b, perm, fromFull) \in Backup \cup {None}
    BY <2>2, Zenon DEF ConfigureDelta, TypeOK
  <2> QED
    BY <1>1, <2>1, <2>2, <2>3, Zenon
<1>2. CASE StartBackup
  <2>1. started' \in 0 .. MaxBackups
    BY <1>2 DEF StartBackup, TypeOK, PushInv
  <2> QED
    BY <1>2, <2>1, Zenon DEF StartBackup, TypeOK, PushStates
<1>3. CASE UploadBackup
  BY <1>0, <1>3 DEF UploadBackup, TypeOK, PushStates, Objects, Kinds
<1>4. CASE MarkBackups
  <2>1. GetBackupsToMarkPermanent(push.prev) \in SUBSET Backup
    BY Zenon DEF GetBackupsToMarkPermanent, Ancestors, Reach
  <2>2. CASE push' = IdlePush
    BY <1>4, <2>2, Zenon DEF MarkBackups, TypeOK
  <2>3. CASE push' = [push EXCEPT !.pc = "meta"]
    BY <1>4, <2>3, Zenon DEF MarkBackups, TypeOK, PushStates
  <2>4. CASE push' = [push EXCEPT !.pc = "marking",
                                  !.todo = GetBackupsToMarkPermanent(push.prev)]
    <3> DEFINE todo == GetBackupsToMarkPermanent(push.prev)
    <3> HIDE DEF todo
    <3>1. todo \in SUBSET Backup
      BY <2>1, Zenon DEF todo
    <3>2. push' = [push EXCEPT !.pc = "marking", !.todo = todo]
      BY <2>4, Zenon DEF todo
    <3>3. push' \in PushStates
      BY <3>1, <3>2, Zenon DEF TypeOK, PushStates
    <3> QED
      BY <1>4, <3>3, Zenon DEF MarkBackups, TypeOK
  <2> QED
    BY <1>4, <2>2, <2>3, <2>4, Zenon DEF MarkBackups
<1>5. CASE PushSetIsPermanent
  BY <1>5 DEF PushSetIsPermanent, TypeOK, PushStates, NextToMark
<1>6. CASE UploadExtendedMetadata
  BY <1>0, <1>6 DEF UploadExtendedMetadata, TypeOK, PushStates, Objects, Kinds
<1>7. CASE UploadSentinel
  <2>1. Cur \in Backup
    BY <1>0, <1>7, Zenon DEF UploadSentinel
  <2>2. push.prev \in Backup \cup {None} /\ push.cnt \in Nat
    BY Zenon DEF TypeOK, PushStates
  <2>3. stored' \subseteq Objects
    BY <1>7, <2>1 DEF UploadSentinel, TypeOK, Objects, Kinds
  <2>4. from' \in [Backup -> Backup \cup {None}] /\ count' \in [Backup -> Nat]
    BY <1>7, <2>2, Zenon DEF UploadSentinel, TypeOK
  <2>5. full' \in [Backup -> Backup \cup {None}]
    BY <1>7, <2>2, Zenon DEF UploadSentinel, TypeOK
  <2> QED
    BY <1>7, <2>3, <2>4, <2>5, Zenon DEF UploadSentinel, TypeOK
<1>8. CASE PushCrash
  BY <1>8, Zenon DEF PushCrash, TypeOK
<1>9. ASSUME NEW b \in Backup, MarkPermanent(b) PROVE TypeOK'
  BY <1>9, Zenon
     DEF MarkPermanent, TypeOK, AdminStates, IdleAdmin, GetBackupsToMarkPermanent, Ancestors, Reach,
         Commands
<1>10. ASSUME NEW b \in Backup, MarkImpermanent(b) PROVE TypeOK'
  BY <1>10, Zenon DEF MarkImpermanent, TypeOK, AdminStates, IdleAdmin, Commands, GetBackupsToMarkImpermanent
<1>11. CASE AdminSetIsPermanent
  BY <1>11 DEF AdminSetIsPermanent, TypeOK, AdminStates, NextToMark
<1>12. ASSUME NEW cmd \in DeleteCommands, RunDelete(cmd) PROVE TypeOK'
  <2>1. PICK keep \in SUBSET PermanentBackups :
          admin' = [IdleAdmin EXCEPT !.pc = "read", !.cmd = cmd, !.keep = keep]
    BY <1>12, Zenon DEF RunDelete
  <2>2. keep \in SUBSET Backup
    BY Zenon DEF PermanentBackups, Visible
  <2>3. admin' \in AdminStates
    BY <2>1, <2>2, Zenon DEF AdminStates, IdleAdmin, Commands
  <2> QED
    BY <1>12, <2>3, Zenon DEF RunDelete, TypeOK
<1>13. ASSUME NEW b \in Backup, NEW m \in {"NO", "FIND_FULL"}, HandleDeleteBefore(b, m)
       PROVE  TypeOK'
  <2>1. \A t : ObjectsBefore(t, admin.keep) \in SUBSET stored
    BY Zenon DEF ObjectsBefore
  <2>2. admin' \in AdminStates /\ doomed' \subseteq Backup
    BY <1>13, <2>1, DeleteType, Zenon DEF HandleDeleteBefore, DeleteBeforeTarget, TypeOK
  <2> QED
    BY <1>13, <2>2, Zenon DEF HandleDeleteBefore, TypeOK
<1>14. ASSUME NEW n \in 0 .. MaxRetain, NEW m \in Modifiers, HandleDeleteRetain(n, m)
       PROVE  TypeOK'
  <2>1. \A t : ObjectsBefore(t, admin.keep) \in SUBSET stored
    BY Zenon DEF ObjectsBefore
  <2>2. admin' \in AdminStates /\ doomed' \subseteq Backup
    BY <1>14, <2>1, DeleteType DEF HandleDeleteRetain, DeleteBeforeTarget, TypeOK
  <2> QED
    BY <1>14, <2>2, Zenon DEF HandleDeleteRetain, TypeOK
<1>15. ASSUME NEW b \in Backup, NEW findFull \in BOOLEAN, HandleDeleteTarget(b, findFull)
       PROVE  TypeOK'
  <2>1. \A ts : ObjectsOf(ts, admin.keep) \in SUBSET stored
    BY Zenon DEF ObjectsOf
  <2>2. admin' \in AdminStates /\ doomed' \subseteq Backup
    BY <1>15, <2>1, DeleteType, Zenon DEF HandleDeleteTarget, TypeOK
  <2> QED
    BY <1>15, <2>2, Zenon DEF HandleDeleteTarget, TypeOK
<1>16. ASSUME NEW force \in BOOLEAN, HandleDeleteEverything(force) PROVE TypeOK'
  <2>1. admin' \in AdminStates /\ doomed' \subseteq Backup
    BY <1>16, DeleteType, Zenon DEF HandleDeleteEverything, TypeOK
  <2> QED
    BY <1>16, <2>1, Zenon DEF HandleDeleteEverything, TypeOK
<1>17. CASE DeleteObject
  BY <1>17 DEF DeleteObject, TypeOK, AdminStates
<1>18. CASE AdminCrash
  BY <1>18, Zenon DEF AdminCrash, TypeOK
<1>19. CASE UNCHANGED vars
  BY <1>19, Zenon DEF vars, TypeOK
<1> QED
  BY <1>1a, <1>1b, <1>2, <1>3, <1>4, <1>5, <1>6, <1>7, <1>8, <1>9, <1>10, <1>11, <1>12, <1>13,
     <1>14, <1>15, <1>16, <1>17, <1>18, <1>19 DEF Next

-----------------------------------------------------------------------------
(* Kinds of steps *)

\* Steps in which the administrative command only reads and decides.
AdminReads ==
    \/ \E b \in Backup : MarkPermanent(b)
    \/ \E b \in Backup : MarkImpermanent(b)
    \/ \E cmd \in DeleteCommands : RunDelete(cmd)
    \/ \E b \in Backup, m \in {"NO", "FIND_FULL"} : HandleDeleteBefore(b, m)
    \/ \E n \in 0 .. MaxRetain, m \in Modifiers : HandleDeleteRetain(n, m)
    \/ \E b \in Backup, findFull \in BOOLEAN : HandleDeleteTarget(b, findFull)
    \/ \E force \in BOOLEAN : HandleDeleteEverything(force)
    \/ AdminCrash

\* The base chosen for a delta is not older than any listed full backup.
GoodBase(prev) ==
    prev # None =>
        /\ prev \in Visible
        /\ \A t \in Backup : VisibleFull(t) => prev >= t
        /\ from[prev] # None => \A t \in Backup : VisibleFull(t) => full[prev] >= t

PushBegins ==
    \E perm \in BOOLEAN, prev \in Backup \cup {None}, cnt \in Nat :
        CanPush /\ BeginPush(perm, prev, cnt) /\ GoodBase(prev)

\* Steps that only read leave the storage and the backup-push alone.
LEMMA AdminReadsFrame ==
    AdminReads => UNCHANGED <<stored, permanent, from, full, count, started, push>>
  BY Zenon
     DEF AdminReads, MarkPermanent, MarkImpermanent, RunDelete, HandleDeleteBefore, HandleDeleteRetain,
         HandleDeleteTarget, HandleDeleteEverything, AdminCrash

\* configureDeltaBackup chooses a base that no listed full backup is newer than.
LEMMA BaseIsGood ==
    ASSUME TypeOK, SentinelInv, LinearInv, NEW b \in Selected("LATEST"),
           NEW perm \in BOOLEAN, NEW fromFull \in BOOLEAN,
           ConfigureDelta(b, perm, fromFull) # None =>
              Has("sentinel", ConfigureDelta(b, perm, fromFull))
    PROVE  GoodBase(ConfigureDelta(b, perm, fromFull))
<1> DEFINE prev == ConfigureDelta(b, perm, fromFull)
<1>1. b \in Visible /\ b \in Backup /\ \A c \in Visible : c <= b
  BY Zenon DEF Selected, Visible
<1>2. \A t \in Backup : VisibleFull(t) => t <= b
  BY <1>1, Zenon DEF VisibleFull
<1>3. from[b] # None => \A t \in Backup : VisibleFull(t) => full[b] >= t
  <2> SUFFICES ASSUME from[b] # None, NEW t \in Backup, VisibleFull(t) PROVE full[b] >= t
    OBVIOUS
  <2>1. t # b
    BY Zenon DEF VisibleFull, IsFull
  <2>2. t < b
    BY <1>1, <1>2, <2>1 DEF Backup
  <2> QED
    BY <1>1, <2>2, Zenon DEF LinearInv
<1>4. CASE prev = None
  BY <1>4, Zenon DEF GoodBase
<1>5. CASE prev = b
  BY <1>1, <1>2, <1>3, <1>5, Zenon DEF GoodBase, Backup
<1>6. CASE prev = full[b] /\ ~IsFull(b) /\ prev # None
  <2>1. from[b] # None /\ full[b] \in Backup /\ IsFull(full[b])
    BY <1>1, <1>6, Zenon DEF IsFull, SentinelInv
  <2>2. full[b] \in Visible
    BY <1>6, <2>1, Zenon DEF Visible
  <2>3. from[full[b]] = None
    BY <2>1, Zenon DEF IsFull
  <2> QED
    BY <1>3, <1>6, <2>1, <2>2, <2>3, Zenon DEF GoodBase
<1>7. prev = None \/ prev = b \/ (prev = full[b] /\ ~IsFull(b) /\ prev # None)
  BY Zenon DEF ConfigureDelta
<1> QED
  BY <1>4, <1>5, <1>6, <1>7, Zenon

\* The steps of the specification, by kind.
LEMMA NextKinds ==
    ASSUME TypeOK, SentinelInv, LinearInv, Next
    PROVE  \/ AdminReads
           \/ PushBegins
           \/ StartBackup
           \/ UploadBackup
           \/ MarkBackups
           \/ PushSetIsPermanent
           \/ UploadExtendedMetadata
           \/ UploadSentinel
           \/ PushCrash
           \/ AdminSetIsPermanent
           \/ DeleteObject
<1>1. ASSUME NEW perm \in BOOLEAN, HandleFullBackupPush(perm) PROVE PushBegins
  <2>1. GoodBase(None)
    BY Zenon DEF GoodBase
  <2> QED
    BY <1>1, <2>1, Zenon DEF HandleFullBackupPush, PushBegins, None
<1>2. ASSUME NEW perm \in BOOLEAN, NEW selector \in Selectors, NEW fromFull \in BOOLEAN,
             HandleDeltaBackupPush(perm, selector, fromFull)
      PROVE  PushBegins
  <2>1. selector = "LATEST"
    BY UsageAssumption, Zenon
  <2>2. PICK b \in Selected("LATEST") :
          LET prev == ConfigureDelta(b, perm, fromFull) IN
          /\ prev # None => Has("sentinel", prev)
          /\ BeginPush(perm, prev, IF prev = None THEN 0 ELSE count[b] + 1)
    BY <1>2, <2>1, Zenon DEF HandleDeltaBackupPush
  <2>3. b \in Backup /\ count[b] + 1 \in Nat
    BY DEF Selected, Visible, TypeOK
  <2> DEFINE prev == ConfigureDelta(b, perm, fromFull)
             cnt == IF prev = None THEN 0 ELSE count[b] + 1
  <2>4. prev \in Backup \cup {None}
    BY <2>3, Zenon DEF ConfigureDelta, TypeOK
  <2>5. cnt \in Nat
    BY <2>3, Zenon
  <2>6. GoodBase(prev)
    BY <2>2, BaseIsGood, Zenon
  <2>7. CanPush /\ BeginPush(perm, prev, cnt)
    BY <1>2, <2>2, Zenon DEF HandleDeltaBackupPush
  <2> HIDE DEF prev, cnt
  <2> QED
    BY <2>4, <2>5, <2>6, <2>7, Zenon DEF PushBegins
<1> QED
  BY <1>1, <1>2, Zenon DEF Next, AdminReads

-----------------------------------------------------------------------------
(* Preservation of the invariant, conjunct by conjunct *)

\* No object belongs to a backup that was not started.
LEMMA FreshStep == IInv /\ Next => FreshInv'
<1> SUFFICES ASSUME IInv, Next PROVE FreshInv'
  OBVIOUS
<1> USE DEF IInv
<1>0. started \in 0 .. MaxBackups /\ (push.pc = "start" => started < MaxBackups)
  BY Zenon DEF TypeOK, PushInv
<1>1. CASE AdminReads
  BY <1>1, AdminReadsFrame, Zenon DEF FreshInv, Visible, Has, Cur
<1>2. CASE PushBegins
  <2>1. UNCHANGED <<stored, from, started>> /\ push'.pc = "start"
    BY <1>2 DEF PushBegins, BeginPush
  <2> QED
    BY <2>1, Zenon DEF FreshInv
<1>3. CASE StartBackup
  <2>1. started' = started + 1 /\ started' \in Backup
    BY <1>0, <1>3, BoundsAssumption DEF StartBackup, Backup
  <2>2. \A o \in stored : o[2] \in Backup /\ o[2] <= started
    BY Zenon DEF TypeOK, Objects, FreshInv
  <2>3. started' \notin Visible' /\ <<"meta", started'>> \notin stored'
    BY <1>0, <1>3, <2>1, <2>2 DEF StartBackup, Visible, Has
  <2>4. from[started'] = None
    BY <1>0, <2>1 DEF FreshInv
  <2> QED
    BY <1>0, <1>3, <2>1, <2>2, <2>3, <2>4 DEF StartBackup, FreshInv, Cur, Backup, Has
<1>4. CASE UploadBackup
  BY <1>0, <1>4 DEF UploadBackup, FreshInv, Visible, Has, Cur
<1>5. CASE MarkBackups
  BY <1>5, Zenon DEF MarkBackups, FreshInv, Visible, Has, Cur, IdlePush
<1>6. CASE PushSetIsPermanent
  <2>1. UNCHANGED <<stored, from, started>> /\ push.pc = "marking"
    BY <1>6, Zenon DEF PushSetIsPermanent
  <2>2. push'.pc \in {"idle", "marking", "meta"}
    BY <1>6 DEF PushSetIsPermanent, IdlePush, TypeOK, PushStates
  <2> QED
    BY <2>1, <2>2, Zenon DEF FreshInv, Visible, Has, Cur
<1>7. CASE UploadExtendedMetadata
  BY <1>0, <1>7 DEF UploadExtendedMetadata, FreshInv, Visible, Has, Cur
<1>8. CASE UploadSentinel
  <2>1. /\ stored' = stored \cup {<<"sentinel", Cur>>}
        /\ from' = [from EXCEPT ![Cur] = push.prev]
        /\ push' = IdlePush /\ started' = started
    BY <1>8, Zenon DEF UploadSentinel
  <2>2. \A o \in stored' : o[2] <= started'
    BY <1>0, <2>1 DEF FreshInv, Cur
  <2>3. \A b \in Backup : from'[b] # None => b <= started'
    BY <1>0, <2>1 DEF FreshInv, Cur, TypeOK
  <2> QED
    BY <2>1, <2>2, <2>3, Zenon DEF FreshInv, IdlePush
<1>9. CASE PushCrash
  BY <1>9, Zenon DEF PushCrash, FreshInv, Visible, Has, Cur, IdlePush
<1>10. CASE AdminSetIsPermanent
  BY <1>10, Zenon DEF AdminSetIsPermanent, FreshInv, Visible, Has, Cur
<1>11. CASE DeleteObject
  BY <1>11, Zenon DEF DeleteObject, FreshInv, Visible, Has, Cur
<1> QED
  BY <1>1, <1>2, <1>3, <1>4, <1>5, <1>6, <1>7, <1>8, <1>9, <1>10, <1>11, NextKinds, Zenon

\* What UploadSentinel does to the sentinel fields and to the listed backups.
LEMMA SentinelEffect ==
    ASSUME IInv, UploadSentinel
    PROVE  /\ Cur \in Backup /\ Cur = started /\ Cur \notin Visible /\ from[Cur] = None
           /\ Visible' = Visible \cup {Cur}
           /\ \A b \in Backup : b # Cur => from'[b] = from[b] /\ full'[b] = full[b]
           /\ from'[Cur] = push.prev
           /\ push.prev # None =>
                full'[Cur] = IF IsFull(push.prev) THEN push.prev ELSE full[push.prev]
           /\ \A b \in Backup : from[b] # None => b < Cur
<1> USE DEF IInv
<1>1. Cur \in Backup /\ Cur = started /\ Cur \notin Visible /\ from[Cur] = None
  BY Zenon DEF UploadSentinel, FreshInv, Cur
<1>2. Visible' = Visible \cup {Cur}
  BY <1>1, Zenon DEF UploadSentinel, Visible, Has
<1>3. from \in [Backup -> Backup \cup {None}] /\ full \in [Backup -> Backup \cup {None}]
  BY Zenon DEF TypeOK
<1>4. \A b \in Backup : b # Cur => from'[b] = from[b] /\ full'[b] = full[b]
  BY <1>1, <1>3, Zenon DEF UploadSentinel
<1>5. from'[Cur] = push.prev
  BY <1>1, <1>3, Zenon DEF UploadSentinel
<1>6. push.prev # None =>
        full'[Cur] = IF IsFull(push.prev) THEN push.prev ELSE full[push.prev]
  BY <1>1, <1>3, Zenon DEF UploadSentinel
<1>7. \A b \in Backup : from[b] # None => b < Cur
  BY <1>1 DEF FreshInv, Backup
<1> QED
  BY <1>1, <1>2, <1>4, <1>5, <1>6, <1>7, Zenon

\* All steps but UploadSentinel leave the sentinel fields alone and list no new
\* backup.
LEMMA OtherEffect ==
    ASSUME IInv, Next, ~UploadSentinel
    PROVE  UNCHANGED <<from, full>> /\ Visible' \subseteq Visible
<1> USE DEF IInv
<1>1. CASE AdminReads
  BY <1>1, AdminReadsFrame, Zenon DEF Visible, Has
<1>2. CASE PushBegins
  BY <1>2, Zenon DEF PushBegins, BeginPush, Visible, Has
<1>3. CASE StartBackup \/ MarkBackups \/ PushSetIsPermanent \/ PushCrash \/ AdminSetIsPermanent
  BY <1>3, Zenon DEF StartBackup, MarkBackups, PushSetIsPermanent, PushCrash, AdminSetIsPermanent, Visible, Has
<1>4. CASE UploadBackup \/ UploadExtendedMetadata
  BY <1>4, Zenon DEF UploadBackup, UploadExtendedMetadata, Visible, Has
<1>5. CASE DeleteObject
  BY <1>5, Zenon DEF DeleteObject, Visible, Has
<1> QED
  BY <1>1, <1>2, <1>3, <1>4, <1>5, NextKinds, Zenon

\* DeltaFullName stays the full backup at the root.
LEMMA SentinelStep == IInv /\ Next => SentinelInv'
<1> SUFFICES ASSUME IInv, Next PROVE SentinelInv'
  OBVIOUS
<1> USE DEF IInv
<1>1. CASE ~UploadSentinel
  BY <1>1, OtherEffect DEF SentinelInv, IsFull
<1>2. CASE UploadSentinel
  <2> DEFINE prev == push.prev
  <2>1. prev # None => prev \in Backup /\ prev < Cur
    BY <1>2, Zenon DEF UploadSentinel, PushInv, TypeOK, PushStates
  <2>2. ASSUME NEW x \in Backup, x < Cur PROVE from'[x] = from[x] /\ full'[x] = full[x]
    BY <1>2, <2>2, SentinelEffect DEF Backup
  <2> SUFFICES ASSUME NEW b \in Backup, from'[b] # None
               PROVE  /\ from'[b] < b
                      /\ full'[b] \in Backup /\ full'[b] < b /\ from'[full'[b]] = None
                      /\ full'[b] = IF from'[from'[b]] = None THEN from'[b]
                                    ELSE full'[from'[b]]
    BY Zenon DEF SentinelInv, IsFull
  <2>3. CASE b = Cur
    <3>1. prev # None /\ from'[b] = prev
      BY <1>2, <2>3, SentinelEffect, Zenon
    <3>2. from'[prev] = from[prev] /\ full'[prev] = full[prev]
      BY <2>1, <2>2, <3>1, Zenon
    <3>3. CASE from[prev] = None
      <4>1. full'[b] = prev
        BY <1>2, <2>3, <3>1, <3>3, SentinelEffect, Zenon DEF IsFull
      <4> QED
        BY <2>1, <2>3, <3>1, <3>2, <3>3, <4>1, Zenon
    <3>4. CASE from[prev] # None
      <4>1. full'[b] = full[prev]
        BY <1>2, <2>3, <3>1, <3>4, SentinelEffect, Zenon DEF IsFull
      <4>2. full[prev] \in Backup /\ full[prev] < prev /\ from[full[prev]] = None
        BY <2>1, <3>1, <3>4, Zenon DEF SentinelInv, IsFull
      <4>3. full[prev] < Cur
        BY <2>1, <3>1, <4>2, SentinelEffect, <1>2 DEF Backup
      <4> QED
        BY <2>1, <2>2, <2>3, <3>1, <3>2, <3>4, <4>1, <4>2, <4>3, Zenon
    <3> QED
      BY <3>3, <3>4, Zenon
  <2>4. CASE b # Cur
    <3>1. from[b] # None /\ from'[b] = from[b] /\ full'[b] = full[b] /\ b < Cur
      BY <1>2, <2>4, SentinelEffect, Zenon
    <3>2. /\ from[b] \in Backup /\ from[b] < b
          /\ full[b] \in Backup /\ full[b] < b /\ from[full[b]] = None
          /\ full[b] = IF from[from[b]] = None THEN from[b] ELSE full[from[b]]
      BY <3>1, Zenon DEF SentinelInv, IsFull, TypeOK
    <3>3. from[b] < Cur /\ full[b] < Cur
      BY <1>2, <3>1, <3>2, SentinelEffect DEF Backup
    <3> QED
      BY <2>2, <3>1, <3>2, <3>3, Zenon
  <2> QED
    BY <2>3, <2>4, Zenon
<1> QED
  BY <1>1, <1>2, Zenon

\* No delta is made over the head of a listed full backup.
LEMMA LinearStep == IInv /\ Next => LinearInv'
<1> SUFFICES ASSUME IInv, Next PROVE LinearInv'
  OBVIOUS
<1> USE DEF IInv
<1>1. CASE ~UploadSentinel
  BY <1>1, OtherEffect, Zenon DEF LinearInv, VisibleFull, IsFull
<1>2. CASE UploadSentinel
  <2> SUFFICES ASSUME NEW b \in Backup, NEW t \in Backup, from'[b] # None,
                      t \in Visible', from'[t] = None, t < b
               PROVE  from'[b] >= t /\ full'[b] >= t
    BY Zenon DEF LinearInv, VisibleFull, IsFull
  <2>1. Cur \in Backup /\ b <= Cur
    BY <1>2, SentinelEffect DEF Backup
  <2>2. t # Cur
    BY <2>1 DEF Backup
  <2>3. VisibleFull(t)
    BY <1>2, <2>2, SentinelEffect, Zenon DEF VisibleFull, IsFull
  <2>4. CASE b = Cur
    <3>1. push.prev # None /\ push.pc # "idle"
      BY <1>2, <2>4, SentinelEffect, Zenon DEF UploadSentinel
    <3>2. push.prev >= t /\ (from[push.prev] # None => full[push.prev] >= t)
      BY <2>3, <3>1, Zenon DEF PushInv
    <3> QED
      BY <1>2, <2>4, <3>1, <3>2, SentinelEffect, Zenon DEF IsFull
  <2>5. CASE b # Cur
    BY <1>2, <2>3, <2>5, SentinelEffect, Zenon DEF LinearInv
  <2> QED
    BY <2>4, <2>5, Zenon
<1> QED
  BY <1>1, <1>2, Zenon

\* The base of the backup in progress stays a good one.
LEMMA PushStep == IInv /\ Next => PushInv'
<1> SUFFICES ASSUME IInv, Next PROVE PushInv'
  OBVIOUS
<1> USE DEF IInv
<1>0. started \in Nat /\ push.prev \in Backup \cup {None} /\ Backup \subseteq Nat
  BY DEF TypeOK, PushStates, Backup
<1>1. CASE AdminReads
  BY <1>1, AdminReadsFrame, Zenon DEF PushInv, VisibleFull, Visible, Has, IsFull, Cur
<1>2. CASE PushBegins
  <2>1. PICK perm \in BOOLEAN, prev \in Backup \cup {None}, cnt \in Nat :
          CanPush /\ BeginPush(perm, prev, cnt) /\ GoodBase(prev)
    BY <1>2, Zenon DEF PushBegins
  <2>2. prev # None => prev <= started
    BY <2>1, Zenon DEF GoodBase, Visible, Has, FreshInv
  <2>3. /\ push'.pc = "start" /\ push'.prev = prev
        /\ UNCHANGED <<stored, from, full, started>>
    BY <2>1, Zenon DEF BeginPush
  <2>4. started < MaxBackups
    BY <2>1, Zenon DEF CanPush
  <2> QED
    BY <2>1, <2>2, <2>3, <2>4, Zenon DEF GoodBase, PushInv, VisibleFull, Visible, Has, IsFull
<1>3. CASE StartBackup
  BY <1>0, <1>3 DEF StartBackup, PushInv, VisibleFull, Visible, Has, IsFull, Cur, TypeOK,
                    PushStates
<1>4. CASE UploadBackup \/ UploadExtendedMetadata
  <2>1. UNCHANGED <<from, full, started>> /\ Visible' \subseteq Visible
    BY <1>4, Zenon DEF UploadBackup, UploadExtendedMetadata, Visible, Has
  <2>2. /\ push'.prev = push.prev /\ push'.pc \in {"mark", "sentinel"}
        /\ push.pc \in {"upload", "meta"}
    BY <1>4, Zenon DEF UploadBackup, UploadExtendedMetadata, TypeOK, PushStates
  <2> QED
    BY <2>1, <2>2, Zenon DEF PushInv, VisibleFull, IsFull, Cur
<1>5. CASE MarkBackups \/ PushSetIsPermanent
  <2>1. UNCHANGED <<from, full, started>> /\ Visible' = Visible
    BY <1>5, Zenon DEF MarkBackups, PushSetIsPermanent, Visible, Has
  <2>2. CASE push' = IdlePush
    BY <2>2, Zenon DEF IdlePush, PushInv
  <2>3. CASE /\ push'.prev = push.prev /\ push'.pc \in {"marking", "meta"}
             /\ push.pc \in {"mark", "marking"}
    BY <2>1, <2>3, Zenon DEF PushInv, VisibleFull, IsFull, Cur
  <2> QED
    BY <1>5, <2>2, <2>3, Zenon DEF MarkBackups, PushSetIsPermanent, TypeOK, PushStates
<1>7. CASE UploadSentinel \/ PushCrash
  <2>1. push' = IdlePush
    BY <1>7, Zenon DEF UploadSentinel, PushCrash
  <2> QED
    BY <2>1, Zenon DEF PushInv, IdlePush
<1>8. CASE AdminSetIsPermanent
  BY <1>8, Zenon DEF AdminSetIsPermanent, PushInv, VisibleFull, Visible, Has, IsFull, Cur
<1>9. CASE DeleteObject
  <2>1. UNCHANGED <<from, full, started, push>> /\ Visible' \subseteq Visible
    BY <1>9, Zenon DEF DeleteObject, Visible, Has
  <2> QED
    BY <2>1, Zenon DEF PushInv, VisibleFull, IsFull, Cur
<1> QED
  BY <1>1, <1>2, <1>3, <1>4, <1>5, <1>7, <1>8, <1>9, NextKinds, Zenon

\* An object disappears only when delete has it on its list.
LEMMA StoredStable ==
    ASSUME IInv, Next, NEW b \in Backup, \A o \in admin.objs : o[2] # b, NEW k, Has(k, b)
    PROVE  Has(k, b)'
<1> USE DEF IInv
<1>1. CASE AdminReads
  BY <1>1, AdminReadsFrame, Zenon DEF Has
<1>2. CASE PushBegins
  BY <1>2, Zenon DEF PushBegins, BeginPush, Has
<1>3. CASE DeleteObject
  BY <1>3 DEF DeleteObject, Has
<1>4. CASE StartBackup \/ MarkBackups \/ PushSetIsPermanent \/ PushCrash \/ AdminSetIsPermanent
  BY <1>4, Zenon DEF StartBackup, MarkBackups, PushSetIsPermanent, PushCrash, AdminSetIsPermanent, Has
<1>5. CASE UploadBackup \/ UploadExtendedMetadata \/ UploadSentinel
  BY <1>5, Zenon DEF UploadBackup, UploadExtendedMetadata, UploadSentinel, Has
<1> QED
  BY <1>1, <1>2, <1>3, <1>4, <1>5, NextKinds, Zenon

\* The permanent flag is lost only to delete or to backup-mark --impermanent.
LEMMA PermanentStable ==
    ASSUME IInv, Next, NEW b \in permanent, \A o \in admin.objs : o[2] # b,
           ~(admin.pc = "marking" /\ admin.cmd = "unmark" /\ b \in admin.todo)
    PROVE  b \in permanent'
<1> USE DEF IInv
<1>1. CASE AdminReads
  BY <1>1, AdminReadsFrame, Zenon
<1>2. CASE PushBegins
  BY <1>2, Zenon DEF PushBegins, BeginPush
<1>3. CASE DeleteObject
  BY <1>3, Zenon DEF DeleteObject
<1>4. CASE AdminSetIsPermanent
  <2>1. admin.cmd \in {"mark", "unmark"}
    BY <1>4, Zenon DEF AdminSetIsPermanent, AdminMarkInv
  <2> QED
    BY <1>4, <2>1, Zenon DEF AdminSetIsPermanent, NextToMark
<1>5. CASE StartBackup \/ MarkBackups \/ PushCrash \/ UploadBackup \/ UploadSentinel
  BY <1>5, Zenon DEF StartBackup, MarkBackups, PushCrash, UploadBackup, UploadSentinel
<1>6. CASE UploadExtendedMetadata \/ PushSetIsPermanent
  BY <1>6, Zenon DEF UploadExtendedMetadata, PushSetIsPermanent
<1> QED
  BY <1>1, <1>2, <1>3, <1>4, <1>5, <1>6, NextKinds, Zenon

\* While a backup-push is in progress, no other command takes anything away from
\* a backup that is not older than the listed full ones.
LEMMA PushSafe ==
    ASSUME IInv, push.pc # "idle", NEW b \in Backup,
           \A t \in Backup : VisibleFull(t) => b >= t
    PROVE  /\ \A o \in admin.objs : o[2] # b
           /\ ~(admin.pc = "marking" /\ admin.cmd = "unmark")
<1> USE DEF IInv
<1>1. admin.pc \in {"idle", "read", "marking", "deleting"}
  BY Zenon DEF TypeOK, AdminStates
<1>2. admin.pc # "idle" => admin.cmd \in {"before", "retain", "mark"}
  BY UsageAssumption, Zenon DEF AdminMarkInv
<1>3. CASE admin.pc # "deleting"
  BY <1>1, <1>2, <1>3, Zenon DEF DeleteInv, AdminMarkInv
<1>4. CASE admin.pc = "deleting"
  <2>1. admin.cmd \in {"before", "retain"}
    BY <1>2, <1>4, Zenon DEF DeleteInv, DeleteCommands
  <2>2. PICK t \in Backup : VisibleFull(t) /\ \A o \in admin.objs : o[2] < t
    BY <1>4, <2>1, Zenon DEF DeleteInv
  <2>3. \A o \in admin.objs : o[2] \in Backup
    BY Zenon DEF TypeOK, AdminStates, Objects
  <2>4. \A o \in admin.objs : o[2] # b
    BY <2>2, <2>3 DEF Backup
  <2> QED
    BY <1>4, <2>4, Zenon
<1> QED
  BY <1>3, <1>4, Zenon

\* The base of such a backup is protected in the same way.
LEMMA BaseAbove ==
    ASSUME IInv, NEW b \in Backup, from[b] # None,
           \A t \in Backup : VisibleFull(t) => b >= t
    PROVE  from[b] \in Backup /\ \A t \in Backup : VisibleFull(t) => from[b] >= t
<1> USE DEF IInv
<1>1. from[b] \in Backup
  BY Zenon DEF TypeOK
<1>2. ASSUME NEW t \in Backup, VisibleFull(t) PROVE from[b] >= t
  <2>1. t # b
    BY <1>2, Zenon DEF VisibleFull, IsFull
  <2>2. t < b
    BY <1>2, <2>1 DEF Backup
  <2> QED
    BY <1>2, <2>2, Zenon DEF LinearInv
<1> QED
  BY <1>1, <1>2, Zenon

\* After the step, the backup that is b before it is marked.
MarkedNext(b) ==
    <<"sentinel", b>> \in stored' /\ <<"meta", b>> \in stored' /\ b \in permanent'

\* A marked backup above the listed full ones stays marked during a backup-push.
LEMMA MarkedStable ==
    ASSUME IInv, Next, push.pc # "idle", NEW b \in Backup, Marked(b),
           \A t \in Backup : VisibleFull(t) => b >= t
    PROVE  MarkedNext(b)
<1>1. /\ \A o \in admin.objs : o[2] # b
      /\ ~(admin.pc = "marking" /\ admin.cmd = "unmark")
  BY PushSafe, Zenon
<1>2. Has("sentinel", b)' /\ Has("meta", b)'
  BY <1>1, StoredStable, Zenon DEF Marked
<1>3. b \in permanent'
  BY <1>1, PermanentStable, Zenon DEF Marked
<1> QED
  BY <1>2, <1>3, Zenon DEF MarkedNext, Has

\* The chain that getBackupsToMarkPermanent returns can be marked from its full
\* backup on.
LEMMA ChainMarkable ==
    ASSUME TypeOK, NEW b \in Backup, CanMarkPermanent(b)
    PROVE  /\ MarkableTodo(GetBackupsToMarkPermanent(b))
           /\ b \in GetBackupsToMarkPermanent(b) \/ Marked(b)
<1>1. \A a \in Ancestors(b) : Has("meta", a) /\ Has("sentinel", a)
  BY Zenon DEF CanMarkPermanent
<1>2. \A a \in Ancestors(b) : a \in GetBackupsToMarkPermanent(b) \/ Marked(a)
  BY <1>1, Zenon DEF GetBackupsToMarkPermanent, Marked
<1>3. \A a \in GetBackupsToMarkPermanent(b) : a \in Ancestors(b)
  BY Zenon DEF GetBackupsToMarkPermanent
<1> QED
  BY <1>1, <1>2, <1>3, AncestorsClosed, Zenon DEF MarkableTodo

\* A chain that a permanent backup-push is marking stays markable, whatever the
\* administrative command does.
LEMMA PushMarkStep == IInv /\ Next => PushMarkInv'
<1> SUFFICES ASSUME IInv, Next PROVE PushMarkInv'
  OBVIOUS
<1> USE DEF IInv
<1>0. /\ push.prev \in Backup \cup {None} /\ push.todo \subseteq Backup
      /\ push.pc # "idle" /\ push.prev # None =>
           \A t \in Backup : VisibleFull(t) => push.prev >= t
  BY Zenon DEF TypeOK, PushStates, PushInv
<1>1. CASE AdminReads \/ AdminSetIsPermanent \/ DeleteObject
  <2>1. UNCHANGED push /\ UNCHANGED started
    BY <1>1, AdminReadsFrame, Zenon DEF AdminSetIsPermanent, DeleteObject
  <2>2. UNCHANGED <<from, full>> /\ Visible' \subseteq Visible
    BY <1>1, AdminReadsFrame, Zenon DEF AdminSetIsPermanent, DeleteObject, Visible, Has
  <2>3. \A t \in Backup : VisibleFull(t)' => VisibleFull(t)
    BY <2>2, Zenon DEF VisibleFull, IsFull
  <2>4. ASSUME push.pc = "marking"
        PROVE  /\ MarkableTodo(push.todo)'
               /\ push.prev \in push.todo \/ MarkedNext(push.prev)
               /\ \A b \in push.todo, t \in Backup : VisibleFull(t)' => b >= t
    <3>1. \A b \in push.todo, t \in Backup : VisibleFull(t) => b >= t
      BY <2>4, Zenon DEF PushMarkInv
    <3>2. ASSUME NEW b \in push.todo
          PROVE  /\ Has("sentinel", b)' /\ Has("meta", b)'
                 /\ from[b] # None => from[b] \in push.todo \/ MarkedNext(from[b])
      <4>1. b \in Backup /\ \A t \in Backup : VisibleFull(t) => b >= t
        BY <1>0, <3>1, Zenon
      <4>2. Has("sentinel", b) /\ Has("meta", b)
        BY <2>4, Zenon DEF PushMarkInv, MarkableTodo
      <4>3. \A o \in admin.objs : o[2] # b
        BY <2>4, <4>1, PushSafe, Zenon
      <4>4. Has("sentinel", b)' /\ Has("meta", b)'
        BY <4>1, <4>2, <4>3, StoredStable, Zenon
      <4>5. ASSUME from[b] # None, from[b] \notin push.todo PROVE MarkedNext(from[b])
        <5>1. Marked(from[b])
          BY <2>4, <4>5, Zenon DEF PushMarkInv, MarkableTodo
        <5>2. from[b] \in Backup /\ \A t \in Backup : VisibleFull(t) => from[b] >= t
          BY <4>1, <4>5, BaseAbove, Zenon
        <5> QED
          BY <2>4, <5>1, <5>2, MarkedStable, Zenon
      <4> QED
        BY <4>4, <4>5, Zenon
    <3>3. MarkableTodo(push.todo)'
      BY <2>1, <2>2, <3>2, Zenon DEF MarkableTodo, MarkedNext, Marked, Has
    <3>4. push.prev \in push.todo \/ MarkedNext(push.prev)
      BY <1>0, <2>4, MarkedStable, Zenon DEF PushMarkInv
    <3> QED
      BY <2>3, <3>1, <3>3, <3>4, Zenon
  <2>5. ASSUME push.pc \in {"meta", "sentinel"}, push.perm, push.prev # None
        PROVE  MarkedNext(push.prev)
    BY <1>0, <2>5, MarkedStable, Zenon DEF PushMarkInv
  <2>6. ASSUME push.pc = "sentinel"
        PROVE  Has("meta", Cur)' /\ (Cur \in permanent' => push.perm)
    <3>1. Cur \in Backup /\ Has("meta", Cur) /\ Cur \notin Visible
      BY <2>6, Zenon DEF PushMarkInv, FreshInv
    <3>2. \A t \in Backup : VisibleFull(t) => Cur >= t
      BY Zenon DEF VisibleFull, Visible, Has, FreshInv, Cur, TypeOK, Backup
    <3>3. Has("meta", Cur)'
      BY <2>1, <2>6, <3>1, <3>2, PushSafe, StoredStable, Zenon DEF Cur, Has
    <3>4. Cur \in permanent' => Cur \in permanent
      <4>1. CASE AdminReads
        BY <4>1, AdminReadsFrame, Zenon
      <4>2. CASE DeleteObject
        BY <4>2, Zenon DEF DeleteObject
      <4>3. CASE AdminSetIsPermanent
        <5>1. admin.cmd = "mark" => \A b \in admin.todo : Has("sentinel", b)
          BY <4>3, Zenon DEF AdminSetIsPermanent, AdminMarkInv, MarkableTodo
        <5>2. ~Has("sentinel", Cur)
          BY <3>1, Zenon DEF Visible
        <5> QED
          BY <4>3, <5>1, <5>2, Zenon DEF AdminSetIsPermanent, NextToMark
      <4> QED
        BY <1>1, <4>1, <4>2, <4>3, Zenon
    <3> QED
      BY <2>6, <3>3, <3>4, Zenon DEF PushMarkInv
  <2>7. Cur' = Cur
    BY <2>1, Zenon DEF Cur
  <2> QED
    BY <2>1, <2>4, <2>5, <2>6, <2>7, Zenon DEF PushMarkInv, Cur, Has, Marked, MarkedNext
<1>2. CASE PushBegins \/ StartBackup \/ UploadBackup \/ UploadSentinel \/ PushCrash
  <2>1. push'.pc \in {"start", "upload", "mark", "idle"}
    BY <1>2 DEF PushBegins, BeginPush, StartBackup, UploadBackup, UploadSentinel, PushCrash,
                IdlePush, TypeOK, PushStates
  <2> QED
    BY <2>1, Zenon DEF PushMarkInv
<1>3. CASE MarkBackups
  <2>1. UNCHANGED <<stored, permanent, from, full, started>>
    BY <1>3, Zenon DEF MarkBackups
  <2>2. CASE push' = IdlePush
    BY <2>2, Zenon DEF IdlePush, PushMarkInv
  <2>3. CASE /\ push.perm /\ push.prev # None /\ CanMarkPermanent(push.prev)
             /\ push' = [push EXCEPT !.pc = "marking",
                                     !.todo = GetBackupsToMarkPermanent(push.prev)]
    <3> DEFINE todo == GetBackupsToMarkPermanent(push.prev)
    <3>1. push'.pc = "marking" /\ push'.perm /\ push'.prev = push.prev /\ push'.todo = todo
      BY <2>3, Zenon DEF TypeOK, PushStates
    <3>2. MarkableTodo(todo) /\ (push.prev \in todo \/ Marked(push.prev))
      BY <1>0, <2>3, ChainMarkable, Zenon
    <3>3. \A b \in todo, t \in Backup : VisibleFull(t) => b >= t
      <4>1. \A b \in todo : b \in Ancestors(push.prev)
        BY Zenon DEF GetBackupsToMarkPermanent
      <4>2. push.pc # "idle"
        BY <1>3, Zenon DEF MarkBackups
      <4> QED
        BY <1>0, <2>3, <4>1, <4>2, AncestorsAbove, Zenon
    <3> QED
      BY <2>1, <2>3, <3>1, <3>2, <3>3
      DEF PushMarkInv, MarkableTodo, Marked, Has, VisibleFull, Visible, IsFull
  <2>4. CASE /\ ~(push.perm /\ push.prev # None)
             /\ push' = [push EXCEPT !.pc = "meta"]
    BY <2>4, Zenon DEF PushMarkInv, TypeOK, PushStates
  <2> QED
    BY <1>3, <2>2, <2>3, <2>4, Zenon DEF MarkBackups
<1>4. CASE PushSetIsPermanent
  <2>1. UNCHANGED <<stored, from, full, started>> /\ push.pc = "marking"
    BY <1>4, Zenon DEF PushSetIsPermanent
  <2>2. CASE push' = IdlePush
    BY <2>2, Zenon DEF IdlePush, PushMarkInv
  <2>3. CASE push.todo = {} /\ push' = [push EXCEPT !.pc = "meta"] /\ UNCHANGED permanent
    <3>1. push'.pc = "meta" /\ push'.prev = push.prev
      BY <2>3, Zenon DEF TypeOK, PushStates
    <3>2. Marked(push.prev)
      BY <2>1, <2>3, Zenon DEF PushMarkInv
    <3> QED
      BY <2>1, <2>3, <3>1, <3>2 DEF PushMarkInv, Marked, Has
  <2>4. ASSUME NEW b \in NextToMark(push.todo), Has("meta", b),
               permanent' = permanent \cup {b}, push' = [push EXCEPT !.todo = @ \ {b}]
        PROVE  PushMarkInv'
    <3>1. /\ push'.pc = "marking" /\ push'.perm = push.perm /\ push'.prev = push.prev
          /\ push'.todo = push.todo \ {b}
      BY <2>1, <2>4, Zenon DEF TypeOK, PushStates
    <3>2. Has("sentinel", b)
      BY <2>1, Zenon DEF PushMarkInv, MarkableTodo, NextToMark
    <3>3. Marked(b)' /\ \A x : Marked(x) => Marked(x)'
      BY <2>1, <2>4, <3>2, Zenon DEF Marked, Has
    <3>4. MarkableTodo(push.todo \ {b})'
      BY <2>1, <3>1, <3>3, Zenon DEF PushMarkInv, MarkableTodo, Has
    <3> QED
      BY <2>1, <3>1, <3>3, <3>4, Zenon DEF PushMarkInv, MarkableTodo, Has, VisibleFull, Visible, IsFull
  <2> QED
    BY <1>4, <2>2, <2>3, <2>4, Zenon DEF PushSetIsPermanent
<1>5. CASE UploadExtendedMetadata
  <2>1. /\ push'.pc = "sentinel" /\ push'.perm = push.perm /\ push'.prev = push.prev
        /\ push.pc = "meta" /\ UNCHANGED started
    BY <1>5, Zenon DEF UploadExtendedMetadata, TypeOK, PushStates
  <2>2. <<"meta", Cur>> \in stored' /\ (Cur \in permanent' => push.perm)
    BY <1>5, Zenon DEF UploadExtendedMetadata, FreshInv, PermanentInv
  <2>3. \A b : Marked(b) => Marked(b)'
    BY <1>5, Zenon DEF UploadExtendedMetadata, Marked, Has
  <2> QED
    BY <2>1, <2>2, <2>3, Zenon DEF PushMarkInv, Cur, Has, Marked
<1> QED
  BY <1>1, <1>2, <1>3, <1>4, <1>5, NextKinds, Zenon

\* The steps of the backup-push that change the storage.
PushWrites ==
    \/ StartBackup \/ UploadBackup \/ MarkBackups \/ PushSetIsPermanent
    \/ UploadExtendedMetadata \/ UploadSentinel \/ PushCrash

\* The backup-push takes nothing away, and changes no listed sentinel.
LEMMA PushWritesEffect ==
    ASSUME IInv, PushWrites
    PROVE  /\ stored \subseteq stored' /\ permanent \subseteq permanent'
           /\ UNCHANGED <<admin, doomed>> /\ push.pc # "idle"
           /\ \A b \in Visible : from'[b] = from[b]
<1> USE DEF IInv
<1>1. CASE UploadSentinel
  <2>1. \A b \in Visible : b \in Backup /\ b # Cur
    BY <1>1, SentinelEffect, Zenon DEF Visible
  <2> QED
    BY <1>1, <2>1, SentinelEffect, Zenon DEF UploadSentinel
<1>2. CASE StartBackup \/ UploadBackup \/ MarkBackups
  BY <1>2, Zenon DEF StartBackup, UploadBackup, MarkBackups
<1>3. CASE PushSetIsPermanent \/ UploadExtendedMetadata \/ PushCrash
  BY <1>3, Zenon DEF PushSetIsPermanent, UploadExtendedMetadata, PushCrash
<1> QED
  BY <1>1, <1>2, <1>3, Zenon DEF PushWrites

\* What backup-mark has decided stays right while it writes.
LEMMA AdminMarkStep == IInv /\ Next => AdminMarkInv'
<1> SUFFICES ASSUME IInv, Next PROVE AdminMarkInv'
  OBVIOUS
<1> USE DEF IInv
<1>1. CASE admin' = IdleAdmin
  BY <1>1, Zenon DEF AdminMarkInv, IdleAdmin
<1>2. CASE /\ UNCHANGED push /\ admin.pc # "idle" /\ admin'.cmd = admin.cmd
           /\ admin'.pc # "marking"
  BY <1>2, Zenon DEF AdminMarkInv
<1>3. ASSUME NEW b \in Backup, MarkPermanent(b) PROVE AdminMarkInv'
  <2>1. /\ admin'.pc = "marking" /\ admin'.cmd = "mark" /\ admin'.objs = {}
        /\ admin'.todo = GetBackupsToMarkPermanent(b)
        /\ UNCHANGED <<stored, permanent, from, push>>
    BY <1>3, Zenon DEF MarkPermanent, IdleAdmin
  <2>2. push.pc # "idle" => "mark" \in Overlapping
    BY <1>3, Zenon DEF MarkPermanent, CanStart
  <2>3. MarkableTodo(GetBackupsToMarkPermanent(b))
    BY <1>3, ChainMarkable, Zenon DEF MarkPermanent
  <2> QED
    BY <2>1, <2>2, <2>3, Zenon DEF AdminMarkInv, MarkableTodo, Marked, Has
<1>4. ASSUME NEW b \in Backup, MarkImpermanent(b) PROVE AdminMarkInv'
  <2>1. /\ admin'.pc = "marking" /\ admin'.cmd = "unmark" /\ admin'.objs = {}
        /\ admin'.todo \subseteq {b}
        /\ UNCHANGED <<stored, permanent, from, push>>
    BY <1>4, Zenon DEF MarkImpermanent, IdleAdmin, GetBackupsToMarkImpermanent
  <2>2. push.pc # "idle" => "unmark" \in Overlapping
    BY <1>4, Zenon DEF MarkImpermanent, CanStart
  <2>3. from[b] # b
    BY DEF SentinelInv, Backup, None
  <2>4. \A c \in PermanentBackups : from[c] # b
    BY <1>4, <2>3, Zenon DEF MarkImpermanent, CanMarkImpermanent, BackupHasPermanentInFuture
  <2> QED
    BY <2>1, <2>2, <2>4, Zenon DEF AdminMarkInv, PermanentBackups, Visible, Has
<1>5. ASSUME NEW cmd \in DeleteCommands, RunDelete(cmd) PROVE AdminMarkInv'
  BY <1>5, Zenon DEF RunDelete, CanStart, IdleAdmin, AdminMarkInv
<1>6. CASE AdminReads
  <2>1. ASSUME NEW b \in Backup, NEW m \in {"NO", "FIND_FULL"}, HandleDeleteBefore(b, m)
        PROVE  AdminMarkInv'
    BY <1>1, <1>2, <2>1, Zenon
       DEF HandleDeleteBefore, DeleteBeforeTarget, DeleteObjectsWhere, TypeOK, AdminStates
  <2>2. ASSUME NEW n \in 0 .. MaxRetain, NEW m \in Modifiers, HandleDeleteRetain(n, m)
        PROVE  AdminMarkInv'
    BY <1>1, <1>2, <2>2, Zenon
       DEF HandleDeleteRetain, DeleteBeforeTarget, DeleteObjectsWhere, TypeOK, AdminStates
  <2>3. ASSUME NEW b \in Backup, NEW findFull \in BOOLEAN, HandleDeleteTarget(b, findFull)
        PROVE  AdminMarkInv'
    BY <1>1, <1>2, <2>3, Zenon DEF HandleDeleteTarget, DeleteObjectsWhere, TypeOK, AdminStates
  <2>4. ASSUME NEW force \in BOOLEAN, HandleDeleteEverything(force) PROVE AdminMarkInv'
    BY <1>1, <1>2, <2>4, Zenon DEF HandleDeleteEverything, DeleteObjectsWhere, TypeOK, AdminStates
  <2>5. CASE AdminCrash
    BY <1>1, <2>5, Zenon DEF AdminCrash
  <2> QED
    BY <1>3, <1>4, <1>5, <1>6, <2>1, <2>2, <2>3, <2>4, <2>5, Zenon DEF AdminReads
<1>7. CASE PushBegins
  <2>1. UNCHANGED <<stored, permanent, from, admin>>
    BY <1>7, Zenon DEF PushBegins, BeginPush
  <2>2. admin.pc # "idle" => admin.cmd \in Overlapping
    BY <1>7, Zenon DEF PushBegins, CanPush, MayOverlap
  <2> QED
    BY <2>1, <2>2, Zenon DEF AdminMarkInv, MarkableTodo, Marked, PermanentBackups, Visible, Has
<1>8. CASE PushWrites
  <2>1. /\ stored \subseteq stored' /\ permanent \subseteq permanent'
        /\ UNCHANGED admin /\ push.pc # "idle"
        /\ \A b \in Visible : from'[b] = from[b]
    BY <1>8, PushWritesEffect, Zenon
  <2>2. admin.pc # "idle" => admin.cmd \in Overlapping
    BY <2>1, Zenon DEF AdminMarkInv
  <2>3. admin.pc = "marking" => admin.cmd = "mark"
    BY <2>2, UsageAssumption, Zenon DEF AdminMarkInv
  <2>4. ASSUME admin.pc = "marking" PROVE MarkableTodo(admin.todo)'
    <3>1. MarkableTodo(admin.todo) /\ admin.todo \subseteq Backup
      BY <2>3, <2>4, Zenon DEF AdminMarkInv, TypeOK, AdminStates
    <3>2. \A b \in admin.todo : b \in Visible
      BY <3>1, Zenon DEF MarkableTodo, Visible
    <3> QED
      BY <2>1, <3>1, <3>2, Zenon DEF MarkableTodo, Marked, Has
  <2> QED
    BY <2>1, <2>2, <2>3, <2>4, Zenon DEF AdminMarkInv
<1>9. CASE AdminSetIsPermanent
  <2>1. UNCHANGED <<stored, from, push>> /\ admin.pc = "marking"
    BY <1>9, Zenon DEF AdminSetIsPermanent
  <2>2. ASSUME NEW b \in NextToMark(admin.todo), Has("meta", b),
               permanent' = IF admin.cmd = "mark" THEN permanent \cup {b}
                                                  ELSE permanent \ {b},
               admin' = [admin EXCEPT !.todo = @ \ {b}]
        PROVE  AdminMarkInv'
    <3>1. /\ admin'.pc = "marking" /\ admin'.cmd = admin.cmd /\ admin'.objs = admin.objs
          /\ admin'.todo = admin.todo \ {b}
      BY <2>1, <2>2, Zenon DEF TypeOK, AdminStates
    <3>2. CASE admin.cmd = "mark"
      <4>1. MarkableTodo(admin.todo)
        BY <2>1, <3>2, Zenon DEF AdminMarkInv
      <4>2. MarkedNext(b) /\ \A x : Marked(x) => MarkedNext(x)
        BY <2>1, <2>2, <3>2, <4>1, Zenon DEF Marked, MarkedNext, Has, MarkableTodo, NextToMark
      <4>3. MarkableTodo(admin.todo \ {b})'
        BY <2>1, <3>1, <4>1, <4>2, Zenon DEF MarkableTodo, Marked, MarkedNext, Has
      <4> QED
        BY <2>1, <3>1, <3>2, <4>3, Zenon DEF AdminMarkInv, MarkableTodo
    <3>3. CASE admin.cmd = "unmark"
      <4>1. PermanentBackups' \subseteq PermanentBackups
        BY <2>1, <2>2, <3>3, Zenon DEF PermanentBackups, Visible, Has
      <4> QED
        BY <2>1, <3>1, <3>3, <4>1, Zenon DEF AdminMarkInv
    <3> QED
      BY <2>1, <3>2, <3>3, Zenon DEF AdminMarkInv
  <2> QED
    BY <1>1, <1>9, <2>2, Zenon DEF AdminSetIsPermanent
<1>10. CASE DeleteObject
  BY <1>1, <1>2, <1>10, Zenon DEF DeleteObject, TypeOK, AdminStates
<1> QED
  BY <1>6, <1>7, <1>8, <1>9, <1>10, NextKinds, Zenon DEF PushWrites

\* findRelatedBackups returns with a backup all its listed increments.
LEMMA RelatedClosed ==
    ASSUME TypeOK, SentinelInv, NEW b \in Backup
    PROVE  \A x \in Visible : from[x] # None /\ from[x] \in FindRelatedBackups(b)
                               => x \in FindRelatedBackups(b)
<1> DEFINE base == IF IsFull(b) THEN b ELSE full[b]
<1>1. IsFull(base)
  BY Zenon DEF SentinelInv, IsFull
<1> HIDE DEF base
<1>2. FindRelatedBackups(b) = {x \in Visible : x = base \/ (~IsFull(x) /\ full[x] = base)}
  BY Zenon DEF FindRelatedBackups, base
<1> TAKE x \in Visible
<1>3. HAVE from[x] # None /\ from[x] \in FindRelatedBackups(b)
<1>4. full[x] = IF IsFull(from[x]) THEN from[x] ELSE full[from[x]]
  BY <1>3, Zenon DEF SentinelInv, Visible
<1>5. full[x] = base
  BY <1>1, <1>2, <1>3, <1>4, Zenon
<1> QED
  BY <1>2, <1>3, <1>5, Zenon DEF IsFull

\* What a delete command chooses holds no base of a permanent backup it leaves.
ChoiceIsSafe(objs) ==
    \A b \in Retained \cap permanent :
        (from[b] # None /\ \A o \in objs : o[1] # "wal" => o[2] # b)
            => \A o \in objs : o[2] # from[b]

\* delete before and delete retain leave the target and all that is newer, and
\* the permanent chains.
LEMMA BeforeIsSafe ==
    ASSUME IInv, admin.pc = "read", NEW t \in Backup, VisibleFull(t)
    PROVE  /\ ChoiceIsSafe(ObjectsBefore(t, admin.keep))
           /\ \A o \in ObjectsBefore(t, admin.keep) : o[2] < t
<1> USE DEF IInv
<1> DEFINE objs == ObjectsBefore(t, admin.keep)
<1>1. \A o : o \in objs <=> o \in stored /\ o[2] < t /\ o[2] \notin admin.keep
  BY Zenon DEF ObjectsBefore, IsPermanent
<1> HIDE DEF objs
<1>2. ASSUME NEW b \in Retained \cap permanent, from[b] # None,
             \A o \in objs : o[1] # "wal" => o[2] # b,
             NEW o \in objs
      PROVE  o[2] # from[b]
  <2>1. b \in Visible /\ b \in Backup /\ b \notin doomed /\ <<"sentinel", b>> \in stored
    BY Zenon DEF Retained, Visible, Has
  <2>2. <<"sentinel", b>> \notin objs
    BY <1>2, Zenon
  <2>3. ~(b < t) \/ b \in admin.keep
    BY <1>1, <2>1, <2>2, Zenon
  <2>4. CASE b \in admin.keep
    BY <1>1, <1>2, <2>1, <2>4, Zenon DEF DeleteInv
  <2>5. CASE ~(b < t)
    <3>1. b # t
      BY <1>2, Zenon DEF VisibleFull, IsFull
    <3>2. t < b
      BY <2>1, <2>5, <3>1 DEF Backup
    <3>3. from[b] \in Backup /\ from[b] >= t
      BY <1>2, <2>1, <3>2, Zenon DEF LinearInv, TypeOK
    <3>4. o \in stored /\ o[2] < t
      BY <1>1, Zenon
    <3>5. o[2] \in Backup
      BY <3>4, Zenon DEF TypeOK, Objects
    <3> QED
      BY <3>3, <3>4, <3>5, Apart, Zenon
  <2> QED
    BY <2>3, <2>4, <2>5, Zenon
<1> QED
  BY <1>1, <1>2, Zenon DEF ChoiceIsSafe, objs

\* delete target takes with a backup all the increments on it.
LEMMA TargetIsSafe ==
    ASSUME IInv, NEW targets,
           \A x \in Visible : from[x] # None /\ from[x] \in targets => x \in targets
    PROVE  ChoiceIsSafe(ObjectsOf(targets, admin.keep))
<1> DEFINE objs == ObjectsOf(targets, admin.keep)
<1>1. \A o : o \in objs <=> o \in stored /\ o[1] # "wal" /\ o[2] \in targets
  BY Zenon DEF ObjectsOf, IsPermanent
<1> HIDE DEF objs
<1>2. ASSUME NEW b \in Retained \cap permanent, from[b] # None,
             \A o \in objs : o[1] # "wal" => o[2] # b,
             NEW o \in objs
      PROVE  o[2] # from[b]
  <2>1. b \in Visible /\ <<"sentinel", b>> \in stored
    BY Zenon DEF Retained, Visible, Has
  <2>2. b \notin targets
    BY <1>1, <1>2, <2>1
  <2> QED
    BY <1>1, <1>2, <2>1, <2>2, Zenon
<1> QED
  BY <1>2, Zenon DEF ChoiceIsSafe, objs

\* delete everything leaves no backup.
LEMMA EverythingIsSafe == ChoiceIsSafe(stored)
  BY Zenon DEF ChoiceIsSafe, Retained, Visible, Has

\* The choice of a delete command establishes DeleteInv.
LEMMA ChoiceStep ==
    ASSUME IInv, admin.pc = "read", NEW objs, NEW floor,
           DeleteObjectsWhere(objs, floor), UNCHANGED <<stored, permanent, from>>,
           ChoiceIsSafe(objs),
           admin.cmd \in {"before", "retain"} =>
             \E t \in Backup : VisibleFull(t) /\ \A o \in objs : o[2] < t
    PROVE  DeleteInv'
<1> USE DEF IInv
<1>1. /\ admin'.pc = "deleting" /\ admin'.cmd = admin.cmd /\ admin'.objs = objs
      /\ admin.cmd \in DeleteCommands
  BY Zenon DEF DeleteObjectsWhere, TypeOK, AdminStates, DeleteInv
<1>2. doomed \subseteq doomed' /\ \A o \in objs : o[1] # "wal" => o[2] \in doomed'
  BY Zenon DEF DeleteObjectsWhere
<1>3. Visible' = Visible
  BY Zenon DEF Visible, Has
<1>4. ASSUME NEW b \in Retained' \cap permanent', from'[b] # None,
             NEW o \in admin'.objs
      PROVE  o[2] # from'[b]
  <2>1. b \in Retained \cap permanent /\ \A x \in objs : x[1] # "wal" => x[2] # b
    BY <1>2, <1>3, Zenon DEF Retained
  <2> QED
    BY <1>1, <1>4, <2>1, Zenon DEF ChoiceIsSafe
<1>5. \A t : VisibleFull(t)' <=> VisibleFull(t)
  BY <1>3, Zenon DEF VisibleFull, IsFull
<1> QED
  BY <1>1, <1>4, <1>5, Zenon DEF DeleteInv

\* A target of delete before or retain is listed and full, or nothing is deleted.
LEMMA BeforeTargetStep ==
    ASSUME IInv, admin.pc = "read", NEW targets \in SUBSET Visible, NEW floor,
           DeleteBeforeTarget(targets, floor), UNCHANGED <<stored, permanent, from>>
    PROVE  DeleteInv'
<1> USE DEF IInv
<1>1. CASE admin' = IdleAdmin
  BY <1>1, Zenon DEF DeleteInv, IdleAdmin
<1>2. ASSUME NEW t \in targets, IsFull(t),
             DeleteObjectsWhere(ObjectsBefore(t, admin.keep), floor)
      PROVE  DeleteInv'
  <2>1. t \in Backup /\ VisibleFull(t)
    BY <1>2, Zenon DEF VisibleFull, Visible
  <2> QED
    BY <1>2, <2>1, BeforeIsSafe, ChoiceStep, Zenon
<1> QED
  BY <1>1, <1>2, Zenon DEF DeleteBeforeTarget

\* What a delete command has read and chosen stays right while a backup-push runs.
LEMMA DeleteStep == IInv /\ Next => DeleteInv'
<1> SUFFICES ASSUME IInv, Next PROVE DeleteInv'
  OBVIOUS
<1> USE DEF IInv
<1>1. CASE admin' = IdleAdmin
  BY <1>1, Zenon DEF DeleteInv, IdleAdmin
<1>2. CASE admin'.pc = "marking"
  BY <1>2, Zenon DEF DeleteInv
<1>3. ASSUME NEW cmd \in DeleteCommands, RunDelete(cmd) PROVE DeleteInv'
  <2>1. /\ admin'.pc = "read" /\ admin'.cmd = cmd /\ admin'.objs = {}
        /\ admin'.keep = PermanentBackups
        /\ UNCHANGED <<stored, permanent, from, doomed>>
    BY <1>3, UsageAssumption, Zenon DEF RunDelete, IdleAdmin
  <2>2. PermanentBackups \subseteq Visible /\ Visible' = Visible
    BY <2>1, Zenon DEF PermanentBackups, Visible, Has
  <2>3. ASSUME NEW b \in PermanentBackups \ doomed, from[b] # None
        PROVE  from[b] \in PermanentBackups
    <3>1. b \in Retained \cap permanent /\ from[b] \in Backup
      BY <2>3, Zenon DEF PermanentBackups, Retained, Visible, TypeOK
    <3>2. Marked(from[b])
      BY <2>3, <3>1, Zenon DEF PermanentInv
    <3> QED
      BY <3>1, <3>2, Zenon DEF Marked, PermanentBackups, Visible
  <2> QED
    BY <2>1, <2>2, <2>3, Zenon DEF DeleteInv
<1>4. CASE AdminReads
  <2>1. ASSUME NEW b \in Backup, NEW m \in {"NO", "FIND_FULL"}, HandleDeleteBefore(b, m)
        PROVE  DeleteInv'
    <3>1. FindTarget(Visible, BeforeChoice(b, m)) \in SUBSET Visible
      BY Zenon DEF FindTarget
    <3> QED
      BY <2>1, <3>1, BeforeTargetStep, Zenon DEF HandleDeleteBefore
  <2>2. ASSUME NEW n \in 0 .. MaxRetain, NEW m \in Modifiers, HandleDeleteRetain(n, m)
        PROVE  DeleteInv'
    <3>1. FindTarget(Visible, RetainChoice(n, m)) \in SUBSET Visible
      BY Zenon DEF FindTarget
    <3> QED
      BY <2>2, <3>1, BeforeTargetStep, Zenon DEF HandleDeleteRetain
  <2>3. ASSUME NEW b \in Backup, NEW findFull \in BOOLEAN, HandleDeleteTarget(b, findFull)
        PROVE  DeleteInv'
    <3> DEFINE targets == IF findFull THEN FindRelatedBackups(b) ELSE FindDependantBackups(b)
    <3>1. \A x \in Visible : from[x] # None /\ from[x] \in targets => x \in targets
      BY RelatedClosed, DependantsClosed, Zenon
    <3>2. /\ admin.pc = "read" /\ admin.cmd = "target"
          /\ UNCHANGED <<stored, permanent, from>>
          /\ \/ admin' = IdleAdmin
             \/ DeleteObjectsWhere(ObjectsOf(targets, admin.keep), 0)
      BY <2>3, Zenon DEF HandleDeleteTarget
    <3> HIDE DEF targets
    <3>3. ChoiceIsSafe(ObjectsOf(targets, admin.keep))
      BY <3>1, TargetIsSafe, Zenon
    <3> QED
      BY <1>1, <3>2, <3>3, ChoiceStep, Zenon
  <2>4. ASSUME NEW force \in BOOLEAN, HandleDeleteEverything(force) PROVE DeleteInv'
    <3>1. /\ admin.pc = "read" /\ admin.cmd = "everything"
          /\ UNCHANGED <<stored, permanent, from>>
          /\ admin' = IdleAdmin \/ DeleteObjectsWhere(stored, 0)
      BY <2>4, Zenon DEF HandleDeleteEverything
    <3> QED
      BY <1>1, <3>1, EverythingIsSafe, ChoiceStep, Zenon
  <2>5. ASSUME NEW b \in Backup, MarkPermanent(b) \/ MarkImpermanent(b) PROVE DeleteInv'
    <3>1. admin'.pc = "marking"
      BY <2>5, Zenon DEF MarkPermanent, MarkImpermanent, IdleAdmin
    <3> QED
      BY <1>2, <3>1, Zenon
  <2>6. CASE AdminCrash
    BY <1>1, <2>6, Zenon DEF AdminCrash
  <2> QED
    BY <1>3, <1>4, <2>1, <2>2, <2>3, <2>4, <2>5, <2>6, Zenon DEF AdminReads
<1>5. CASE PushBegins
  BY <1>5, Zenon DEF PushBegins, BeginPush, DeleteInv, Retained, Visible, Has, VisibleFull, IsFull
<1>6. CASE PushWrites
  <2>1. /\ stored \subseteq stored' /\ UNCHANGED <<admin, doomed>> /\ push.pc # "idle"
        /\ \A b \in Visible : from'[b] = from[b]
    BY <1>6, PushWritesEffect, Zenon
  <2>2. Visible \subseteq Visible'
    BY <2>1, Zenon DEF Visible, Has
  <2>3. CASE admin.pc # "deleting"
    BY <2>1, <2>2, <2>3, Zenon DEF DeleteInv
  <2>4. CASE admin.pc = "deleting"
    <3>1. PICK t \in Backup : VisibleFull(t) /\ \A o \in admin.objs : o[2] < t
      <4>1. admin.cmd \in {"before", "retain"}
        BY <2>1, <2>4, UsageAssumption, Zenon DEF AdminMarkInv, DeleteInv, DeleteCommands
      <4> QED
        BY <2>4, <4>1, Zenon DEF DeleteInv
    <3>2. VisibleFull(t)'
      BY <2>1, <2>2, <3>1, Zenon DEF VisibleFull, IsFull
    <3>3. ASSUME NEW b \in Retained' \cap permanent', from'[b] # None, NEW o \in admin.objs
          PROVE  o[2] # from'[b]
      <4>1. o[2] \in Backup /\ o[2] < t /\ b \in Backup
        BY <3>1, Zenon DEF TypeOK, AdminStates, Objects, Retained, Visible
      <4>2. CASE b \in Retained \cap permanent
        BY <2>1, <2>4, <3>3, <4>2, Zenon DEF DeleteInv, Retained
      <4>3. CASE UploadSentinel /\ b = Cur
        <5>1. from'[b] = push.prev
          BY <4>3, SentinelEffect, Zenon
        <5>2. push.prev \in Backup /\ push.prev >= t
          BY <2>1, <3>1, <3>3, <5>1, Zenon DEF PushInv, TypeOK, PushStates
        <5>3. o[2] # push.prev
          BY <4>1, <5>2, Apart, Zenon
        <5> QED
          BY <5>1, <5>3, Zenon
      <4>4. CASE PushSetIsPermanent /\ b \in push.todo
        <5>1. b \in Visible /\ from[b] = from'[b]
          BY <4>1, <4>4, <2>1, Zenon DEF PushSetIsPermanent, PushMarkInv, MarkableTodo, Visible
        <5>2. \A u \in Backup : VisibleFull(u) => b >= u
          BY <4>4, Zenon DEF PushSetIsPermanent, PushMarkInv
        <5>3. from[b] \in Backup /\ from[b] >= t
          BY <3>1, <3>3, <4>1, <5>1, <5>2, BaseAbove, Zenon
        <5>4. o[2] # from[b]
          BY <4>1, <5>3, Apart, Zenon
        <5> QED
          BY <5>1, <5>4, Zenon
      <4>5. b \in Retained \cap permanent \/ (UploadSentinel /\ b = Cur)
              \/ (PushSetIsPermanent /\ b \in push.todo)
        <5>1. CASE UploadSentinel
          BY <2>1, <3>3, <5>1, SentinelEffect DEF UploadSentinel, Retained
        <5>2. CASE StartBackup \/ MarkBackups \/ PushCrash
          BY <2>1, <3>3, <5>2, Zenon DEF StartBackup, MarkBackups, PushCrash, Retained, Visible, Has
        <5>3. CASE UploadBackup
          BY <2>1, <3>3, <5>3, Zenon DEF UploadBackup, Retained, Visible, Has
        <5>4. CASE PushSetIsPermanent
          BY <2>1, <3>3, <5>4, Zenon DEF PushSetIsPermanent, Retained, Visible, Has, NextToMark
        <5>5. CASE UploadExtendedMetadata
          <6>1. Visible' = Visible /\ Cur \notin Visible
            BY <5>5, Zenon DEF UploadExtendedMetadata, FreshInv, Visible, Has
          <6> QED
            BY <2>1, <3>3, <5>5, <6>1, Zenon DEF UploadExtendedMetadata, Retained
        <5> QED
          BY <1>6, <5>1, <5>2, <5>3, <5>4, <5>5, Zenon DEF PushWrites
      <4> QED
        BY <4>2, <4>3, <4>4, <4>5, Zenon
    <3>4. admin.cmd \in DeleteCommands
      BY <2>4, Zenon DEF DeleteInv
    <3> QED
      BY <2>1, <2>4, <3>1, <3>2, <3>3, <3>4 DEF DeleteInv
  <2> QED
    BY <2>3, <2>4, Zenon
<1>7. CASE AdminSetIsPermanent
  BY <1>1, <1>2, <1>7, Zenon DEF AdminSetIsPermanent, TypeOK, AdminStates
<1>8. CASE DeleteObject
  <2>1. ASSUME NEW o \in admin.objs, stored' = stored \ {o},
               permanent' \subseteq permanent,
               admin' = [admin EXCEPT !.objs = @ \ {o}]
        PROVE  DeleteInv'
    <3>1. /\ admin.pc = "deleting" /\ admin'.pc = "deleting" /\ admin'.cmd = admin.cmd
          /\ admin'.objs = admin.objs \ {o} /\ UNCHANGED <<from, doomed>>
      BY <1>8, <2>1, Zenon DEF DeleteObject, TypeOK, AdminStates
    <3>2. Retained' \subseteq Retained
      BY <2>1, <3>1, Zenon DEF Retained, Visible, Has
    <3>3. \A t \in Backup : VisibleFull(t) /\ o[2] < t => VisibleFull(t)'
      BY <2>1, <3>1 DEF VisibleFull, Visible, Has, IsFull, Backup
    <3> QED
      BY <2>1, <3>1, <3>2, <3>3, Zenon DEF DeleteInv
  <2> QED
    BY <1>1, <1>8, <2>1, Zenon DEF DeleteObject
<1> QED
  BY <1>4, <1>5, <1>6, <1>7, <1>8, NextKinds, Zenon DEF PushWrites

\* A permanent backup is new in one of three ways, each of them after its base.
LEMMA NewPermanent ==
    ASSUME IInv, Next, NEW b \in Retained' \cap permanent'
    PROVE  \/ b \in Retained \cap permanent /\ from'[b] = from[b]
           \/ UploadSentinel /\ b = Cur
           \/ PushSetIsPermanent /\ b \in NextToMark(push.todo)
           \/ AdminSetIsPermanent /\ b \in NextToMark(admin.todo) /\ admin.cmd = "mark"
<1> USE DEF IInv
<1>1. CASE AdminReads
  <2>1. doomed \subseteq doomed'
    BY <1>1, Zenon
       DEF AdminReads, MarkPermanent, MarkImpermanent, RunDelete, HandleDeleteBefore, HandleDeleteRetain,
           HandleDeleteTarget, HandleDeleteEverything, AdminCrash, DeleteBeforeTarget, DeleteObjectsWhere
  <2> QED
    BY <1>1, <2>1, AdminReadsFrame, Zenon DEF Retained, Visible, Has
<1>2. CASE PushBegins
  BY <1>2, Zenon DEF PushBegins, BeginPush, Retained, Visible, Has
<1>3. CASE UploadSentinel
  BY <1>3, SentinelEffect DEF UploadSentinel, Retained, Visible
<1>4. CASE StartBackup \/ MarkBackups \/ PushCrash
  BY <1>4, Zenon DEF StartBackup, MarkBackups, PushCrash, Retained, Visible, Has
<1>5. CASE UploadBackup
  BY <1>5, Zenon DEF UploadBackup, Retained, Visible, Has
<1>6. CASE PushSetIsPermanent
  <2>1. UNCHANGED <<stored, from, doomed>>
    BY <1>6, Zenon DEF PushSetIsPermanent
  <2>2. Retained' = Retained
    BY <2>1, Zenon DEF Retained, Visible, Has
  <2>3. permanent' \subseteq permanent \cup NextToMark(push.todo)
    BY <1>6, Zenon DEF PushSetIsPermanent
  <2> QED
    BY <1>6, <2>1, <2>2, <2>3, Zenon
<1>7. CASE UploadExtendedMetadata
  <2>1. Visible' = Visible /\ Cur \notin Visible
    BY <1>7, Zenon DEF UploadExtendedMetadata, FreshInv, Visible, Has
  <2> QED
    BY <1>7, <2>1, Zenon DEF UploadExtendedMetadata, Retained
<1>8. CASE AdminSetIsPermanent
  <2>1. UNCHANGED <<stored, from, doomed>>
    BY <1>8, Zenon DEF AdminSetIsPermanent
  <2>2. Retained' = Retained
    BY <2>1, Zenon DEF Retained, Visible, Has
  <2>3. \/ permanent' \subseteq permanent
        \/ permanent' \subseteq permanent \cup NextToMark(admin.todo) /\ admin.cmd = "mark"
    BY <1>8, Zenon DEF AdminSetIsPermanent
  <2> QED
    BY <1>8, <2>1, <2>2, <2>3, Zenon
<1>9. CASE DeleteObject
  BY <1>9, Zenon DEF DeleteObject, Retained, Visible, Has
<1> QED
  BY <1>1, <1>2, <1>3, <1>4, <1>5, <1>6, <1>7, <1>8, <1>9, NextKinds

\* A permanent backup has its metadata.
LEMMA MetaStep == IInv /\ Next => \A b \in permanent' : <<"meta", b>> \in stored'
<1> SUFFICES ASSUME IInv, Next PROVE \A b \in permanent' : <<"meta", b>> \in stored'
  BY Zenon
<1> USE DEF IInv
<1>0. \A b \in permanent : <<"meta", b>> \in stored
  BY Zenon DEF PermanentInv, Has
<1>1. CASE AdminReads
  BY <1>0, <1>1, AdminReadsFrame, Zenon
<1>2. CASE PushBegins
  BY <1>0, <1>2, Zenon DEF PushBegins, BeginPush
<1>3. CASE StartBackup \/ MarkBackups \/ PushCrash
  BY <1>0, <1>3, Zenon DEF StartBackup, MarkBackups, PushCrash
<1>4. CASE UploadBackup \/ UploadSentinel \/ UploadExtendedMetadata
  BY <1>0, <1>4, Zenon DEF UploadBackup, UploadSentinel, UploadExtendedMetadata
<1>5. CASE PushSetIsPermanent
  BY <1>0, <1>5, Zenon DEF PushSetIsPermanent, Has
<1>6. CASE AdminSetIsPermanent
  BY <1>0, <1>6, Zenon DEF AdminSetIsPermanent, Has
<1>7. CASE DeleteObject
  <2>1. ASSUME NEW o \in admin.objs, stored' = stored \ {o},
               permanent' = IF o[1] = "meta" THEN permanent \ {o[2]} ELSE permanent,
               NEW b \in permanent'
        PROVE  <<"meta", b>> \in stored'
    <3>1. b \in permanent /\ (o[1] = "meta" => o[2] # b)
      BY <2>1, Zenon
    <3> QED
      BY <1>0, <2>1, <3>1
  <2> QED
    BY <1>0, <1>7, <2>1, Zenon DEF DeleteObject
<1> QED
  BY <1>1, <1>2, <1>3, <1>4, <1>5, <1>6, <1>7, NextKinds, Zenon

\* The base of a retained permanent backup stays permanent.
LEMMA PermanentStep == IInv /\ Next => PermanentInv'
<1> SUFFICES ASSUME IInv, Next PROVE PermanentInv'
  OBVIOUS
<1> USE DEF IInv
<1>1. ASSUME NEW b \in Retained' \cap permanent', from'[b] # None
      PROVE  MarkedNext(from'[b])
  <2>1. CASE b \in Retained \cap permanent /\ from'[b] = from[b]
    <3>1. from[b] \in Backup /\ Marked(from[b]) /\ b \in PermanentBackups
      BY <1>1, <2>1, Zenon DEF PermanentInv, TypeOK, Retained, Visible, PermanentBackups
    <3>2. \A o \in admin.objs : o[2] # from[b]
      BY <1>1, <2>1, Zenon DEF DeleteInv, AdminMarkInv, TypeOK, AdminStates
    <3>3. ~(admin.pc = "marking" /\ admin.cmd = "unmark" /\ from[b] \in admin.todo)
      BY <3>1, Zenon DEF AdminMarkInv
    <3>4. Has("sentinel", from[b]) /\ Has("meta", from[b]) /\ from[b] \in permanent
      BY <3>1, Zenon DEF Marked
    <3>5. PICK a \in Backup : a = from[b]
      BY <3>1, Zenon
    <3>6. Has("sentinel", a)' /\ Has("meta", a)'
      BY <3>2, <3>4, <3>5, StoredStable, Zenon
    <3>7. a \in permanent'
      BY <3>2, <3>3, <3>4, <3>5, PermanentStable, Zenon
    <3> QED
      BY <2>1, <3>5, <3>6, <3>7, Zenon DEF MarkedNext, Has
  <2>2. CASE UploadSentinel /\ b = Cur
    <3>1. from'[b] = push.prev /\ push.prev # None
      BY <1>1, <2>2, SentinelEffect, Zenon
    <3>2. Marked(push.prev)
      BY <1>1, <2>2, <3>1, Zenon DEF UploadSentinel, PushMarkInv
    <3>3. stored \subseteq stored' /\ permanent' = permanent
      BY <2>2, Zenon DEF UploadSentinel
    <3> QED
      BY <3>1, <3>2, <3>3, Zenon DEF Marked, MarkedNext, Has
  <2>3. CASE PushSetIsPermanent /\ b \in NextToMark(push.todo)
    <3>1. /\ UNCHANGED <<stored, from>> /\ permanent \subseteq permanent'
          /\ push.pc = "marking"
      BY <2>3, Zenon DEF PushSetIsPermanent
    <3>2. Marked(from[b])
      BY <1>1, <2>3, <3>1, Zenon DEF PushMarkInv, MarkableTodo, NextToMark
    <3> QED
      BY <3>1, <3>2, Zenon DEF Marked, MarkedNext, Has
  <2>4. CASE AdminSetIsPermanent /\ b \in NextToMark(admin.todo) /\ admin.cmd = "mark"
    <3>1. /\ UNCHANGED <<stored, from>> /\ permanent \subseteq permanent'
          /\ admin.pc = "marking"
      BY <2>4, Zenon DEF AdminSetIsPermanent
    <3>2. Marked(from[b])
      BY <1>1, <2>4, <3>1, Zenon DEF AdminMarkInv, MarkableTodo, NextToMark
    <3> QED
      BY <3>1, <3>2, Zenon DEF Marked, MarkedNext, Has
  <2> QED
    BY <2>1, <2>2, <2>3, <2>4, NewPermanent, Zenon
<1> QED
  BY <1>1, MetaStep, Zenon DEF PermanentInv, Marked, MarkedNext, Has

-----------------------------------------------------------------------------
(* Theorems *)

\* The empty storage satisfies the invariant.
LEMMA InvInit == Init => IInv
<1> SUFFICES ASSUME Init PROVE IInv
  OBVIOUS
<1>1. TypeOK
  BY TypeInit, Zenon
<1>2. FreshInv /\ SentinelInv /\ LinearInv /\ PushInv
  BY Zenon DEF Init, FreshInv, SentinelInv, LinearInv, PushInv, IdlePush
<1>3. PushMarkInv /\ AdminMarkInv /\ DeleteInv /\ PermanentInv
  BY Zenon DEF Init, PushMarkInv, AdminMarkInv, DeleteInv, PermanentInv, IdlePush, IdleAdmin
<1> QED
  BY <1>1, <1>2, <1>3, Zenon DEF IInv

\* Every step of every command preserves the invariant.
LEMMA InvStep == IInv /\ [Next]_vars => IInv'
<1> SUFFICES ASSUME IInv, [Next]_vars PROVE IInv'
  OBVIOUS
<1>1. CASE Next
  BY <1>1, TypeStep, FreshStep, SentinelStep, LinearStep, PushStep, PushMarkStep, AdminMarkStep, DeleteStep,
     PermanentStep, Zenon
     DEF IInv
<1>2. CASE UNCHANGED vars
  <2>1. TypeOK'
    BY TypeStep, Zenon DEF IInv
  <2>2. FreshInv' /\ SentinelInv' /\ LinearInv' /\ PushInv'
    BY <1>2, Zenon
       DEF IInv, vars, FreshInv, SentinelInv, LinearInv, PushInv, VisibleFull, Visible, Has, IsFull, Cur
  <2>3. PushMarkInv' /\ AdminMarkInv'
    BY <1>2 DEF IInv, vars, PushMarkInv, AdminMarkInv, MarkableTodo, Marked, VisibleFull,
                Visible, Has, IsFull, Cur, PermanentBackups
  <2>4. DeleteInv' /\ PermanentInv'
    BY <1>2 DEF IInv, vars, DeleteInv, PermanentInv, Marked, VisibleFull, Visible, Has,
                IsFull, Retained
  <2> QED
    BY <2>1, <2>2, <2>3, <2>4, Zenon DEF IInv
<1> QED
  BY <1>1, <1>2, Zenon

\* The invariant holds in every state that the commands can reach.
THEOREM Invariant == Spec => []IInv
  BY InvInit, InvStep, PTL DEF Spec

\* The storage, the sentinels and the two processes keep their types.
THEOREM TypeCorrect == Spec => []TypeOK
<1>1. IInv => TypeOK
  BY Zenon DEF IInv
<1> QED
  BY <1>1, Invariant, PTL

\* A retained permanent delta is based on a permanent backup, for any number of
\* backups, any interleaving of a backup-push with delete before, delete retain
\* or backup-mark, and any crash.
THEOREM PermanentClosure == Spec => []PermanentClosed
<1>1. IInv => PermanentClosed
  BY Zenon DEF IInv, PermanentInv, PermanentClosed, Marked, IsFull
<1> QED
  BY <1>1, Invariant, PTL
=============================================================================
