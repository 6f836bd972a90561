----------------------- MODULE CatalogRetentionProofs -----------------------
(***************************************************************************)
(* What the catalog promises about the backups that nobody asked to        *)
(* delete: they can be restored, their chains are sound, and delete before *)
(* and delete retain remove neither permanent backups nor more backups     *)
(* than they were asked to.  Built on the invariant of BackupCatalogProofs. *)
(***************************************************************************)
EXTENDS BackupCatalogProofs, FiniteSetTheorems

\* A delete that died half-way leaves listed backups that have lost their base.
\* No delta is ever based on one of them: either nobody deletes the newest
\* backups, or no delete dies.
Trimming == AdminCommands \subseteq {"before", "retain", "mark", "unmark"}
NoDeleteDies == Crashable \cap DeleteCommands = {}

ASSUME CrashAssumption == Trimming \/ NoDeleteDies

-----------------------------------------------------------------------------
(* The inductive invariant *)

InProgress == push.pc \in {"upload", "mark", "marking", "meta", "sentinel"}

\* Backups that were chosen are older than a listed full backup, or are about to
\* lose their sentinel.
DoomedInv ==
    /\ admin.pc # "idle" => admin.cmd \in AdminCommands
    /\ \A d \in doomed : d <= started
    /\ InProgress => Cur \notin doomed
    /\ Trimming => \A d \in doomed : \E t \in Backup : VisibleFull(t) /\ d < t
    /\ NoDeleteDies => \A d \in doomed \cap Visible : <<"sentinel", d>> \in admin.objs

\* A retained backup is whole and so is its base; nothing of it is being deleted.
WholeInv ==
    /\ \A b \in Retained :
         /\ Has("wal", b) /\ Has("data", b)
         /\ from[b] # None => from[b] \in Retained
         /\ \A o \in admin.objs : o[2] # b
    /\ push.pc # "idle" /\ push.prev # None => push.prev \in Retained
    /\ push.pc \in {"mark", "marking", "meta", "sentinel"} =>
         /\ Has("wal", Cur) /\ Has("data", Cur)
    /\ InProgress => \A o \in admin.objs : o[2] # Cur

\* The chain of a backup ends in its DeltaFullName and is as long as its
\* DeltaCount at most.
ChainInv ==
    /\ \A b \in Backup :
         /\ from[b] # None => full[b] \in Ancestors(b)
         /\ IsFiniteSet(Ancestors(b))
         /\ Cardinality(Ancestors(b)) <= count[b] + 1
         /\ count[b] <= MaxDeltas
    /\ push.pc # "idle" =>
         /\ push.cnt <= MaxDeltas
         /\ push.prev # None => Cardinality(Ancestors(push.prev)) <= push.cnt

\* A backup that became permanent after delete had read the list is not older
\* than any backup delete can take as its target, and is not being deleted.
KeepInv ==
    /\ admin.pc = "read" =>
         /\ \A b \in PermanentBackups \ admin.keep, t \in Backup : VisibleFull(t) => b >= t
         /\ push.pc # "idle" /\ push.prev = None => PermanentBackups \subseteq admin.keep
    /\ admin.pc = "deleting" /\ admin.cmd \in {"before", "retain"} =>
         \A o \in admin.objs : o[2] \notin PermanentBackups

RetentionInv == DoomedInv /\ WholeInv /\ ChainInv /\ KeepInv /\ RetainKeepsEnough

-----------------------------------------------------------------------------
(* Increment chains *)

\* The edges from increments to their bases.
Bases(f) == {<<x, f[x]>> : x \in {y \in Backup : f[y] # None}}

\* A new increment c on p, which nothing is based on yet, changes no other chain,
\* and its own chain is that of p and itself.
LEMMA ChainOfNew ==
    ASSUME NEW f \in [Backup -> Backup \cup {None}], NEW g \in [Backup -> Backup \cup {None}],
           NEW c \in Backup, f[c] = None, \A x \in Backup : f[x] # c,
           \A x \in Backup : x # c => g[x] = f[x],
           g[c] # c
    PROVE  /\ \A b \in Backup : b # c => Reach(b, Bases(g)) = Reach(b, Bases(f))
           /\ g[c] # None => Reach(g[c], Bases(f)) \subseteq Reach(c, Bases(g))
           /\ Reach(c, Bases(g)) \subseteq
                {c} \cup (IF g[c] = None THEN {} ELSE Reach(g[c], Bases(f)))
<1> DEFINE F == Bases(f)
           G == Bases(g)
           p == g[c]
<1>0. None \notin Backup
  BY DEF Backup, None
<1>1. \A e \in F : e[1] \in Backup /\ e[2] \in Backup /\ e[1] # c /\ e[2] # c
  BY DEF Bases
<1>2. \A e \in F : e \in G
  BY <1>0 DEF Bases
<1>3. \A e \in G : e \in F \/ (e[1] = c /\ e[2] = p /\ p # None)
  BY <1>0 DEF Bases
<1>4. p # None => <<c, p>> \in G /\ p \in Backup
  BY Zenon DEF Bases
<1> HIDE DEF F, G, p
<1>6. \A e \in G : e[1] \in Backup /\ e[2] \in Backup
  BY <1>1, <1>3, <1>4, ZenonT(30)
<1>7. \A b \in Backup : /\ Reach(b, F) \in SUBSET Backup /\ Reach(b, G) \in SUBSET Backup
                        /\ b \in Reach(b, F) /\ b \in Reach(b, G)
                        /\ \A e \in F : e[1] \in Reach(b, F) => e[2] \in Reach(b, F)
                        /\ \A e \in G : e[1] \in Reach(b, G) => e[2] \in Reach(b, G)
  BY <1>1, <1>6, ReachClosed, Zenon DEF Reach
<1>8. \A b \in Backup : Reach(b, F) \subseteq Reach(b, G)
  BY <1>2, <1>7, ReachLeast, ZenonT(30)
<1>9. ASSUME NEW b \in Backup, b # c PROVE Reach(b, G) \subseteq Reach(b, F)
  <2>1. Backup \ {c} \in SUBSET Backup /\ b \in Backup \ {c}
    BY <1>9, Zenon
  <2>2. \A e \in F : e[1] \in Backup \ {c} => e[2] \in Backup \ {c}
    BY <1>1, Zenon
  <2>3. Reach(b, F) \subseteq Backup \ {c}
    BY <2>1, <2>2, ReachLeast, Zenon
  <2>4. \A e \in G : e[1] \in Reach(b, F) => e[2] \in Reach(b, F)
    BY <1>3, <1>7, <2>3, ZenonT(30)
  <2> QED
    BY <1>7, <2>4, ReachLeast, ZenonT(30)
<1>10. ASSUME p # None PROVE Reach(p, F) \subseteq Reach(c, G)
  <2>1. p \in Reach(c, G)
    BY <1>4, <1>7, <1>10, ZenonT(30)
  <2> QED
    BY <1>2, <1>4, <1>7, <1>10, <2>1, ReachLeast, ZenonT(30)
<1>11. Reach(c, G) \subseteq {c} \cup (IF p = None THEN {} ELSE Reach(p, F))
  <2> DEFINE S == {c} \cup (IF p = None THEN {} ELSE Reach(p, F))
  <2>1. S \in SUBSET Backup /\ c \in S
    BY <1>4, <1>7, ZenonT(30)
  <2>2. \A e \in G : e[1] \in S => e[2] \in S
    BY <1>1, <1>3, <1>4, <1>7, ZenonT(30)
  <2> HIDE DEF S
  <2>3. Reach(c, G) \subseteq S
    BY <2>1, <2>2, ReachLeast, ZenonT(30)
  <2> QED
    BY <2>3, Zenon DEF S
<1>12. \A b \in Backup : b # c => Reach(b, G) = Reach(b, F)
  BY <1>8, <1>9, ZenonT(30)
<1> QED
  BY <1>10, <1>11, <1>12, Zenon DEF F, G, p

-----------------------------------------------------------------------------
(* What a delete command chooses *)

\* The objects chosen from the storage: whoever loses anything, or loses its base,
\* loses its sentinel with it.
SoundChoice(objs) ==
    /\ \A b \in Retained, o \in objs :
         \/ o[2] = b
         \/ o[1] # "wal" /\ from[b] # None /\ o[2] = from[b]
         => <<"sentinel", b>> \in objs
    /\ \A o \in objs : o[1] # "wal" /\ o[2] \in Visible => <<"sentinel", o[2]>> \in objs

\* delete before and retain choose what is older than a listed full backup.
ChoosesBefore(t, objs, floor) ==
    /\ VisibleFull(t)
    /\ objs = ObjectsBefore(t, admin.keep)
    /\ admin.cmd = "retain" => Cardinality(Newer(t, Visible)) >= floor

Chooses ==
    \E objs \in SUBSET stored, floor \in Nat :
        /\ admin.pc = "read"
        /\ DeleteObjectsWhere(objs, floor)
        /\ SoundChoice(objs)
        /\ admin.cmd \in {"before", "retain"} =>
             \E t \in Backup : ChoosesBefore(t, objs, floor)

\* The other steps in which the administrative command only reads.
Decides ==
    /\ UNCHANGED doomed
    /\ admin'.objs = {} /\ admin'.pc # "deleting"
    /\ admin'.pc = "read" => admin'.keep = PermanentBackups
    /\ \/ admin'.pc = "idle" /\ (admin.objs = {} \/ AdminCrash)
       \/ admin.pc = "idle" /\ admin'.cmd \in AdminCommands

\* There are finitely many listed backups.
LEMMA VisibleFinite == IsFiniteSet(Visible) /\ IsFiniteSet(Backup)
<1>1. IsFiniteSet(Backup)
  BY BoundsAssumption, FS_Interval DEF Backup
<1>2. Visible \subseteq Backup
  BY Zenon DEF Visible
<1> QED
  BY <1>1, <1>2, FS_Subset, ZenonT(30)

\* The target of delete retain has as many listed backups from it on as asked for.
LEMMA RetainTarget ==
    ASSUME NEW n \in Nat, NEW m \in Modifiers, NEW t \in FindTarget(Visible, RetainChoice(n, m))
    PROVE  Cardinality(Newer(t, Visible)) >= n
<1> DEFINE seen == Newer(t, Visible)
           fulls == {c \in seen : IsFull(c)}
<1>1. t \in Backup /\ RetainChoice(n, m)[t]
  BY Zenon DEF FindTarget, Visible
<1>2. \/ m = "NO" /\ Cardinality(seen) = n
      \/ m = "FULL" /\ Cardinality(fulls) = n
      \/ m = "FIND_FULL" /\ Cardinality(seen) >= n
  BY <1>1, Zenon DEF RetainChoice, Modifiers
<1>3. IsFiniteSet(seen) /\ fulls \subseteq seen
  BY VisibleFinite, FS_Subset, ZenonT(30) DEF Newer
<1>4. Cardinality(seen) \in Nat /\ Cardinality(fulls) <= Cardinality(seen)
  BY <1>3, FS_Subset, FS_CardinalityType, ZenonT(30)
<1> HIDE DEF seen, fulls
<1>5. Cardinality(seen) >= n
  BY <1>2, <1>4
<1> QED
  BY <1>5, Zenon DEF seen

\* delete before and delete retain choose soundly.
LEMMA BeforeIsSound ==
    ASSUME IInv, WholeInv, admin.pc = "read", NEW t \in Backup, VisibleFull(t)
    PROVE  SoundChoice(ObjectsBefore(t, admin.keep))
<1> USE DEF IInv
<1> DEFINE objs == ObjectsBefore(t, admin.keep)
<1>1. \A o : o \in objs <=> o \in stored /\ o[2] < t /\ o[2] \notin admin.keep
  BY Zenon DEF ObjectsBefore, IsPermanent
<1> HIDE DEF objs
<1>2. \A b \in Visible : b < t /\ b \notin admin.keep => <<"sentinel", b>> \in objs
  BY <1>1, Zenon DEF Visible, Has
<1>3. ASSUME NEW b \in Retained, NEW o \in objs, from[b] # None, o[2] = from[b]
      PROVE  <<"sentinel", b>> \in objs
  <2>1. b \in Visible /\ b \in Backup /\ b \notin doomed /\ from[b] \in Backup
    BY <1>3, Zenon DEF Retained, Visible, TypeOK
  <2>2. b \notin admin.keep
    BY <1>1, <1>3, <2>1, ZenonT(30) DEF DeleteInv
  <2>3. from[b] < t
    BY <1>1, <1>3, ZenonT(30)
  <2>4. b # t
    BY <1>3, Zenon DEF VisibleFull, IsFull
  <2>5. ~(t < b)
    BY <1>3, <2>1, <2>3, BackupIsInt DEF LinearInv
  <2>6. b < t
    BY <2>1, <2>4, <2>5, BackupIsInt
  <2> QED
    BY <1>2, <2>1, <2>2, <2>6, ZenonT(30)
<1>4. ASSUME NEW b \in Visible, NEW o \in objs, o[2] = b PROVE <<"sentinel", b>> \in objs
  BY <1>1, <1>2, <1>4, ZenonT(30)
<1> QED
  BY <1>3, <1>4, ZenonT(30) DEF SoundChoice, Retained, objs

\* delete target and delete everything choose soundly.
LEMMA TargetIsSound ==
    ASSUME NEW targets,
           \A x \in Visible : from[x] # None /\ from[x] \in targets => x \in targets
    PROVE  SoundChoice(ObjectsOf(targets, admin.keep)) /\ SoundChoice(stored)
<1> DEFINE objs == ObjectsOf(targets, admin.keep)
<1>1. \A o : o \in objs <=> o \in stored /\ o[1] # "wal" /\ o[2] \in targets
  BY Zenon DEF ObjectsOf, IsPermanent
<1> HIDE DEF objs
<1>2. \A b \in Visible \cap targets : <<"sentinel", b>> \in objs
  BY <1>1, Zenon DEF Visible, Has
<1>3. SoundChoice(objs)
  BY <1>1, <1>2, Zenon DEF SoundChoice, Retained
<1>4. SoundChoice(stored)
  BY Zenon DEF SoundChoice, Retained, Visible, Has
<1> QED
  BY <1>3, <1>4, ZenonT(30) DEF objs

\* A target of delete before or retain is listed and full, or the command ends.
LEMMA BeforeChooses ==
    ASSUME IInv, WholeInv, admin.pc = "read", NEW targets \in SUBSET Visible,
           NEW floor \in Nat, DeleteBeforeTarget(targets, floor),
           admin.cmd = "retain" => \A t \in targets : Cardinality(Newer(t, Visible)) >= floor
    PROVE  Decides \/ Chooses
<1>1. CASE admin' = IdleAdmin /\ UNCHANGED doomed
  <2>1. admin.objs = {}
    BY Zenon DEF IInv, DeleteInv
  <2> QED
    BY <1>1, <2>1, Zenon DEF Decides, IdleAdmin
<1>2. ASSUME NEW t \in targets, IsFull(t),
             DeleteObjectsWhere(ObjectsBefore(t, admin.keep), floor)
      PROVE  Chooses
  <2>1. t \in Backup /\ VisibleFull(t)
    BY <1>2, Zenon DEF VisibleFull, Visible
  <2>2. SoundChoice(ObjectsBefore(t, admin.keep))
    BY <2>1, BeforeIsSound, ZenonT(30)
  <2>3. ObjectsBefore(t, admin.keep) \in SUBSET stored
    BY Zenon DEF ObjectsBefore
  <2>4. ChoosesBefore(t, ObjectsBefore(t, admin.keep), floor)
    BY <1>2, <2>1, ZenonT(30) DEF ChoosesBefore
  <2> QED
    BY <1>2, <2>1, <2>2, <2>3, <2>4, ZenonT(30) DEF Chooses
<1> QED
  BY <1>1, <1>2, ZenonT(30) DEF DeleteBeforeTarget

\* The reading steps of the administrative command, by kind.
LEMMA ReadKinds ==
    ASSUME IInv, WholeInv, AdminReads
    PROVE  /\ UNCHANGED <<stored, permanent, from, full, count, started, push>>
           /\ Decides \/ Chooses
<1> USE DEF IInv
<1>1. UNCHANGED <<stored, permanent, from, full, count, started, push>>
  BY AdminReadsFrame, Zenon
<1>2. admin.pc = "read" => admin.objs = {}
  BY Zenon DEF DeleteInv
<1>3. ASSUME admin.pc = "read", admin' = IdleAdmin, UNCHANGED doomed PROVE Decides
  BY <1>2, <1>3, ZenonT(30) DEF Decides, IdleAdmin
<1>4. ASSUME NEW b \in Backup, MarkPermanent(b) \/ MarkImpermanent(b) PROVE Decides
  <2>1. /\ admin'.pc = "marking" /\ admin'.cmd \in AdminCommands /\ admin'.objs = {}
        /\ UNCHANGED doomed /\ admin.pc = "idle"
    BY <1>4, Zenon DEF MarkPermanent, MarkImpermanent, CanStart, IdleAdmin
  <2> QED
    BY <2>1, Zenon DEF Decides
<1>5. ASSUME NEW cmd \in DeleteCommands, RunDelete(cmd) PROVE Decides
  <2>1. /\ admin'.pc = "read" /\ admin'.cmd = cmd /\ admin'.objs = {}
        /\ admin'.keep = PermanentBackups /\ UNCHANGED doomed
    BY <1>5, UsageAssumption, ZenonT(30) DEF RunDelete, IdleAdmin
  <2> QED
    BY <1>5, <2>1, ZenonT(30) DEF RunDelete, CanStart, Decides
<1>6. ASSUME NEW b \in Backup, NEW m \in {"NO", "FIND_FULL"}, HandleDeleteBefore(b, m)
      PROVE  Decides \/ Chooses
  <2>1. FindTarget(Visible, BeforeChoice(b, m)) \in SUBSET Visible
    BY Zenon DEF FindTarget
  <2> QED
    BY <1>6, <2>1, BeforeChooses, ZenonT(30) DEF HandleDeleteBefore
<1>7. ASSUME NEW n \in 0 .. MaxRetain, NEW m \in Modifiers, HandleDeleteRetain(n, m)
      PROVE  Decides \/ Chooses
  <2>1. FindTarget(Visible, RetainChoice(n, m)) \in SUBSET Visible /\ n \in Nat
    BY BoundsAssumption DEF FindTarget
  <2>2. \A t \in FindTarget(Visible, RetainChoice(n, m)) : Cardinality(Newer(t, Visible)) >= n
    BY <2>1, RetainTarget, ZenonT(30)
  <2> QED
    BY <1>7, <2>1, <2>2, BeforeChooses, ZenonT(30) DEF HandleDeleteRetain
<1>8. ASSUME NEW b \in Backup, NEW findFull \in BOOLEAN, HandleDeleteTarget(b, findFull)
      PROVE  Decides \/ Chooses
  <2> DEFINE targets == IF findFull THEN FindRelatedBackups(b) ELSE FindDependantBackups(b)
  <2>1. \A x \in Visible : from[x] # None /\ from[x] \in targets => x \in targets
    BY RelatedClosed, DependantsClosed, ZenonT(30)
  <2>2. /\ admin.pc = "read" /\ admin.cmd = "target"
        /\ \/ admin' = IdleAdmin /\ UNCHANGED doomed
           \/ DeleteObjectsWhere(ObjectsOf(targets, admin.keep), 0)
    BY <1>8, Zenon DEF HandleDeleteTarget
  <2> HIDE DEF targets
  <2>3. SoundChoice(ObjectsOf(targets, admin.keep))
    BY <2>1, TargetIsSound, ZenonT(30)
  <2>4. ObjectsOf(targets, admin.keep) \in SUBSET stored
    BY Zenon DEF ObjectsOf
  <2> QED
    BY <1>3, <2>2, <2>3, <2>4, ZenonT(30) DEF Chooses
<1>9. ASSUME NEW force \in BOOLEAN, HandleDeleteEverything(force) PROVE Decides \/ Chooses
  <2>1. /\ admin.pc = "read" /\ admin.cmd = "everything"
        /\ \/ admin' = IdleAdmin /\ UNCHANGED doomed
           \/ DeleteObjectsWhere(stored, 0)
    BY <1>9, Zenon DEF HandleDeleteEverything
  <2>2. SoundChoice(stored)
    BY TargetIsSound, \A x \in Visible : from[x] # None /\ from[x] \in {} => x \in {}, ZenonT(30)
  <2> QED
    BY <1>3, <2>1, <2>2, ZenonT(30) DEF Chooses
<1>10. CASE AdminCrash
  BY <1>10, Zenon DEF AdminCrash, Decides, IdleAdmin
<1> QED
  BY <1>1, <1>4, <1>5, <1>6, <1>7, <1>8, <1>9, <1>10, ZenonT(30) DEF AdminReads

-----------------------------------------------------------------------------
(* What a backup-push starts from *)

\* The base is retained, and its chain leaves room for one more increment.
GoodStart(prev, cnt) ==
    /\ cnt <= MaxDeltas
    /\ prev # None => prev \in Retained /\ Cardinality(Ancestors(prev)) <= cnt

Begins ==
    \E perm \in BOOLEAN, prev \in Backup \cup {None}, cnt \in Nat :
        CanPush /\ BeginPush(perm, prev, cnt) /\ GoodStart(prev, cnt)

\* The whole chain of a retained backup is retained.
LEMMA ChainRetained ==
    ASSUME TypeOK, WholeInv, NEW b \in Retained
    PROVE  Ancestors(b) \subseteq Retained
<1> DEFINE edges == {<<x, from[x]>> : x \in {y \in Backup : ~IsFull(y)}}
<1>1. Retained \in SUBSET Backup /\ b \in Backup
  BY Zenon DEF Retained, Visible
<1>2. \A e \in edges : e[1] \in Retained => e[2] \in Retained
  BY DEF WholeInv, IsFull
<1> HIDE DEF edges
<1>3. Reach(b, edges) \subseteq Retained
  BY <1>1, <1>2, ReachLeast, ZenonT(30)
<1> QED
  BY <1>3, Zenon DEF Ancestors, edges

\* The newest listed backup was not chosen by any delete command when a
\* backup-push may start.
LEMMA LatestRetained ==
    ASSUME IInv, DoomedInv, CanPush, NEW b \in Selected("LATEST")
    PROVE  b \in Retained
<1> USE DEF IInv
<1>1. b \in Visible /\ b \in Backup /\ \A c \in Visible : c <= b
  BY Zenon DEF Selected, Visible
<1>2. \A t \in Backup : VisibleFull(t) => ~(b < t)
  BY <1>1, BackupIsInt DEF VisibleFull
<1>3. ASSUME b \in doomed PROVE FALSE
  <2>1. CASE Trimming
    BY <1>2, <1>3, <2>1, ZenonT(30) DEF DoomedInv
  <2>2. CASE NoDeleteDies
    <3>1. <<"sentinel", b>> \in admin.objs
      BY <1>1, <1>3, <2>2, ZenonT(30) DEF DoomedInv
    <3>2. admin.pc = "deleting"
      BY <3>1, ZenonT(30) DEF DeleteInv, AdminMarkInv, TypeOK, AdminStates
    <3>3. admin.cmd \in {"before", "retain"}
      BY <3>2, UsageAssumption, ZenonT(30) DEF CanPush, MayOverlap, DeleteInv, DeleteCommands
    <3>4. \E t \in Backup : VisibleFull(t) /\ <<"sentinel", b>>[2] < t
      BY <3>1, <3>2, <3>3, ZenonT(30) DEF DeleteInv
    <3> QED
      BY <1>2, <3>4, ZenonT(30)
  <2> QED
    BY <2>1, <2>2, CrashAssumption, ZenonT(30)
<1> QED
  BY <1>1, <1>3, Zenon DEF Retained

\* configureDeltaBackup starts from a retained backup and respects
\* WALG_DELTA_MAX_STEPS.
LEMMA DeltaBegins ==
    ASSUME IInv, RetentionInv, NEW perm \in BOOLEAN, NEW fromFull \in BOOLEAN,
           HandleDeltaBackupPush(perm, "LATEST", fromFull)
    PROVE  Begins
<1> USE DEF IInv, RetentionInv
<1>1. PICK b \in Selected("LATEST") :
        LET prev == ConfigureDelta(b, perm, fromFull) IN
        /\ prev # None => Has("sentinel", prev)
        /\ BeginPush(perm, prev, IF prev = None THEN 0 ELSE count[b] + 1)
  BY Zenon DEF HandleDeltaBackupPush
<1> DEFINE prev == ConfigureDelta(b, perm, fromFull)
           cnt == IF prev = None THEN 0 ELSE count[b] + 1
<1>2. CanPush
  BY Zenon DEF HandleDeltaBackupPush
<1>3. b \in Retained /\ b \in Backup /\ count[b] \in Nat
  BY <1>2, LatestRetained, ZenonT(30) DEF Selected, Visible, TypeOK
<1>4. prev # None =>
        /\ count[b] + 1 <= MaxDeltas
        /\ prev = b \/ (from[b] # None /\ prev = full[b])
  BY <1>3, BoundsAssumption DEF ConfigureDelta, IsFull
<1>5. prev \in Backup \cup {None} /\ cnt \in Nat /\ cnt <= MaxDeltas
  <2>1. full[b] \in Backup \cup {None}
    BY <1>3, ZenonT(30) DEF TypeOK
  <2> HIDE DEF prev
  <2>2. prev \in Backup \cup {None}
    BY <1>3, <1>4, <2>1, ZenonT(30)
  <2> QED
    BY <1>3, <1>4, <2>2, BoundsAssumption
<1>6. BeginPush(perm, prev, cnt)
  BY <1>1, ZenonT(30)
<1> HIDE DEF prev
<1>7. ASSUME prev # None PROVE prev \in Retained /\ Cardinality(Ancestors(prev)) <= cnt
  <2>1. CASE prev = b
    BY <1>3, <1>7, <2>1, ZenonT(30) DEF ChainInv
  <2>2. CASE from[b] # None /\ prev = full[b]
    <3>1. prev \in Ancestors(b)
      BY <1>3, <2>2, ZenonT(30) DEF ChainInv
    <3>2. prev \in Retained /\ prev \in Backup
      BY <1>3, <3>1, ChainRetained, ZenonT(30) DEF Retained, Visible
    <3>3. from[prev] = None
      BY <1>3, <2>2, ZenonT(30) DEF SentinelInv, IsFull
    <3>4. Ancestors(prev) \subseteq {prev}
      <4> DEFINE edges == {<<x, from[x]>> : x \in {y \in Backup : ~IsFull(y)}}
      <4>1. \A e \in edges : e[1] \in {prev} => e[2] \in {prev}
        BY <3>3 DEF IsFull
      <4> HIDE DEF edges
      <4>2. Reach(prev, edges) \subseteq {prev}
        BY <3>2, <4>1, {prev} \in SUBSET Backup, prev \in {prev}, ReachLeast, Zenon
      <4> QED
        BY <4>2, Zenon DEF Ancestors, edges
    <3>5. Cardinality(Ancestors(prev)) <= 1
      <4>1. IsFiniteSet({prev}) /\ Cardinality({prev}) = 1
        BY FS_Singleton, Zenon
      <4> QED
        BY <3>4, <4>1, FS_Subset, ZenonT(30)
    <3>6. cnt = count[b] + 1 /\ 1 <= cnt
      BY <1>3, <1>7
    <3>7. Cardinality(Ancestors(prev)) \in Nat
      BY <3>2, FS_CardinalityType, ZenonT(30) DEF ChainInv
    <3> QED
      BY <1>3, <3>2, <3>5, <3>6, <3>7
  <2> QED
    BY <1>4, <1>7, <2>1, <2>2, ZenonT(30)
<1> HIDE DEF cnt
<1> QED
  BY <1>2, <1>5, <1>6, <1>7, ZenonT(30) DEF Begins, GoodStart

\* The steps of the specification, by kind.
LEMMA StepKinds ==
    ASSUME IInv, RetentionInv, Next
    PROVE  AdminReads \/ Begins \/ PushWrites \/ AdminSetIsPermanent \/ DeleteObject
<1>1. ASSUME NEW perm \in BOOLEAN, HandleFullBackupPush(perm) PROVE Begins
  <2>1. GoodStart(None, 0)
    BY BoundsAssumption DEF GoodStart
  <2> QED
    BY <1>1, <2>1, ZenonT(30) DEF HandleFullBackupPush, Begins
<1>2. ASSUME NEW perm \in BOOLEAN, NEW selector \in Selectors, NEW fromFull \in BOOLEAN,
             HandleDeltaBackupPush(perm, selector, fromFull)
      PROVE  Begins
  BY <1>2, DeltaBegins, UsageAssumption, ZenonT(30)
<1> QED
  BY <1>1, <1>2, ZenonT(30) DEF Next, AdminReads, PushWrites

-----------------------------------------------------------------------------
(* Preservation of the invariant, conjunct by conjunct *)

\* The effect of a choice on the administrative process and on the chosen set.
LEMMA ChoiceEffect ==
    ASSUME TypeOK, NEW objs \in SUBSET stored, NEW floor, admin.pc = "read",
           DeleteObjectsWhere(objs, floor)
    PROVE  /\ admin'.pc = "deleting" /\ admin'.cmd = admin.cmd /\ admin'.objs = objs
           /\ admin'.floor = floor /\ admin'.keep = admin.keep
           /\ doomed \subseteq doomed'
           /\ \A d \in doomed' \ doomed : \E o \in objs : o[1] # "wal" /\ o[2] = d
           /\ \A o \in objs : o[1] # "wal" => o[2] \in doomed'
           /\ \A o \in objs : o[2] \in Backup
  BY ZenonT(30) DEF TypeOK, AdminStates, DeleteObjectsWhere, Objects

\* While a backup-push runs, delete chooses only what is older than the backup in
\* progress and than its base.
LEMMA ChoiceSparesPush ==
    ASSUME IInv, push.pc # "idle", NEW objs \in SUBSET stored, NEW t \in Backup, NEW floor,
           ChoosesBefore(t, objs, floor)
    PROVE  /\ InProgress => \A o \in objs : o[2] # Cur
           /\ push.prev # None => \A o \in objs : o[2] # push.prev
<1> USE DEF IInv
<1>1. \A o \in objs : o[2] < t /\ o[2] \in Backup
  BY Zenon DEF ChoosesBefore, ObjectsBefore, TypeOK, Objects
<1>2. VisibleFull(t) /\ <<"sentinel", t>> \in stored
  BY Zenon DEF ChoosesBefore, VisibleFull, Visible, Has
<1>3. t <= started
  BY <1>2, Zenon DEF FreshInv
<1>4. InProgress => Cur \in Backup /\ Cur >= t
  BY <1>3, BackupIsInt, ZenonT(30) DEF FreshInv, InProgress, Cur
<1>5. push.prev # None => push.prev \in Backup /\ push.prev >= t
  BY <1>2, ZenonT(30) DEF PushInv, TypeOK, PushStates
<1> QED
  BY <1>1, <1>4, <1>5, Apart, ZenonT(30)

\* A choice made while a backup-push runs is that of delete before or retain.
LEMMA OverlappingChoice ==
    ASSUME IInv, push.pc # "idle", admin.pc # "idle"
    PROVE  admin.pc \in {"read", "deleting"} => admin.cmd \in {"before", "retain"}
  BY UsageAssumption, ZenonT(30) DEF IInv, AdminMarkInv, DeleteInv, DeleteCommands

\* DoomedInv survives the choice of a delete command.
LEMMA DoomedChoice ==
    ASSUME IInv, DoomedInv, Chooses,
           UNCHANGED <<stored, permanent, from, full, count, started, push>>
    PROVE  DoomedInv'
<1> USE DEF IInv
<1>1. PICK objs \in SUBSET stored, floor \in Nat :
        /\ admin.pc = "read"
        /\ DeleteObjectsWhere(objs, floor)
        /\ SoundChoice(objs)
        /\ admin.cmd \in {"before", "retain"} =>
             \E t \in Backup : ChoosesBefore(t, objs, floor)
  BY Zenon DEF Chooses
<1>2. /\ admin'.pc = "deleting" /\ admin'.cmd = admin.cmd /\ admin'.objs = objs
      /\ doomed \subseteq doomed'
      /\ \A d \in doomed' \ doomed : \E o \in objs : o[1] # "wal" /\ o[2] = d
  BY <1>1, ChoiceEffect, ZenonT(30)
<1>3. Visible' = Visible /\ \A t : VisibleFull(t)' <=> VisibleFull(t)
  BY Zenon DEF VisibleFull, Visible, Has, IsFull
<1>4. admin.cmd \in AdminCommands
  BY <1>1, ZenonT(30) DEF DoomedInv
<1>5. \A d \in doomed' : d <= started
  BY <1>2 DEF DoomedInv, FreshInv
<1>6. ASSUME InProgress PROVE Cur \notin doomed'
  <2>1. push.pc # "idle"
    BY <1>6, ZenonT(30) DEF InProgress
  <2>2. \A o \in objs : o[2] # Cur
    BY <1>1, <1>6, <2>1, OverlappingChoice, ChoiceSparesPush, ZenonT(30)
  <2> QED
    BY <1>2, <1>6, <2>2, ZenonT(30) DEF DoomedInv
<1>7. ASSUME Trimming, NEW d \in doomed' PROVE \E t \in Backup : VisibleFull(t) /\ d < t
  <2>1. admin.cmd \in {"before", "retain"}
    BY <1>1, <1>4, <1>7, ZenonT(30) DEF Trimming, DeleteInv, DeleteCommands
  <2>2. PICK t \in Backup : ChoosesBefore(t, objs, floor)
    BY <1>1, <2>1, ZenonT(30)
  <2>3. VisibleFull(t) /\ \A o \in objs : o[2] < t
    BY <2>2, ZenonT(30) DEF ChoosesBefore, ObjectsBefore
  <2> QED
    BY <1>2, <1>7, <2>3 DEF DoomedInv
<1>8. ASSUME NoDeleteDies, NEW d \in doomed' \cap Visible PROVE <<"sentinel", d>> \in objs
  <2>1. d \notin doomed
    BY <1>1, <1>8, Zenon DEF DoomedInv, DeleteInv
  <2> QED
    BY <1>1, <1>2, <1>8, <2>1 DEF SoundChoice
<1>9. UNCHANGED <<started, push>>
  OBVIOUS
<1> QED
  BY <1>2, <1>3, <1>4, <1>5, <1>6, <1>7, <1>8, <1>9, ZenonT(30) DEF DoomedInv, InProgress, Cur

\* No step makes a chosen backup the newest one.
LEMMA DoomedStep == IInv /\ RetentionInv /\ Next => DoomedInv'
<1> SUFFICES ASSUME IInv, RetentionInv, Next PROVE DoomedInv'
  OBVIOUS
<1> USE DEF IInv, RetentionInv
<1>1. CASE AdminReads
  <2>1. UNCHANGED <<stored, permanent, from, full, count, started, push>>
    BY <1>1, ReadKinds, ZenonT(30)
  <2>2. CASE Decides
    <3>1. ASSUME NoDeleteDies PROVE admin.objs = {}
      <4>1. CASE AdminCrash
        <5>1. admin.pc = "marking"
          BY <3>1, <4>1, ZenonT(30) DEF AdminCrash, NoDeleteDies, DeleteInv, TypeOK, AdminStates
        <5> QED
          BY <5>1, ZenonT(30) DEF AdminMarkInv
      <4>2. CASE admin.pc = "idle"
        BY <4>2, Zenon DEF DeleteInv
      <4> QED
        BY <2>2, <4>1, <4>2, ZenonT(30) DEF Decides
    <3>2. Visible' = Visible /\ \A t : VisibleFull(t)' <=> VisibleFull(t)
      BY <2>1, ZenonT(30) DEF VisibleFull, Visible, Has, IsFull
    <3>3. /\ admin'.pc # "idle" => admin'.cmd \in AdminCommands
          /\ UNCHANGED doomed
      BY <2>2, Zenon DEF Decides, IdleAdmin
    <3> QED
      BY <2>1, <3>1, <3>2, <3>3, ZenonT(30) DEF DoomedInv, InProgress, Cur
  <2>3. CASE Chooses
    BY <2>1, <2>3, DoomedChoice, ZenonT(30)
  <2> QED
    BY <1>1, <2>2, <2>3, ReadKinds, ZenonT(30)
<1>2. CASE Begins
  <2>1. UNCHANGED <<stored, from, started, admin, doomed>> /\ push'.pc = "start"
    BY <1>2 DEF Begins, BeginPush
  <2> QED
    BY <2>1, Zenon DEF DoomedInv, InProgress, VisibleFull, Visible, Has, IsFull
<1>3. CASE PushWrites
  <2>1. /\ stored \subseteq stored' /\ UNCHANGED <<admin, doomed>>
        /\ \A b \in Visible : from'[b] = from[b]
    BY <1>3, PushWritesEffect, ZenonT(30)
  <2>2. \A t : VisibleFull(t) => VisibleFull(t)'
    BY <2>1, Zenon DEF VisibleFull, Visible, Has, IsFull
  <2>3. doomed \cap Visible' = doomed \cap Visible
    <3>1. CASE UploadSentinel
      <4>1. InProgress
        BY <3>1, Zenon DEF UploadSentinel, InProgress
      <4> QED
        BY <3>1, <4>1, SentinelEffect, ZenonT(30) DEF DoomedInv
    <3>2. CASE ~UploadSentinel
      <4>1. Visible' = Visible
        BY <2>1, <3>2, OtherEffect, ZenonT(30) DEF Visible, Has
      <4> QED
        BY <4>1, ZenonT(30)
    <3> QED
      BY <3>1, <3>2, ZenonT(30)
  <2>4. started' >= started /\ (InProgress' => Cur' \notin doomed)
    <3>0. started \in Int /\ \A d \in doomed : d \in Int
      BY BackupIsInt DEF TypeOK
    <3>1. CASE StartBackup
      BY <3>0, <3>1 DEF StartBackup, DoomedInv, Cur
    <3>2. CASE UploadBackup \/ MarkBackups
      BY <3>0, <3>2 DEF UploadBackup, MarkBackups, DoomedInv, InProgress, Cur, IdlePush
    <3>3. CASE PushSetIsPermanent \/ UploadExtendedMetadata
      BY <3>0, <3>3 DEF PushSetIsPermanent, UploadExtendedMetadata, DoomedInv, InProgress, Cur,
                        IdlePush
    <3>4. CASE UploadSentinel \/ PushCrash
      <4>1. push' = IdlePush /\ started' = started
        BY <3>4, ZenonT(30) DEF UploadSentinel, PushCrash
      <4>2. ~InProgress'
        BY <4>1, ZenonT(30) DEF InProgress, IdlePush
      <4> QED
        BY <3>0, <4>1, <4>2
    <3> QED
      BY <1>3, <3>1, <3>2, <3>3, <3>4, ZenonT(30) DEF PushWrites
  <2>5. \A d \in doomed : d <= started'
    <3>1. started \in Int /\ started' \in Int /\ \A d \in doomed : d \in Int
      BY BackupIsInt, TypeStep DEF TypeOK
    <3> QED
      BY <2>4, <3>1 DEF DoomedInv
  <2> QED
    BY <2>1, <2>2, <2>3, <2>4, <2>5, ZenonT(30) DEF DoomedInv
<1>4. CASE AdminSetIsPermanent
  <2>1. UNCHANGED <<stored, from, started, push, doomed>> /\ admin.pc = "marking"
    BY <1>4, Zenon DEF AdminSetIsPermanent
  <2>2. admin.objs = {}
    BY <2>1, Zenon DEF AdminMarkInv
  <2>3. admin'.pc = "idle" \/ admin'.cmd = admin.cmd
    BY <1>4 DEF AdminSetIsPermanent, IdleAdmin, TypeOK, AdminStates
  <2>4. NoDeleteDies => doomed \cap Visible = {}
    BY <2>2, Zenon DEF DoomedInv
  <2> QED
    BY <2>1, <2>3, <2>4, ZenonT(30) DEF DoomedInv, InProgress, Cur, VisibleFull, Visible, Has, IsFull
<1>5. CASE DeleteObject
  <2>1. UNCHANGED <<from, started, push, doomed>> /\ admin.pc = "deleting"
    BY <1>5, ZenonT(30) DEF DeleteObject
  <2>2. CASE admin.objs = {} /\ admin' = IdleAdmin /\ UNCHANGED stored
    BY <2>1, <2>2, ZenonT(30) DEF DoomedInv, InProgress, Cur, VisibleFull, Visible, Has, IsFull, IdleAdmin
  <2>3. ASSUME NEW o \in admin.objs, stored' = stored \ {o},
               admin' = [admin EXCEPT !.objs = @ \ {o}]
        PROVE  DoomedInv'
    <3>1. admin'.objs = admin.objs \ {o} /\ admin'.cmd = admin.cmd
      BY <2>3, Zenon DEF TypeOK, AdminStates
    <3>2. ASSUME NEW d \in doomed \cap Visible', <<"sentinel", d>> \in admin.objs
          PROVE  <<"sentinel", d>> \in admin'.objs
      BY <2>3, <3>1, <3>2, ZenonT(30) DEF Visible, Has
    <3>3. Visible' \subseteq Visible
      BY <2>3, Zenon DEF Visible, Has
    <3>4. ASSUME Trimming, NEW d \in doomed PROVE \E t \in Backup : VisibleFull(t)' /\ d < t
      <4>1. admin.cmd \in {"before", "retain"}
        BY <2>1, <3>4, ZenonT(30) DEF Trimming, DoomedInv, DeleteInv, DeleteCommands
      <4>2. PICK u \in Backup : VisibleFull(u) /\ \A x \in admin.objs : x[2] < u
        BY <2>1, <4>1, ZenonT(30) DEF DeleteInv
      <4>3. PICK t \in Backup : VisibleFull(t) /\ d < t
        BY <3>4, Zenon DEF DoomedInv
      <4>4. o[2] < u /\ d \in Int /\ t \in Int /\ u \in Int
        BY <4>2, BackupIsInt, ZenonT(30) DEF TypeOK
      <4>5. \A x \in Backup : VisibleFull(x) /\ x >= u => VisibleFull(x)'
        <5>1. o[2] \in Int
          BY BackupIsInt, Zenon DEF TypeOK, AdminStates, Objects
        <5>2. \A x \in Backup : x >= u => o # <<"sentinel", x>>
          BY <4>4, <5>1, BackupIsInt
        <5> QED
          BY <2>1, <2>3, <5>2, Zenon DEF VisibleFull, Visible, Has, IsFull
      <4>6. CASE t >= u
        BY <4>3, <4>5, <4>6, ZenonT(30)
      <4>7. CASE t < u
        BY <4>2, <4>3, <4>4, <4>5, <4>7
      <4> QED
        BY <4>4, <4>6, <4>7
    <3> QED
      BY <2>1, <3>1, <3>2, <3>3, <3>4, ZenonT(30) DEF DoomedInv, InProgress, Cur
  <2> QED
    BY <1>5, <2>2, <2>3, Zenon DEF DeleteObject
<1> QED
  BY <1>1, <1>2, <1>3, <1>4, <1>5, StepKinds, ZenonT(30)

\* No step takes anything from a retained backup, from the backup in progress or
\* from its base.
LEMMA WholeStep == IInv /\ RetentionInv /\ Next => WholeInv'
<1> SUFFICES ASSUME IInv, RetentionInv, Next PROVE WholeInv'
  OBVIOUS
<1> USE DEF IInv, RetentionInv
<1> DEFINE Uploaded == push.pc \in {"mark", "marking", "meta", "sentinel"}
<1>1. CASE AdminReads
  <2>1. UNCHANGED <<stored, from, started, push>>
    BY <1>1, ReadKinds, Zenon
  <2>2. CASE Decides
    BY <2>1, <2>2, ZenonT(30) DEF Decides, WholeInv, Retained, Visible, Has, InProgress, Cur
  <2>3. CASE Chooses
    <3>1. PICK objs \in SUBSET stored, floor \in Nat :
            /\ admin.pc = "read"
            /\ DeleteObjectsWhere(objs, floor)
            /\ SoundChoice(objs)
            /\ admin.cmd \in {"before", "retain"} =>
                 \E t \in Backup : ChoosesBefore(t, objs, floor)
      BY <2>3, Zenon DEF Chooses
    <3>2. /\ admin'.objs = objs /\ doomed \subseteq doomed'
          /\ \A d \in doomed' \ doomed : \E o \in objs : o[1] # "wal" /\ o[2] = d
          /\ \A o \in objs : o[1] # "wal" => o[2] \in doomed'
      BY <3>1, ChoiceEffect, Zenon
    <3>3. Retained' = Visible \ doomed' /\ Retained' \subseteq Retained
      BY <2>1, <3>2, Zenon DEF Retained, Visible, Has
    <3>4. ASSUME NEW b \in Retained'
          PROVE  /\ \A o \in objs : o[2] # b
                 /\ from[b] # None => from[b] \in Retained'
      <4>1. b \in Retained /\ <<"sentinel", b>> \notin objs
        BY <3>2, <3>3, <3>4, Zenon
      <4>2. \A o \in objs : o[2] # b
        BY <3>1, <4>1, Zenon DEF SoundChoice
      <4>3. ASSUME from[b] # None PROVE from[b] \in Retained'
        <5>1. from[b] \in Retained
          BY <4>1, <4>3, ZenonT(30) DEF WholeInv
        <5>2. from[b] \notin doomed'
          BY <3>1, <3>2, <4>1, <4>3, <5>1, ZenonT(30) DEF SoundChoice, Retained
        <5> QED
          BY <3>3, <5>1, <5>2, Zenon DEF Retained
      <4> QED
        BY <4>2, <4>3, Zenon
    <3>5. ASSUME push.pc # "idle"
          PROVE  /\ push.prev # None => push.prev \in Retained'
                 /\ InProgress => \A o \in objs : o[2] # Cur
      <4>1. PICK t \in Backup : ChoosesBefore(t, objs, floor)
        BY <3>1, <3>5, OverlappingChoice, ZenonT(30)
      <4>2. /\ InProgress => \A o \in objs : o[2] # Cur
            /\ push.prev # None => \A o \in objs : o[2] # push.prev
        BY <3>5, <4>1, ChoiceSparesPush, ZenonT(30)
      <4> QED
        BY <3>2, <3>3, <3>5, <4>2, ZenonT(30) DEF WholeInv, Retained
    <3>6. InProgress => push.pc # "idle"
      BY Zenon DEF InProgress
    <3> QED
      BY <2>1, <3>2, <3>3, <3>4, <3>5, <3>6, ZenonT(30) DEF WholeInv, Has, InProgress, Cur
  <2> QED
    BY <1>1, <2>2, <2>3, ReadKinds, ZenonT(30)
<1>2. CASE Begins
  <2>1. PICK prev \in Backup \cup {None} :
          /\ UNCHANGED <<stored, from, started, admin, doomed>>
          /\ push'.pc = "start" /\ push'.prev = prev
          /\ prev # None => prev \in Retained
    BY <1>2 DEF Begins, BeginPush, GoodStart
  <2> QED
    BY <2>1, ZenonT(30) DEF WholeInv, Retained, Visible, Has, InProgress
<1>3. CASE PushWrites
  <2>1. /\ stored \subseteq stored' /\ UNCHANGED <<admin, doomed>> /\ push.pc # "idle"
        /\ \A b \in Visible : from'[b] = from[b]
    BY <1>3, PushWritesEffect, Zenon
  <2>2. Retained \subseteq Retained' /\ \A b \in Retained : from'[b] = from[b]
    BY <2>1, ZenonT(30) DEF Retained, Visible, Has
  <2>3. CASE UploadSentinel
    <3>1. /\ Retained' \subseteq Retained \cup {Cur} /\ from'[Cur] = push.prev
          /\ push.pc = "sentinel" /\ push'.pc = "idle"
      BY <2>1, <2>3, SentinelEffect, Zenon DEF Retained, UploadSentinel, IdlePush
    <3>2. /\ Has("wal", Cur) /\ Has("data", Cur) /\ \A o \in admin.objs : o[2] # Cur
          /\ push.prev # None => push.prev \in Retained
      BY <3>1, Zenon DEF WholeInv, InProgress
    <3> QED
      BY <2>1, <2>2, <3>1, <3>2, ZenonT(30) DEF WholeInv, Has, InProgress
  <2>4. CASE ~UploadSentinel
    <3>1. Retained' = Retained
      BY <2>1, <2>4, OtherEffect, ZenonT(30) DEF Retained, Visible, Has
    <3>2. CASE push' = IdlePush
      BY <2>1, <2>2, <3>1, <3>2, ZenonT(30) DEF WholeInv, Has, InProgress, IdlePush
    <3>3. CASE StartBackup
      <4>1. push.pc = "start" /\ push'.pc = "upload" /\ push'.prev = push.prev
        BY <3>3, ZenonT(30) DEF StartBackup, TypeOK, PushStates
      <4>2. started' = started + 1 /\ started' \in Backup
        BY <3>3, <4>1, BoundsAssumption DEF StartBackup, PushInv, TypeOK, Backup
      <4>3. \A t \in Backup : VisibleFull(t) => started' >= t
        BY <4>2, BackupIsInt DEF VisibleFull, Visible, Has, FreshInv, TypeOK
      <4>4. \A o \in admin.objs : o[2] # started'
        BY <2>1, <4>2, <4>3, PushSafe, ZenonT(30)
      <4> QED
        BY <2>1, <2>2, <3>1, <4>1, <4>4, ZenonT(30) DEF WholeInv, Has, InProgress, Cur
    <3>4. CASE UploadBackup
      <4>1. /\ push.pc = "upload" /\ push'.pc = "mark" /\ push'.prev = push.prev
            /\ <<"data", Cur>> \in stored' /\ <<"wal", Cur>> \in stored' /\ started' = started
        BY <3>4, ZenonT(30) DEF UploadBackup, TypeOK, PushStates
      <4> QED
        BY <2>1, <2>2, <3>1, <4>1, ZenonT(30) DEF WholeInv, Has, InProgress, Cur
    <3>5. CASE /\ Uploaded /\ Uploaded' /\ push'.prev = push.prev /\ started' = started
      BY <2>1, <2>2, <3>1, <3>5, ZenonT(30) DEF WholeInv, Has, InProgress, Cur
    <3>6. CASE MarkBackups
      BY <3>2, <3>5, <3>6, ZenonT(30) DEF MarkBackups, TypeOK, PushStates
    <3>7. CASE PushSetIsPermanent
      BY <3>2, <3>5, <3>7, ZenonT(30) DEF PushSetIsPermanent, TypeOK, PushStates
    <3>8. CASE UploadExtendedMetadata
      BY <3>5, <3>8, ZenonT(30) DEF UploadExtendedMetadata, TypeOK, PushStates
    <3>9. CASE PushCrash
      BY <3>2, <3>9, Zenon DEF PushCrash
    <3> QED
      BY <1>3, <2>4, <3>3, <3>4, <3>6, <3>7, <3>8, <3>9, ZenonT(30) DEF PushWrites
  <2> QED
    BY <2>3, <2>4, Zenon
<1>4. CASE AdminSetIsPermanent
  <2>1. UNCHANGED <<stored, from, started, push, doomed>> /\ admin.pc = "marking"
    BY <1>4, Zenon DEF AdminSetIsPermanent
  <2>2. admin'.objs = {}
    BY <1>4, <2>1 DEF AdminSetIsPermanent, AdminMarkInv, IdleAdmin, TypeOK, AdminStates
  <2> QED
    BY <2>1, <2>2, ZenonT(30) DEF WholeInv, Retained, Visible, Has, InProgress, Cur
<1>5. CASE DeleteObject
  <2>1. UNCHANGED <<from, started, push, doomed>> /\ admin.pc = "deleting"
    BY <1>5, Zenon DEF DeleteObject
  <2>2. admin'.objs \subseteq admin.objs
    BY <1>5 DEF DeleteObject, IdleAdmin, TypeOK, AdminStates
  <2>3. \A x \in Backup : \A k : (\A o \in admin.objs : o[2] # x) /\ Has(k, x) => <<k, x>> \in stored'
    BY <1>5 DEF DeleteObject, Has
  <2>4. Retained' = Retained
    <3>1. Retained' \subseteq Retained
      BY <1>5, <2>1, Zenon DEF DeleteObject, Retained, Visible, Has
    <3>2. \A b \in Retained : b \in Retained'
      BY <2>1, <2>3, Zenon DEF WholeInv, Retained, Visible, Has
    <3> QED
      BY <3>1, <3>2, Zenon
  <2>5. \A b \in Retained : b \in Backup
    BY Zenon DEF Retained, Visible
  <2>6. InProgress => Cur \in Backup
    BY Zenon DEF FreshInv, InProgress
  <2>7. \A b \in Retained : <<"wal", b>> \in stored' /\ <<"data", b>> \in stored'
    BY <2>3, <2>5, Zenon DEF WholeInv
  <2>8. Uploaded => <<"wal", Cur>> \in stored' /\ <<"data", Cur>> \in stored'
    BY <2>3, <2>6, Zenon DEF WholeInv, InProgress
  <2> QED
    BY <2>1, <2>2, <2>4, <2>7, <2>8, ZenonT(30) DEF WholeInv, Has, InProgress, Cur
<1> QED
  BY <1>1, <1>2, <1>3, <1>4, <1>5, StepKinds, ZenonT(30)

\* markBackups ends the backup-push or leaves its base alone.
LEMMA MarkBackupsEffect ==
    ASSUME TypeOK, MarkBackups
    PROVE  push'.pc = "idle" \/ (push'.prev = push.prev /\ push'.cnt = push.cnt)
<1>1. \/ push' = IdlePush
      \/ push' = [push EXCEPT !.pc = "meta"]
      \/ push' = [push EXCEPT !.pc = "marking", !.todo = GetBackupsToMarkPermanent(push.prev)]
  BY Zenon DEF MarkBackups
<1>2. push \in PushStates
  BY Zenon DEF TypeOK
<1>3. CASE push' = IdlePush
  BY <1>3, Zenon DEF IdlePush
<1>4. CASE push' = [push EXCEPT !.pc = "meta"]
  BY <1>2, <1>4, Zenon DEF PushStates
<1>5. ASSUME NEW todo, push' = [push EXCEPT !.pc = "marking", !.todo = todo]
      PROVE  push'.prev = push.prev /\ push'.cnt = push.cnt
  BY <1>2, <1>5, Zenon DEF PushStates
<1> QED
  BY <1>1, <1>3, <1>4, <1>5, Zenon

\* The chains of the backups that are listed do not change, and the chain of a new
\* one is that of its base and itself.
LEMMA ChainStep == IInv /\ RetentionInv /\ Next => ChainInv'
<1> SUFFICES ASSUME IInv, RetentionInv, Next PROVE ChainInv'
  OBVIOUS
<1> USE DEF IInv, RetentionInv
<1>0. \A b : Ancestors(b) = Reach(b, Bases(from)) /\ Ancestors(b)' = Reach(b, Bases(from'))
  BY Zenon DEF Ancestors, Bases, IsFull
<1>1. CASE UploadSentinel
  <2> DEFINE prev == push.prev
             old(b) == Reach(b, Bases(from))
             new(b) == Reach(b, Bases(from'))
  <2>1. /\ Cur \in Backup /\ from[Cur] = None /\ push.pc = "sentinel"
        /\ push'.pc = "idle" /\ from' = [from EXCEPT ![Cur] = prev]
        /\ count' = [count EXCEPT ![Cur] = push.cnt]
    BY <1>1, SentinelEffect, Zenon DEF UploadSentinel, IdlePush
  <2>2. \A x \in Backup : from[x] # Cur
    <3> SUFFICES ASSUME NEW x \in Backup, from[x] = Cur PROVE FALSE
      OBVIOUS
    <3>1. from[x] # None
      BY <2>1 DEF Backup, None
    <3>2. from[x] < x /\ x < Cur
      BY <1>1, <3>1, SentinelEffect, ZenonT(30) DEF SentinelInv
    <3> QED
      BY <2>1, <3>2, BackupIsInt
  <2>3. prev \in Backup \cup {None} /\ prev # Cur
    <3>1. prev \in Backup \cup {None}
      BY Zenon DEF TypeOK, PushStates
    <3>2. prev # None => prev < Cur
      BY <2>1, Zenon DEF PushInv
    <3> QED
      BY <2>1, <3>1, <3>2, BackupIsInt DEF Backup, None
  <2>4. from \in [Backup -> Backup \cup {None}]
    BY Zenon DEF TypeOK
  <2>5. /\ \A b \in Backup : b # Cur => new(b) = old(b)
        /\ prev # None => old(prev) \subseteq new(Cur)
        /\ new(Cur) \subseteq {Cur} \cup (IF prev = None THEN {} ELSE old(prev))
    <3>1. /\ from' \in [Backup -> Backup \cup {None}] /\ from'[Cur] = prev
          /\ \A x \in Backup : x # Cur => from'[x] = from[x]
      BY <2>1, <2>3, <2>4, Zenon
    <3>2. from[Cur] = None /\ from'[Cur] # Cur /\ Cur \in Backup
      BY <2>1, <2>3, <3>1, ZenonT(30)
    <3>3. /\ \A b \in Backup : b # Cur => new(b) = old(b)
          /\ from'[Cur] # None => old(from'[Cur]) \subseteq new(Cur)
          /\ new(Cur) \subseteq {Cur} \cup (IF from'[Cur] = None THEN {} ELSE old(from'[Cur]))
      BY <2>2, <2>4, <3>1, <3>2, ChainOfNew, ZenonT(30)
    <3> QED
      BY <3>1, <3>3, Zenon
  <2>6. /\ \A b \in Backup : IsFiniteSet(old(b)) /\ Cardinality(old(b)) <= count[b] + 1
        /\ \A b \in Backup : from[b] # None => full[b] \in old(b)
        /\ \A b \in Backup : count[b] <= MaxDeltas
        /\ push.cnt <= MaxDeltas /\ push.cnt \in Nat
        /\ prev # None => Cardinality(old(prev)) <= push.cnt
    BY <1>0, <2>1, ZenonT(30) DEF ChainInv, TypeOK, PushStates
  <2>7. \A b \in Backup : b # Cur => from'[b] = from[b] /\ full'[b] = full[b] /\ count'[b] = count[b]
    BY <1>1, <2>1, SentinelEffect, ZenonT(30) DEF TypeOK
  <2>8. count'[Cur] = push.cnt /\ from'[Cur] = prev
    BY <2>1, <2>4, ZenonT(30) DEF TypeOK
  <2>9. ASSUME prev # None PROVE full'[Cur] \in new(Cur)
    <3>1. full'[Cur] = IF IsFull(prev) THEN prev ELSE full[prev]
      BY <1>1, <2>9, SentinelEffect, ZenonT(30)
    <3>2. prev \in Backup /\ prev \in old(prev)
      BY <1>0, <2>3, <2>9, AncestorsClosed, ZenonT(30)
    <3>3. full'[Cur] \in old(prev)
      BY <2>6, <3>1, <3>2, Zenon DEF IsFull
    <3> QED
      BY <2>5, <2>9, <3>3, ZenonT(30)
  <2> HIDE DEF old, new, prev
  <2>10. IsFiniteSet(new(Cur)) /\ Cardinality(new(Cur)) <= push.cnt + 1
    <3>1. CASE prev = None
      <4>1. IsFiniteSet({Cur}) /\ Cardinality({Cur}) = 1 /\ new(Cur) \subseteq {Cur}
        BY <2>5, <3>1, FS_Singleton, ZenonT(30)
      <4>2. IsFiniteSet(new(Cur)) /\ Cardinality(new(Cur)) <= 1
        BY <4>1, FS_Subset, ZenonT(30)
      <4>3. Cardinality(new(Cur)) \in Nat /\ push.cnt \in Nat
        BY <2>6, <4>2, FS_CardinalityType, ZenonT(30)
      <4> QED
        BY <4>2, <4>3
    <3>2. CASE prev # None
      <4>1. prev \in Backup /\ IsFiniteSet(old(prev)) /\ Cardinality(old(prev)) <= push.cnt
        BY <2>3, <2>6, <3>2, ZenonT(30)
      <4>2. /\ IsFiniteSet(old(prev) \cup {Cur})
            /\ \/ Cardinality(old(prev) \cup {Cur}) = Cardinality(old(prev))
               \/ Cardinality(old(prev) \cup {Cur}) = Cardinality(old(prev)) + 1
        BY <4>1, FS_AddElement, ZenonT(30)
      <4>3. new(Cur) \subseteq old(prev) \cup {Cur}
        BY <2>5, <3>2, Zenon
      <4>4. /\ IsFiniteSet(new(Cur))
            /\ Cardinality(new(Cur)) <= Cardinality(old(prev) \cup {Cur})
        BY <4>2, <4>3, FS_Subset, Zenon
      <4>5. Cardinality(new(Cur)) \in Nat /\ Cardinality(old(prev)) \in Nat
        BY <4>1, <4>4, FS_CardinalityType, ZenonT(30)
      <4>6. push.cnt \in Nat
        BY <2>6, Zenon
      <4>7. Cardinality(new(Cur)) <= push.cnt + 1
        BY <4>1, <4>2, <4>4, <4>5, <4>6
      <4> QED
        BY <4>4, <4>7, Zenon
    <3> QED
      BY <3>1, <3>2, Zenon
  <2>11. ASSUME NEW b \in Backup
         PROVE  /\ from'[b] # None => full'[b] \in new(b)
                /\ IsFiniteSet(new(b))
                /\ Cardinality(new(b)) <= count'[b] + 1
                /\ count'[b] <= MaxDeltas
    <3>1. CASE b = Cur
      BY <2>6, <2>8, <2>9, <2>10, <3>1, ZenonT(30)
    <3>2. CASE b # Cur
      BY <2>5, <2>6, <2>7, <3>2, ZenonT(30)
    <3> QED
      BY <3>1, <3>2, ZenonT(30)
  <2>12. \A b \in Backup : Ancestors(b)' = new(b)
    BY <1>0, ZenonT(30) DEF new
  <2> QED
    BY <2>1, <2>11, <2>12, Zenon DEF ChainInv
<1>2. CASE ~UploadSentinel
  <2>1. UNCHANGED <<from, full>>
    BY <1>2, OtherEffect, ZenonT(30)
  <2>2. UNCHANGED count
    BY <1>2, ZenonT(30) DEF Next, HandleFullBackupPush, HandleDeltaBackupPush, BeginPush, StartBackup,
         UploadBackup, MarkBackups, PushSetIsPermanent, UploadExtendedMetadata, PushCrash,
         MarkPermanent, MarkImpermanent, AdminSetIsPermanent, RunDelete, HandleDeleteBefore,
         HandleDeleteRetain, HandleDeleteTarget, HandleDeleteEverything, DeleteObject, AdminCrash
  <2>3. \A b : Ancestors(b)' = Ancestors(b)
    BY <1>0, <2>1, ZenonT(30)
  <2>4. \/ push'.pc = "idle"
        \/ push.pc # "idle" /\ push'.prev = push.prev /\ push'.cnt = push.cnt
        \/ push.pc = "idle" /\ push' = push
        \/ GoodStart(push'.prev, push'.cnt)
    <3>1. CASE AdminReads
      BY <3>1, ReadKinds, ZenonT(30)
    <3>2. CASE Begins
      BY <3>2 DEF Begins, BeginPush
    <3>3. CASE StartBackup \/ UploadBackup \/ UploadExtendedMetadata
      BY <3>3, ZenonT(30) DEF StartBackup, UploadBackup, UploadExtendedMetadata, TypeOK, PushStates
    <3>4. CASE PushSetIsPermanent
      BY <3>4 DEF PushSetIsPermanent, IdlePush, TypeOK, PushStates
    <3>5. CASE MarkBackups
      BY <3>5, MarkBackupsEffect, ZenonT(30) DEF MarkBackups
    <3>6. CASE PushCrash \/ AdminSetIsPermanent \/ DeleteObject
      BY <3>6 DEF PushCrash, AdminSetIsPermanent, DeleteObject, IdlePush
    <3> QED
      BY <1>2, <3>1, <3>2, <3>3, <3>4, <3>5, <3>6, StepKinds, ZenonT(30) DEF PushWrites
  <2> QED
    BY <2>1, <2>2, <2>3, <2>4, ZenonT(30) DEF ChainInv, GoodStart
<1> QED
  BY <1>1, <1>2, Zenon

\* What is not chosen by delete stays so, whatever becomes permanent meanwhile.
LEMMA KeepStep == IInv /\ RetentionInv /\ Next => KeepInv'
<1> SUFFICES ASSUME IInv, RetentionInv, Next PROVE KeepInv'
  OBVIOUS
<1> USE DEF IInv, RetentionInv
<1>1. CASE AdminReads
  <2>1. UNCHANGED <<stored, permanent, from, push>>
    BY <1>1, ReadKinds, Zenon
  <2>2. PermanentBackups' = PermanentBackups
    BY <2>1, Zenon DEF PermanentBackups, Visible, Has
  <2>3. CASE Decides
    <3>1. admin'.pc = "read" => admin'.keep = PermanentBackups
      BY <2>3, Zenon DEF Decides
    <3>2. admin'.pc # "deleting"
      BY <2>3, ZenonT(30) DEF Decides
    <3> QED
      BY <2>2, <3>1, <3>2, Zenon DEF KeepInv
  <2>4. CASE Chooses
    <3>1. PICK objs \in SUBSET stored, floor \in Nat :
            /\ admin.pc = "read"
            /\ DeleteObjectsWhere(objs, floor)
            /\ admin.cmd \in {"before", "retain"} =>
                 \E t \in Backup : ChoosesBefore(t, objs, floor)
      BY <2>4, Zenon DEF Chooses
    <3>2. admin'.pc = "deleting" /\ admin'.cmd = admin.cmd /\ admin'.objs = objs
      BY <3>1, ChoiceEffect, ZenonT(30)
    <3>3. ASSUME admin.cmd \in {"before", "retain"}, NEW o \in objs
          PROVE  o[2] \notin PermanentBackups
      <4>1. PICK t \in Backup : VisibleFull(t) /\ o[2] < t /\ o[2] \notin admin.keep
        BY <3>1, <3>3, ZenonT(30) DEF ChoosesBefore, ObjectsBefore, IsPermanent
      <4>2. o[2] \in Backup
        BY ZenonT(30) DEF TypeOK, Objects
      <4>3. o[2] \in PermanentBackups => o[2] >= t
        BY <3>1, <4>1, Zenon DEF KeepInv
      <4> QED
        BY <4>1, <4>2, <4>3, BackupIsInt
    <3> QED
      BY <2>2, <3>2, <3>3, ZenonT(30) DEF KeepInv
  <2> QED
    BY <1>1, <2>3, <2>4, ReadKinds, ZenonT(30)
<1>2. CASE Begins
  <2>1. UNCHANGED <<stored, permanent, from, admin>> /\ admin.pc # "read"
    BY <1>2, Zenon DEF Begins, BeginPush, CanPush, MayOverlap
  <2> QED
    BY <2>1, Zenon DEF KeepInv, PermanentBackups, Visible, Has
<1>3. CASE PushWrites
  <2>1. UNCHANGED admin /\ push.pc # "idle"
    BY <1>3, PushWritesEffect, ZenonT(30)
  <2>2. CASE UploadSentinel
    <3>1. /\ Cur \in Backup /\ Cur \notin Visible /\ Visible' = Visible \cup {Cur}
          /\ from'[Cur] = push.prev
          /\ \A b \in Backup : b # Cur => from'[b] = from[b]
          /\ push'.pc = "idle" /\ permanent' = permanent
          /\ stored' = stored \cup {<<"sentinel", Cur>>}
      BY <2>2, SentinelEffect, Zenon DEF UploadSentinel, IdlePush
    <3>2. PermanentBackups' \subseteq PermanentBackups \cup {Cur}
      BY <3>1, Zenon DEF PermanentBackups, Has
    <3>3. \A t \in Backup : VisibleFull(t)' =>
            VisibleFull(t) \/ (t = Cur /\ push.prev = None)
      BY <3>1, Zenon DEF VisibleFull, IsFull
    <3>4. \A t \in Backup : VisibleFull(t) \/ t = Cur => Cur >= t
      <4>1. \A t \in Backup : VisibleFull(t) => t <= started
        BY Zenon DEF VisibleFull, Visible, Has, FreshInv
      <4> QED
        BY <3>1, <4>1, BackupIsInt DEF Cur
    <3>5. \A o \in admin.objs : o[2] # Cur
      BY <2>2, Zenon DEF UploadSentinel, WholeInv, InProgress
    <3>6. ASSUME admin.pc = "read", NEW b \in PermanentBackups' \ admin.keep,
                 NEW t \in Backup, VisibleFull(t)'
          PROVE  b >= t
      <4>1. CASE b = Cur
        BY <3>3, <3>4, <3>6, <4>1, ZenonT(30)
      <4>2. CASE b \in PermanentBackups
        BY <2>1, <3>3, <3>6, <4>2, ZenonT(30) DEF KeepInv
      <4> QED
        BY <3>2, <3>6, <4>1, <4>2, ZenonT(30)
    <3> QED
      BY <2>1, <3>1, <3>2, <3>5, <3>6, ZenonT(30) DEF KeepInv
  <2>3. CASE PushSetIsPermanent
    <3>1. /\ UNCHANGED <<stored, from>> /\ push.pc = "marking" /\ push.prev # None
          /\ permanent' \subseteq permanent \cup push.todo
      BY <2>3, Zenon DEF PushSetIsPermanent, NextToMark, PushMarkInv
    <3>2. \A b \in push.todo : b \in Backup /\ \A t \in Backup : VisibleFull(t) => b >= t
      BY <3>1, Zenon DEF PushMarkInv, TypeOK, PushStates
    <3>3. PermanentBackups' \subseteq PermanentBackups \cup push.todo
      BY <3>1, Zenon DEF PermanentBackups, Visible, Has
    <3>4. \A t : VisibleFull(t)' <=> VisibleFull(t)
      BY <3>1, Zenon DEF VisibleFull, Visible, Has, IsFull
    <3>5. \A b \in push.todo, o \in admin.objs : o[2] # b
      BY <2>1, <3>2, PushSafe, ZenonT(30)
    <3>6. push'.pc = "idle" \/ push'.prev # None
      BY <2>3, <3>1 DEF PushSetIsPermanent, IdlePush, TypeOK, PushStates
    <3> QED
      BY <2>1, <3>2, <3>3, <3>4, <3>5, <3>6, ZenonT(30) DEF KeepInv
  <2>4. CASE ~UploadSentinel /\ ~PushSetIsPermanent
    <3>1. UNCHANGED from /\ Visible' = Visible
      BY <1>3, <2>4, OtherEffect, PushWritesEffect, ZenonT(30) DEF Visible, Has
    <3>2. PermanentBackups' \subseteq PermanentBackups
      <4>1. CASE UploadExtendedMetadata
        <5>1. Cur \notin Visible
          BY <4>1, Zenon DEF UploadExtendedMetadata, FreshInv
        <5> QED
          BY <3>1, <4>1, <5>1, ZenonT(30) DEF UploadExtendedMetadata, PermanentBackups, Has
      <4>2. CASE StartBackup \/ UploadBackup \/ MarkBackups \/ PushCrash
        BY <3>1, <4>2, ZenonT(30) DEF StartBackup, UploadBackup, MarkBackups, PushCrash, PermanentBackups, Has
      <4> QED
        BY <1>3, <2>4, <4>1, <4>2, ZenonT(30) DEF PushWrites
    <3>3. push'.pc = "idle" \/ push'.prev = push.prev
      <4>1. push \in PushStates
        BY Zenon DEF TypeOK
      <4>2. CASE StartBackup \/ UploadBackup \/ UploadExtendedMetadata \/ PushCrash
        BY <4>1, <4>2 DEF StartBackup, UploadBackup, UploadExtendedMetadata, PushCrash, IdlePush,
                          PushStates
      <4>3. CASE MarkBackups
        BY <4>3, MarkBackupsEffect, Zenon
      <4> QED
        BY <1>3, <2>4, <4>2, <4>3, ZenonT(30) DEF PushWrites
    <3> QED
      BY <2>1, <3>1, <3>2, <3>3, ZenonT(30) DEF KeepInv, VisibleFull, IsFull
  <2> QED
    BY <2>2, <2>3, <2>4, Zenon
<1>4. CASE AdminSetIsPermanent
  <2>1. admin'.pc \in {"idle", "marking"}
    BY <1>4 DEF AdminSetIsPermanent, IdleAdmin, TypeOK, AdminStates
  <2> QED
    BY <2>1, Zenon DEF KeepInv
<1>5. CASE DeleteObject
  <2>1. PermanentBackups' \subseteq PermanentBackups
    BY <1>5, Zenon DEF DeleteObject, PermanentBackups, Visible, Has
  <2>2. /\ admin'.pc # "read" /\ admin.pc = "deleting"
        /\ admin'.pc = "deleting" => admin'.cmd = admin.cmd /\ admin'.objs \subseteq admin.objs
    BY <1>5 DEF DeleteObject, IdleAdmin, TypeOK, AdminStates
  <2> QED
    BY <2>1, <2>2, Zenon DEF KeepInv
<1> QED
  BY <1>1, <1>2, <1>3, <1>4, <1>5, StepKinds, ZenonT(30)

\* delete retain goes on keeping what it was asked to keep.
LEMMA RetainStep == IInv /\ RetentionInv /\ Next => RetainKeepsEnough'
<1> SUFFICES ASSUME IInv, RetentionInv, Next PROVE RetainKeepsEnough'
  OBVIOUS
<1> USE DEF IInv, RetentionInv
<1> DEFINE kept == {b \in Visible : \A o \in admin.objs : o[2] # b}
<1>1. IsFiniteSet(kept) /\ IsFiniteSet(kept')
  <2>1. kept \subseteq Backup /\ kept' \subseteq Backup
    BY Zenon DEF Visible
  <2> HIDE DEF kept
  <2> QED
    BY <2>1, VisibleFinite, FS_Subset, ZenonT(30)
<1>2. ASSUME admin.pc = "deleting", admin'.cmd = admin.cmd, admin'.floor = admin.floor,
             kept \subseteq kept'
      PROVE  RetainKeepsEnough'
  <2>1. Cardinality(kept) <= Cardinality(kept') /\ Cardinality(kept) \in Nat
          /\ Cardinality(kept') \in Nat
    BY <1>1, <1>2, FS_Subset, FS_CardinalityType, ZenonT(30)
  <2>2. admin.floor \in Nat
    BY Zenon DEF TypeOK, AdminStates
  <2>3. admin.cmd = "retain" => Cardinality(kept) >= admin.floor
    BY <1>2, ZenonT(30) DEF RetainKeepsEnough
  <2>4. admin.cmd = "retain" => Cardinality(kept') >= admin'.floor
    BY <1>2, <2>1, <2>2, <2>3
  <2> QED
    BY <1>2, <2>4, ZenonT(30) DEF RetainKeepsEnough
<1>3. CASE admin'.pc # "deleting"
  BY <1>3, Zenon DEF RetainKeepsEnough
<1>4. CASE AdminReads
  <2>1. Visible' = Visible
    BY <1>4, ReadKinds, Zenon DEF Visible, Has
  <2>2. CASE Decides
    BY <1>3, <2>2, Zenon DEF Decides
  <2>3. CASE Chooses
    <3>1. PICK objs \in SUBSET stored, floor \in Nat :
            /\ admin.pc = "read"
            /\ DeleteObjectsWhere(objs, floor)
            /\ admin.cmd \in {"before", "retain"} =>
                 \E t \in Backup : ChoosesBefore(t, objs, floor)
      BY <2>3, Zenon DEF Chooses
    <3>2. /\ admin'.cmd = admin.cmd /\ admin'.objs = objs /\ admin'.floor = floor
          /\ \A o \in objs : o[2] \in Backup
      BY <3>1, ChoiceEffect, ZenonT(30)
    <3>3. ASSUME admin.cmd = "retain" PROVE Cardinality(kept') >= floor
      <4>1. PICK t \in Backup : ChoosesBefore(t, objs, floor)
        BY <3>1, <3>3, Zenon
      <4>2. \A o \in objs : o[2] < t
        BY <4>1, ZenonT(30) DEF ChoosesBefore, ObjectsBefore
      <4>3. Newer(t, Visible) \subseteq kept'
        <5>1. \A b \in Newer(t, Visible) : b \in Visible /\ b \in Backup /\ b >= t
          BY Zenon DEF Newer, Visible
        <5>2. \A b \in Newer(t, Visible), o \in objs : o[2] # b
          BY <3>2, <4>2, <5>1, Apart, ZenonT(30)
        <5> QED
          BY <2>1, <3>2, <5>1, <5>2, ZenonT(30)
      <4>4. Cardinality(Newer(t, Visible)) >= floor
        BY <3>3, <4>1, ZenonT(30) DEF ChoosesBefore
      <4> HIDE DEF kept
      <4>5. Cardinality(Newer(t, Visible)) <= Cardinality(kept')
              /\ Cardinality(Newer(t, Visible)) \in Nat /\ Cardinality(kept') \in Nat
        BY <1>1, <4>3, FS_Subset, FS_CardinalityType, ZenonT(30)
      <4> QED
        BY <4>4, <4>5
    <3> QED
      BY <3>2, <3>3, ZenonT(30) DEF RetainKeepsEnough
  <2> QED
    BY <1>4, <2>2, <2>3, ReadKinds, ZenonT(30)
<1>5. CASE Begins \/ PushWrites
  <2>1. UNCHANGED admin /\ Visible \subseteq Visible'
    <3>1. CASE Begins
      BY <3>1, Zenon DEF Begins, BeginPush, Visible, Has
    <3>2. CASE PushWrites
      BY <3>2, PushWritesEffect, ZenonT(30) DEF Visible, Has
    <3> QED
      BY <1>5, <3>1, <3>2, Zenon
  <2> QED
    BY <1>2, <1>3, <2>1, ZenonT(30)
<1>6. CASE AdminSetIsPermanent
  BY <1>3, <1>6 DEF AdminSetIsPermanent, IdleAdmin, TypeOK, AdminStates
<1>7. CASE DeleteObject
  <2>1. ASSUME NEW o \in admin.objs, stored' = stored \ {o},
               admin' = [admin EXCEPT !.objs = @ \ {o}]
        PROVE  RetainKeepsEnough'
    <3>1. /\ admin'.objs = admin.objs \ {o} /\ admin'.cmd = admin.cmd
          /\ admin'.floor = admin.floor /\ admin.pc = "deleting"
      BY <1>7, <2>1, ZenonT(30) DEF DeleteObject, TypeOK, AdminStates
    <3>2. kept \subseteq kept'
      BY <2>1, <3>1 DEF Visible, Has
    <3> QED
      BY <1>2, <3>1, <3>2, ZenonT(30)
  <2> QED
    BY <1>3, <1>7, <2>1 DEF DeleteObject, IdleAdmin
<1> QED
  BY <1>4, <1>5, <1>6, <1>7, StepKinds, ZenonT(30)

-----------------------------------------------------------------------------
(* Theorems *)

\* The two invariants hold of the empty storage.
LEMMA RetentionInit == Init => IInv /\ RetentionInv
<1> SUFFICES ASSUME Init PROVE RetentionInv
  BY InvInit, Zenon
<1>1. DoomedInv /\ WholeInv /\ KeepInv /\ RetainKeepsEnough
  BY Zenon
     DEF Init, DoomedInv, WholeInv, KeepInv, RetainKeepsEnough, IdlePush, IdleAdmin, InProgress, Retained,
         Visible, Has
<1>2. ASSUME NEW b \in Backup
      PROVE  /\ from[b] = None /\ count[b] = 0
             /\ IsFiniteSet(Ancestors(b)) /\ Cardinality(Ancestors(b)) <= 1
  <2> DEFINE edges == {<<x, from[x]>> : x \in {y \in Backup : ~IsFull(y)}}
  <2>1. from[b] = None /\ count[b] = 0 /\ edges = {}
    BY Zenon DEF Init, IsFull
  <2> HIDE DEF edges
  <2>2. Reach(b, edges) \subseteq {b}
    BY <2>1, {b} \in SUBSET Backup, b \in {b}, ReachLeast, Zenon
  <2>3. Ancestors(b) \subseteq {b}
    BY <2>2, Zenon DEF Ancestors, edges
  <2>4. IsFiniteSet({b}) /\ Cardinality({b}) = 1
    BY FS_Singleton, Zenon
  <2>5. IsFiniteSet(Ancestors(b)) /\ Cardinality(Ancestors(b)) <= Cardinality({b})
    BY <2>3, <2>4, FS_Subset, Zenon
  <2> QED
    BY <2>1, <2>4, <2>5, Zenon
<1>3. ChainInv
  <2>1. push.pc = "idle"
    BY Zenon DEF Init, IdlePush
  <2>2. \A b \in Backup : Cardinality(Ancestors(b)) <= count[b] + 1 /\ count[b] <= MaxDeltas
    BY <1>2, BoundsAssumption
  <2> QED
    BY <1>2, <2>1, <2>2, Zenon DEF ChainInv
<1> QED
  BY <1>1, <1>3, Zenon DEF RetentionInv

\* Every step of every command preserves them.
LEMMA RetentionStep == IInv /\ RetentionInv /\ [Next]_vars => (IInv /\ RetentionInv)'
<1> SUFFICES ASSUME IInv, RetentionInv, [Next]_vars PROVE (IInv /\ RetentionInv)'
  OBVIOUS
<1>1. IInv'
  BY InvStep, Zenon
<1>2. CASE Next
  BY <1>1, <1>2, DoomedStep, WholeStep, ChainStep, KeepStep, RetainStep, ZenonT(30) DEF RetentionInv
<1>3. CASE UNCHANGED vars
  <2>1. DoomedInv' /\ WholeInv'
    BY <1>3, Zenon
       DEF vars, RetentionInv, DoomedInv, WholeInv, InProgress, VisibleFull, Retained, Visible, Has, IsFull,
           Cur
  <2>2. ChainInv'
    <3>1. \A b : Ancestors(b)' = Ancestors(b)
      BY <1>3, Zenon DEF vars, Ancestors, IsFull
    <3> QED
      BY <1>3, <3>1, Zenon DEF vars, RetentionInv, ChainInv
  <2>3. KeepInv' /\ RetainKeepsEnough'
    BY <1>3, Zenon
       DEF vars, RetentionInv, KeepInv, RetainKeepsEnough, PermanentBackups, VisibleFull, Visible, Has,
           IsFull
  <2> QED
    BY <1>1, <2>1, <2>2, <2>3, ZenonT(30) DEF RetentionInv
<1> QED
  BY <1>2, <1>3, Zenon

\* Both invariants hold in every state that the commands can reach.
THEOREM RetentionInvariant == Spec => [](IInv /\ RetentionInv)
  BY RetentionInit, RetentionStep, PTL DEF Spec

\* Every listed backup that no delete command has chosen can be fetched, for any
\* number of backups and any interleaving of a backup-push with delete before,
\* delete retain or backup-mark: deltaFetchRecursion finds all of its chain.
THEOREM RetainedRestorable == Spec => []Restorable
<1>1. IInv /\ RetentionInv => Restorable
  <2> SUFFICES ASSUME IInv, RetentionInv, NEW b \in Retained
               PROVE  /\ Has("wal", b)
                      /\ \A a \in Ancestors(b) : Has("sentinel", a) /\ Has("data", a)
    BY Zenon DEF Restorable
  <2>1. Ancestors(b) \subseteq Retained
    BY ChainRetained, ZenonT(30) DEF IInv, RetentionInv
  <2> QED
    BY <2>1, Zenon DEF RetentionInv, WholeInv, Retained, Visible
<1> QED
  BY <1>1, RetentionInvariant, PTL

\* The DeltaFullName of a backup is the full backup its chain ends in, and no chain
\* is longer than WALG_DELTA_MAX_STEPS, for any value of it.
THEOREM ChainsSound == Spec => []DeltaChainsSound
<1>1. IInv /\ RetentionInv => DeltaChainsSound
  <2> SUFFICES ASSUME IInv, RetentionInv, NEW b \in Retained
               PROVE  /\ ~IsFull(b) => full[b] \in Ancestors(b) /\ IsFull(full[b])
                      /\ Cardinality(Ancestors(b)) - 1 <= MaxDeltas
    BY Zenon DEF DeltaChainsSound
  <2>1. b \in Backup /\ count[b] \in Nat
    BY Zenon DEF Retained, Visible, IInv, TypeOK
  <2>2. /\ from[b] # None => full[b] \in Ancestors(b)
        /\ Cardinality(Ancestors(b)) <= count[b] + 1 /\ count[b] <= MaxDeltas
        /\ Cardinality(Ancestors(b)) \in Nat
    BY <2>1, FS_CardinalityType, Zenon DEF RetentionInv, ChainInv
  <2>3. from[b] # None => IsFull(full[b])
    BY <2>1, ZenonT(30) DEF IInv, SentinelInv
  <2>4. Cardinality(Ancestors(b)) - 1 <= MaxDeltas
    BY <2>1, <2>2, BoundsAssumption
  <2> QED
    BY <2>2, <2>3, <2>4, Zenon DEF IsFull
<1> QED
  BY <1>1, RetentionInvariant, PTL

\* delete retain N leaves N backups or more, with and without FULL and FIND_FULL,
\* also while a backup-push adds backups.
THEOREM RetainKeepsItsPromise == Spec => []RetainKeepsEnough
<1>1. RetentionInv => RetainKeepsEnough
  BY Zenon DEF RetentionInv
<1> QED
  BY <1>1, RetentionInvariant, PTL

\* delete before and delete retain remove nothing of a listed permanent backup, even
\* of one that a backup-push made permanent after the list of them was read.
THEOREM PermanentSpared == Spec => RetentionSparesPermanent
<1>1. ASSUME IInv, RetentionInv, [Next]_vars
      PROVE  [\A o \in stored \ stored' :
                o[2] \in PermanentBackups => admin.cmd \in {"target", "everything"}]_vars
  <2> SUFFICES ASSUME Next, NEW o \in stored \ stored', o[2] \in PermanentBackups
               PROVE  admin.cmd \in {"target", "everything"}
    BY <1>1, Zenon
  <2> USE <1>1 DEF IInv, RetentionInv
  <2>1. DeleteObject
    <3>1. CASE AdminReads
      BY <3>1, ReadKinds, Zenon
    <3>2. CASE Begins
      BY <3>2, Zenon DEF Begins, BeginPush
    <3>3. CASE PushWrites
      BY <3>3, PushWritesEffect, Zenon
    <3>4. CASE AdminSetIsPermanent
      BY <3>4, Zenon DEF AdminSetIsPermanent
    <3> QED
      BY <3>1, <3>2, <3>3, <3>4, StepKinds, ZenonT(30)
  <2>2. o \in admin.objs /\ admin.pc = "deleting"
    BY <2>1, Zenon DEF DeleteObject
  <2> QED
    BY <2>2, Zenon DEF KeepInv, DeleteInv, DeleteCommands
<1>2. IInv /\ RetentionInv /\ [Next]_vars =>
        [\A o \in stored \ stored' :
           o[2] \in PermanentBackups => admin.cmd \in {"target", "everything"}]_vars
  BY <1>1, Zenon
<1> QED
  BY <1>2, RetentionInvariant, PTL DEF Spec, RetentionSparesPermanent
=============================================================================
