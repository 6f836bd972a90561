--------------------------- MODULE ComponentProofs ---------------------------
(***************************************************************************)
(* Proofs about components that share nothing but storage: the backup of   *)
(* a Greenplum cluster (GpBackups), an encrypted object (LibsodiumStream)  *)
(* and copy (CopyBackups).                                                 *)
(***************************************************************************)
EXTENDS GpBackups, LibsodiumStream, CopyBackups, TLAPS

-----------------------------------------------------------------------------
(* Greenplum *)

GpPcs == {"off", "start", "run", "point", "sentinel", "done", "failed"}

GpProcess == [pc : GpPcs, globalCluster : [Contents -> Hosts], backupIDByContentID : [Contents -> {<<>>} \cup Runs]]

GpType ==
    /\ primary \in [Contents -> Hosts]
    /\ gp \in [1 .. Attempts -> GpProcess]
    /\ segment \in [Runs -> {"off", "running", "ok", "error"}]
    /\ restorePoint \in [1 .. Attempts -> SUBSET (Contents \X Runs)]
    /\ gpSentinels \in [1 .. Attempts -> [Contents -> {<<>>} \cup Runs]]

Given(a, c) == <<c, NewSegmentUserData(a, c)>>

\* What an attempt relies on at each point: the identifiers are those that the segments
\* were given; the commands that ended well made a backup; all of them ended well
\* before the restore point, which has what they made.
GpAttemptInv(a) ==
    /\ gp[a].pc \in {"off", "start"} => \A c \in Contents : segment[<<a, c>>] = "off"
    /\ gp[a].pc \in {"run", "point", "sentinel", "done"} =>
          \A c \in Contents : <<c, gp[a].backupIDByContentID[c]>> = Given(a, c) /\ segment[<<a, c>>] # "off"
    /\ \A c \in Contents : segment[<<a, c>>] = "ok" => Given(a, c) \in segBackups
    /\ gp[a].pc \in {"point", "sentinel", "done"} => \A c \in Contents : segment[<<a, c>>] = "ok"
    /\ gp[a].pc \in {"sentinel", "done"} => \A c \in Contents : Given(a, c) \in restorePoint[a]
    /\ gp[a].pc = "done" => \A c \in Contents : <<c, gpSentinels[a][c]>> = Given(a, c)

GpInv == GpType /\ segBackups \subseteq Contents \X Runs /\ \A a \in 1 .. Attempts : GpAttemptInv(a)

LEMMA GpInvInit == GpInit => GpInv
  BY GpAssumption DEF GpInit, GpInv, GpType, GpAttemptInv, GpPcs, GpProcess, Runs

\* A step of an attempt that only moves it on.
LEMMA GpMoved ==
    ASSUME GpType, NEW a \in 1 .. Attempts, NEW pc \in GpPcs, gp' = [gp EXCEPT ![a].pc = pc]
    PROVE  /\ gp' \in [1 .. Attempts -> GpProcess]
           /\ gp'[a].pc = pc /\ gp'[a].backupIDByContentID = gp[a].backupIDByContentID
           /\ \A b \in 1 .. Attempts \ {a} : gp'[b] = gp[b]
<1>1. gp[a] \in GpProcess
  BY Zenon DEF GpType
<1>2. [gp[a] EXCEPT !.pc = pc] \in GpProcess
  BY <1>1, Zenon DEF GpProcess
<1>3. gp'[a] = [gp[a] EXCEPT !.pc = pc]
  BY Zenon DEF GpType
<1>4. gp'[a].pc = pc /\ gp'[a].backupIDByContentID = gp[a].backupIDByContentID
  BY <1>1, <1>3, Zenon DEF GpProcess
<1> QED BY <1>2, <1>4, Zenon DEF GpType

\* A step that leaves an attempt, its segments and its results alone.
LEMMA GpKept ==
    ASSUME NEW b \in 1 .. Attempts, GpAttemptInv(b), gp'[b] = gp[b],
           \A c \in Contents : segment'[<<b, c>>] = segment[<<b, c>>],
           segBackups \subseteq segBackups', restorePoint'[b] = restorePoint[b], gpSentinels'[b] = gpSentinels[b]
    PROVE  GpAttemptInv(b)'
  BY Zenon DEF GpAttemptInv, Given, NewSegmentUserData

LEMMA GpInvStep == GpInv /\ [GpNext]_gpVars => GpInv'
<1> SUFFICES ASSUME GpInv, [GpNext]_gpVars PROVE GpInv'
  OBVIOUS
<1> USE GpAssumption
<1>t. GpType /\ segBackups \subseteq Contents \X Runs /\ \A b \in 1 .. Attempts : GpAttemptInv(b)
  BY Zenon DEF GpInv
<1>g. \A b \in 1 .. Attempts : gp[b] \in GpProcess
  BY <1>t, Zenon DEF GpType
<1>1. ASSUME NEW a \in 1 .. Attempts, getGpCluster(a) PROVE GpInv'
  <2>1. [gp[a] EXCEPT !.pc = "start", !.globalCluster = primary] \in GpProcess
    BY <1>t, <1>g, Zenon DEF GpType, GpProcess, GpPcs
  <2>2. gp' = [gp EXCEPT ![a] = [gp[a] EXCEPT !.pc = "start", !.globalCluster = primary]]
    BY <1>1, <1>t, Zenon DEF getGpCluster, GetGreenplumSegmentsInfo, GpType
  <2>3. gp' \in [1 .. Attempts -> GpProcess] /\ gp'[a].pc = "start" /\ \A b \in 1 .. Attempts \ {a} : gp'[b] = gp[b]
    BY <2>1, <2>2, <1>t, <1>g, Zenon DEF GpType, GpProcess
  <2>4. GpType' /\ segBackups' = segBackups
    BY <1>1, <1>t, <2>3, Zenon DEF getGpCluster, GpType
  <2>5. ASSUME NEW b \in 1 .. Attempts PROVE GpAttemptInv(b)'
    BY <1>1, <1>t, <2>3 DEF getGpCluster, GpAttemptInv, Given, NewSegmentUserData
  <2> QED BY <1>t, <2>4, <2>5, Zenon DEF GpInv
<1>2. ASSUME NEW a \in 1 .. Attempts, buildCommand(a) PROVE GpInv'
  <2> DEFINE ids == [c \in Contents |-> NewSegmentUserData(a, c)]
  <2>0. ids \in [Contents -> {<<>>} \cup Runs]
    BY Zenon DEF NewSegmentUserData, Runs
  <2>1. [gp[a] EXCEPT !.pc = "run", !.backupIDByContentID = ids] \in GpProcess
    BY <2>0, <1>g, Zenon DEF GpProcess, GpPcs
  <2>2. gp' = [gp EXCEPT ![a] = [gp[a] EXCEPT !.pc = "run", !.backupIDByContentID = ids]]
    BY <1>2, <1>t, Zenon DEF buildCommand, GpType
  <2>3. /\ gp' \in [1 .. Attempts -> GpProcess] /\ gp'[a].pc = "run" /\ gp'[a].backupIDByContentID = ids
        /\ \A b \in 1 .. Attempts \ {a} : gp'[b] = gp[b]
    <3> HIDE DEF ids
    <3> QED BY <2>1, <2>2, <1>t, <1>g, Zenon DEF GpType, GpProcess
  <2>4. segment' \in [Runs -> {"off", "running", "ok", "error"}]
    BY <1>2, <1>t, Zenon DEF buildCommand, GpType
  <2>5. \A b \in 1 .. Attempts, c \in Contents : segment'[<<b, c>>] = IF b = a THEN "running" ELSE segment[<<b, c>>]
    BY <1>2, Zenon DEF buildCommand, Runs
  <2>6. GpType' /\ segBackups' = segBackups
    BY <1>2, <1>t, <2>3, <2>4, Zenon DEF buildCommand, GpType
  <2>7. GpAttemptInv(a)'
    BY <1>2, <2>3, <2>5 DEF buildCommand, GpAttemptInv, Given
  <2>8. ASSUME NEW b \in 1 .. Attempts \ {a} PROVE GpAttemptInv(b)'
    <3>1. GpAttemptInv(b) /\ gp'[b] = gp[b] /\ \A c \in Contents : segment'[<<b, c>>] = segment[<<b, c>>]
      BY <1>t, <2>3, <2>5, Zenon
    <3> QED BY <1>2, <3>1, GpKept, Zenon DEF buildCommand
  <2> QED BY <1>t, <2>6, <2>7, <2>8, Zenon DEF GpInv
<1>3. ASSUME NEW a \in 1 .. Attempts, CheckClusterError(a) PROVE GpInv'
  <2> DEFINE pc == IF \E c \in Contents : segment[<<a, c>>] = "error" THEN "failed" ELSE "point"
  <2>1. pc \in GpPcs /\ gp' = [gp EXCEPT ![a].pc = pc]
    BY <1>3, Zenon DEF CheckClusterError, GpPcs
  <2>2. \A c \in Contents : segment[<<a, c>>] \in {"off", "running", "ok", "error"}
    BY <1>t, Zenon DEF GpType, Runs
  <2>3. pc = "failed" \/ (pc = "point" /\ \A c \in Contents : segment[<<a, c>>] = "ok")
    BY <1>t, <1>3, <2>2, Zenon DEF CheckClusterError, GpAttemptInv
  <2> HIDE DEF pc
  <2>4. /\ gp' \in [1 .. Attempts -> GpProcess]
        /\ gp'[a].pc = pc /\ gp'[a].backupIDByContentID = gp[a].backupIDByContentID
        /\ \A b \in 1 .. Attempts \ {a} : gp'[b] = gp[b]
    BY <1>t, <2>1, GpMoved, Zenon
  <2>5. GpType' /\ segBackups' = segBackups
    BY <1>3, <1>t, <2>4, Zenon DEF CheckClusterError, GpType
  <2>6. ASSUME NEW b \in 1 .. Attempts PROVE GpAttemptInv(b)'
    <3>1. CASE b = a
      <4>1. GpAttemptInv(a)
        BY <1>t, Zenon
      <4> QED BY <1>3, <3>1, <4>1, <2>3, <2>4, Zenon DEF CheckClusterError, GpAttemptInv, Given
    <3>2. CASE b # a
      BY <1>3, <1>t, <3>2, <2>4, GpKept, Zenon DEF CheckClusterError
    <3> QED BY <3>1, <3>2, Zenon
  <2> QED BY <1>t, <2>5, <2>6, Zenon DEF GpInv
<1>4. ASSUME NEW a \in 1 .. Attempts, createRestorePoint(a) PROVE GpInv'
  <2>1. /\ gp' \in [1 .. Attempts -> GpProcess]
        /\ gp'[a].pc = "sentinel" /\ gp'[a].backupIDByContentID = gp[a].backupIDByContentID
        /\ \A b \in 1 .. Attempts \ {a} : gp'[b] = gp[b]
    BY <1>t, <1>4, GpMoved, Zenon DEF createRestorePoint, GpPcs
  <2>2. /\ restorePoint' \in [1 .. Attempts -> SUBSET (Contents \X Runs)] /\ restorePoint'[a] = segBackups
        /\ \A b \in 1 .. Attempts \ {a} : restorePoint'[b] = restorePoint[b]
    BY <1>t, <1>4, Zenon DEF createRestorePoint, CreateGreenplumRestorePoint, GpType
  <2>3. GpType' /\ segBackups' = segBackups
    BY <1>4, <1>t, <2>1, <2>2, Zenon DEF createRestorePoint, GpType
  <2>4. ASSUME NEW b \in 1 .. Attempts PROVE GpAttemptInv(b)'
    <3>1. segment' = segment /\ \A c \in Contents : (Given(b, c))' = Given(b, c)
      BY <1>4, Zenon DEF createRestorePoint, Given, NewSegmentUserData
    <3>2. CASE b # a
      BY <1>4, <1>t, <2>1, <2>2, <2>3, <3>1, <3>2, GpKept, Zenon DEF createRestorePoint
    <3>3. CASE b = a
      <4>1. /\ gp[a].pc = "point" /\ gp'[a].pc = "sentinel" /\ restorePoint'[a] = segBackups
            /\ gp'[a].backupIDByContentID = gp[a].backupIDByContentID
        BY <1>4, <2>1, <2>2, Zenon DEF createRestorePoint
      <4>2. \A c \in Contents :
              /\ segment[<<a, c>>] = "ok" /\ Given(a, c) \in segBackups
              /\ <<c, gp[a].backupIDByContentID[c]>> = Given(a, c)
        BY <1>t, <4>1 DEF GpAttemptInv
      <4> QED BY <2>3, <3>1, <3>3, <4>1, <4>2, Zenon DEF GpAttemptInv
    <3> QED BY <3>2, <3>3
  <2> QED BY <1>t, <2>3, <2>4, Zenon DEF GpInv
<1>5. ASSUME NEW a \in 1 .. Attempts, UploadGpSentinel(a) PROVE GpInv'
  <2>1. /\ gp' \in [1 .. Attempts -> GpProcess]
        /\ gp'[a].pc = "done" /\ gp'[a].backupIDByContentID = gp[a].backupIDByContentID
        /\ \A b \in 1 .. Attempts \ {a} : gp'[b] = gp[b]
    BY <1>t, <1>5, GpMoved, Zenon DEF UploadGpSentinel, GpPcs
  <2>2. gp[a].backupIDByContentID \in [Contents -> {<<>>} \cup Runs]
    BY <1>g, Zenon DEF GpProcess
  <2>3. /\ gpSentinels' \in [1 .. Attempts -> [Contents -> {<<>>} \cup Runs]]
        /\ gpSentinels'[a] = gp[a].backupIDByContentID
        /\ \A b \in 1 .. Attempts \ {a} : gpSentinels'[b] = gpSentinels[b]
    BY <1>t, <1>5, <2>2, Zenon DEF UploadGpSentinel, NewBackupSentinelDto, GpType
  <2>4. GpType' /\ segBackups' = segBackups
    BY <1>5, <1>t, <2>1, <2>3, Zenon DEF UploadGpSentinel, GpType
  <2>5. ASSUME NEW b \in 1 .. Attempts PROVE GpAttemptInv(b)'
    <3>1. CASE b = a
      <4>1. GpAttemptInv(a)
        BY <1>t, Zenon
      <4> QED BY <1>5, <3>1, <4>1, <2>1, <2>3, ZenonT(30) DEF UploadGpSentinel, GpAttemptInv, Given
    <3>2. CASE b # a
      BY <1>5, <1>t, <3>2, <2>1, <2>3, GpKept, Zenon DEF UploadGpSentinel
    <3> QED BY <3>1, <3>2, Zenon
  <2> QED BY <1>t, <2>4, <2>5, Zenon DEF GpInv
<1>6. ASSUME NEW a \in 1 .. Attempts, GpPushFails(a) PROVE GpInv'
  <2>1. /\ gp' \in [1 .. Attempts -> GpProcess]
        /\ gp'[a].pc = "failed" /\ gp'[a].backupIDByContentID = gp[a].backupIDByContentID
        /\ \A b \in 1 .. Attempts \ {a} : gp'[b] = gp[b]
    BY <1>t, <1>6, GpMoved, Zenon DEF GpPushFails, GpPcs
  <2>2. GpType' /\ segBackups' = segBackups
    BY <1>6, <1>t, <2>1, Zenon DEF GpPushFails, GpType
  <2>3. ASSUME NEW b \in 1 .. Attempts PROVE GpAttemptInv(b)'
    BY <1>6, <1>t, <2>1 DEF GpPushFails, GpAttemptInv, Given, NewSegmentUserData
  <2> QED BY <1>t, <2>2, <2>3, Zenon DEF GpInv
<1>7. ASSUME NEW a \in 1 .. Attempts, NEW d \in Contents, SegmentEnds(a, d) PROVE GpInv'
  <2>0. <<a, d>> \in Runs /\ Given(a, d) \in Contents \X Runs
    BY Zenon DEF Runs, Given, NewSegmentUserData
  <2>1. /\ segBackups' = segBackups \/ segBackups' = segBackups \cup {Given(a, d)}
        /\ segment[<<a, d>>] = "running"
        /\ \/ segment' = [segment EXCEPT ![<<a, d>>] = "ok"] /\ Given(a, d) \in segBackups'
           \/ segment' = [segment EXCEPT ![<<a, d>>] = "error"]
        /\ UNCHANGED <<primary, gp, restorePoint, gpSentinels>>
    BY <1>7, Zenon DEF SegmentEnds, Given
  <2>2. GpType' /\ segBackups' \subseteq Contents \X Runs /\ segBackups \subseteq segBackups'
    BY <1>t, <2>0, <2>1, Zenon DEF GpType
  <2>3. \A b \in 1 .. Attempts, c \in Contents : <<b, c>> # <<a, d>> => segment'[<<b, c>>] = segment[<<b, c>>]
    BY <1>t, <2>1, Zenon DEF GpType, Runs
  <2>4. segment'[<<a, d>>] = "error" \/ (segment'[<<a, d>>] = "ok" /\ Given(a, d) \in segBackups')
    BY <1>t, <2>0, <2>1, Zenon DEF GpType
  <2>5. ASSUME NEW b \in 1 .. Attempts PROVE GpAttemptInv(b)'
    BY <1>t, <2>1, <2>2, <2>3, <2>4 DEF GpAttemptInv, Given, NewSegmentUserData
  <2> QED BY <2>2, <2>5, Zenon DEF GpInv
<1>8. ASSUME NEW d \in Contents, Failover(d) PROVE GpInv'
  <2>1. GpType'
    BY <1>t, <1>8, Zenon DEF Failover, GpType
  <2> QED BY <1>t, <1>8, <2>1, Zenon DEF Failover, GpInv, GpAttemptInv, Given, NewSegmentUserData
<1>9. CASE UNCHANGED gpVars
  BY <1>t, <1>9, Zenon DEF gpVars, GpInv, GpType, GpAttemptInv, Given, NewSegmentUserData
<1> QED BY <1>1, <1>2, <1>3, <1>4, <1>5, <1>6, <1>7, <1>8, <1>9, Zenon DEF GpNext

\* A cluster's backup is consistent (HandleBackupPush): of any number of segments,
\* attempts and failovers, a sentinel names complete backups of all segments, all of
\* them complete when the restore point was made.
THEOREM ClusterBackupsAreConsistent == GpSpec => []GpConsistent
<1>1. GpInv => GpConsistent
  <2> SUFFICES ASSUME GpInv, NEW a \in 1 .. Attempts, gp[a].pc = "done", NEW c \in Contents
               PROVE  <<c, gpSentinels[a][c]>> \in restorePoint[a] \cap segBackups
    BY Zenon DEF GpConsistent
  <2> QED BY ZenonT(30) DEF GpInv, GpAttemptInv
<1> QED BY <1>1, GpInvInit, GpInvStep, PTL DEF GpSpec

-----------------------------------------------------------------------------
(* copy *)

\* A failed copy that has been reported to Infos, or will be.
Failing == (\E u \in unsent : u[2]) \/ (\E k \in 1 .. Len(errors) : errors[k]) \/ copyPc = "failed"

CopyType ==
    /\ copyPc \in {"start", "errors", "ticket", "wait", "rest", "succeeded", "failed"}
    /\ errors \in Seq(BOOLEAN) /\ copyFaults \in Nat
    /\ unsent \in SUBSET (infos \X BOOLEAN)
    /\ chs \subseteq infos /\ copying \subseteq infos

\* Every object is to be started, is being copied, is there, or has failed; Infos goes on
\* to the last reports when nobody is left to send one.
CopyInv ==
    /\ CopyType
    /\ Failing => copyFaults > 0
    /\ \A i \in infos : i \in chs \/ i \in copying \/ i.target \in to \/ Failing
    /\ copyPc = "start" => infos = {}
    /\ copyPc \in {"wait", "rest", "succeeded"} => chs = {}
    /\ copyPc \in {"rest", "succeeded"} => copying = {} /\ unsent = {}
    /\ copyPc = "succeeded" => errors = <<>>

LEMMA CopyInvStep == CopyInv /\ [CopyNext]_copyVars => CopyInv'
<1> SUFFICES ASSUME CopyInv, [CopyNext]_copyVars PROVE CopyInv'
  OBVIOUS
<1> USE CopyAssumption
<1>1. CASE HandleCopy
  <2>1. unsent = {} /\ copying = {}
    BY <1>1, Zenon DEF HandleCopy, CopyInv, CopyType
  <2> QED BY <1>1, <2>1, Zenon DEF HandleCopy, CopyInv, CopyType, Failing
<1>2. CASE ReadErrors
  <2>1. CASE errors = <<>>
    BY <1>2, <2>1, Zenon DEF ReadErrors, CopyInv, CopyType, Failing
  <2>2. CASE errors # <<>>
    <3>1. /\ errors \in Seq(BOOLEAN) /\ errors' = Tail(errors) /\ errors' \in Seq(BOOLEAN)
          /\ Len(errors') = Len(errors) - 1 /\ Len(errors) \in Nat \ {0} /\ Head(errors) = errors[1]
          /\ \A k \in 1 .. Len(errors) - 1 : errors'[k] = errors[k + 1]
      <4>1. errors \in Seq(BOOLEAN) /\ errors' = Tail(errors)
        BY <1>2, <2>2, Zenon DEF ReadErrors, CopyInv, CopyType
      <4> QED BY <2>2, <4>1
    <3>2. copyPc' = IF Head(errors) THEN "failed" ELSE copyPc
      BY <1>2, <2>2, Zenon DEF ReadErrors
    <3>3. Failing <=> Failing'
      <4>1. (\E k \in 1 .. Len(errors) : errors[k]) <=> errors[1] \/ \E k \in 1 .. Len(errors') : errors'[k]
        <5>1. ASSUME NEW k \in 1 .. Len(errors), errors[k], k # 1 PROVE \E j \in 1 .. Len(errors') : errors'[j]
          <6>1. k - 1 \in 1 .. Len(errors) - 1 /\ k - 1 \in 1 .. Len(errors') /\ (k - 1) + 1 = k
            BY <3>1, <5>1
          <6>2. errors'[k - 1] = errors[k]
            BY <3>1, <6>1, Zenon
          <6> QED BY <5>1, <6>1, <6>2, Zenon
        <5>2. ASSUME NEW k \in 1 .. Len(errors'), errors'[k] PROVE \E j \in 1 .. Len(errors) : errors[j]
          <6>1. k + 1 \in 1 .. Len(errors) /\ errors'[k] = errors[k + 1]
            BY <3>1, <5>2
          <6> QED BY <5>2, <6>1, Zenon
        <5>3. 1 \in 1 .. Len(errors)
          BY <3>1
        <5> QED BY <5>1, <5>2, <5>3, Zenon
      <4>2. unsent' = unsent /\ (copyPc' = "failed" <=> copyPc = "failed" \/ errors[1])
        BY <1>2, <3>1, <3>2, Zenon DEF ReadErrors
      <4> QED BY <4>1, <4>2, Zenon DEF Failing
    <3>4. /\ copyPc' \in {"failed", copyPc} /\ copyPc \in {"errors", "rest"}
          /\ UNCHANGED <<infos, chs, copying, unsent, tickets, to, copyFaults>>
      BY <1>2, <3>2, Zenon DEF ReadErrors
    <3> HIDE DEF Failing
    <3> QED BY <3>1, <3>3, <3>4, Zenon DEF CopyInv, CopyType
  <2> QED BY <2>1, <2>2, Zenon
<1>3. CASE StartCopy
  BY <1>3, Zenon DEF StartCopy, CopyInv, CopyType, Failing
<1>4. ASSUME NEW i \in infos, copyObject(i) PROVE CopyInv'
  <2>1. PICK err \in BOOLEAN :
           /\ i \in copying /\ copying' = copying \ {i}
           /\ copyFaults' = IF err THEN copyFaults + 1 ELSE copyFaults
           /\ to' = IF err THEN to ELSE to \cup {i.target}
           /\ unsent' = unsent \cup {<<i, err>>}
           /\ UNCHANGED <<copyPc, infos, chs, errors>>
    BY <1>4, Zenon DEF copyObject
  <2>2. CopyType'
    BY <2>1 DEF CopyInv, CopyType
  <2>3. Failing' <=> Failing \/ err
    <3>0. <<i, err>>[2] = err
      OBVIOUS
    <3>1. (\E u \in unsent' : u[2]) <=> err \/ \E u \in unsent : u[2]
      BY <2>1, <3>0, Zenon
    <3> QED BY <2>1, <3>1, Zenon DEF Failing
  <2> HIDE DEF Failing
  <2>4. Failing' => copyFaults' > 0
    BY <2>1, <2>3 DEF CopyInv, CopyType
  <2> QED BY <2>1, <2>2, <2>3, <2>4, Zenon DEF CopyInv
<1>5. ASSUME NEW u \in unsent, SendError(u) PROVE CopyInv'
  <2>1. /\ u[2] \in BOOLEAN /\ errors' = Append(errors, u[2]) /\ unsent' = unsent \ {u}
        /\ errors \in Seq(BOOLEAN)
        /\ UNCHANGED <<copyPc, infos, chs, copying, to, copyFaults>>
    <3>1. u \in infos \X BOOLEAN /\ errors \in Seq(BOOLEAN)
      BY Zenon DEF CopyInv, CopyType
    <3> QED BY <1>5, <3>1, Zenon DEF SendError
  <2>2. /\ errors' \in Seq(BOOLEAN) /\ Len(errors') = Len(errors) + 1 /\ errors'[Len(errors) + 1] = u[2]
        /\ Len(errors) \in Nat /\ \A k \in 1 .. Len(errors) : errors'[k] = errors[k]
    BY <2>1
  <2>3. (\E k \in 1 .. Len(errors') : errors'[k]) <=> u[2] \/ \E k \in 1 .. Len(errors) : errors[k]
    BY <2>2
  <2>4. Failing <=> Failing'
    BY <2>1, <2>3, Zenon DEF Failing
  <2> HIDE DEF Failing
  <2> QED BY <1>5, <2>1, <2>2, <2>4, Zenon DEF CopyInv, CopyType
<1>6. CASE Wait
  BY <1>6, Zenon DEF Wait, CopyInv, CopyType, Failing
<1>7. CASE UNCHANGED copyVars
  BY <1>7, Zenon DEF copyVars, CopyInv, CopyType, Failing
<1> QED BY <1>1, <1>2, <1>3, <1>4, <1>5, <1>6, <1>7, Zenon DEF CopyNext

\* copy reports success only when every object that it listed is in the target, and a
\* failure only when a copy failed (copy.Infos).
CopyOutcome ==
    /\ copyPc = "succeeded" => \A i \in infos : i.target \in to
    /\ copyPc = "failed" => copyFaults > 0

\* No report of a failed copy is lost between the goroutines and Infos, whatever the
\* number of objects, tickets and failures.
THEOREM CopyReportsItsOutcome == CopySpec => []CopyOutcome
<1>1. CopyInit => CopyInv
  BY DEF CopyInit, CopyInv, CopyType, Failing
<1>2. CopyInv => CopyOutcome
  BY DEF CopyInv, CopyOutcome, Failing
<1> QED BY <1>1, <1>2, CopyInvStep, PTL DEF CopySpec

-----------------------------------------------------------------------------
(* Encrypted objects. Plain data are consecutive numbers. *)

Run(base, n) == [k \in 1 .. n |-> base + k]

LEMMA RunProps ==
    ASSUME NEW base \in Nat, NEW n \in Nat
    PROVE  Run(base, n) \in Seq(Nat) /\ Len(Run(base, n)) = n /\ (n = 0 => Run(base, n) = <<>>)
           /\ (n # 0 => Run(base, n) # <<>>)
  BY DEF Run

LEMMA RunConcat ==
    ASSUME NEW base \in Nat, NEW m \in Nat, NEW n \in Nat
    PROVE  Run(base, m) \o Run(base + m, n) = Run(base, m + n)
  BY DEF Run

LEMMA RunSplit ==
    ASSUME NEW base \in Nat, NEW m \in Nat, NEW n \in 0 .. m
    PROVE  /\ SubSeq(Run(base, m), 1, n) = Run(base, n)
           /\ SubSeq(Run(base, m), n + 1, m) = Run(base + n, m - n)
  BY DEF Run

Chunks(n) == n * ChunkSize

LEMMA ChunksProps ==
    ASSUME NEW n \in Nat
    PROVE  Chunks(n) \in Nat /\ Chunks(n + 1) = Chunks(n) + ChunkSize /\ Chunks(0) = 0
  BY SodiumAssumption DEF Chunks

Chunk(base, n, final) == [data |-> Run(base, n), final |-> final]
ChunkType == [data : Seq(Nat), final : BOOLEAN]

\* The Writer: whole chunks, and a buffer that is not full, hold what was written so far.
WriterInv ==
    /\ in = Run(Chunks(Len(object)), written - Chunks(Len(object)))
    /\ written - Chunks(Len(object)) \in 0 .. ChunkSize - 1
    /\ \A k \in 1 .. Len(object) : object[k] = Chunk(Chunks(k - 1), ChunkSize, FALSE)
    /\ header \/ written = 0
    /\ out = <<>> /\ decrypted = <<>>

\* The Reader: what it returned, its buffer and the chunks it has not read follow each
\* other, and only the last chunk is not whole.
Unread(next) ==
    /\ object = <<>> => next = length
    /\ object # <<>> =>
          /\ length - next - Chunks(Len(object) - 1) \in 0 .. ChunkSize - 1
          /\ object[Len(object)] =
                Chunk(next + Chunks(Len(object) - 1), length - next - Chunks(Len(object) - 1), TRUE)
    /\ \A k \in 1 .. Len(object) - 1 : object[k] = Chunk(next + Chunks(k - 1), ChunkSize, FALSE)

ReaderInv ==
    /\ decrypted = Run(0, Len(decrypted))
    /\ out = Run(Len(decrypted), Len(out))
    /\ Unread(Len(decrypted) + Len(out))

SodiumType ==
    /\ length \in Nat \ {0} /\ written \in 0 .. length /\ header \in BOOLEAN
    /\ object \in Seq(ChunkType)
    /\ in \in Seq(Nat) /\ out \in Seq(Nat) /\ decrypted \in Seq(Nat)

SodiumInv ==
    /\ SodiumType
    /\ sodiumPc \in {"write", "read", "eof"}
    /\ sodiumPc = "write" => WriterInv
    /\ sodiumPc = "read" => ReaderInv
    /\ sodiumPc = "eof" => decrypted = Run(0, length)

LEMMA AppendChunk ==
    ASSUME NEW s \in Seq(ChunkType), NEW c \in ChunkType
    PROVE  /\ Append(s, c) \in Seq(ChunkType) /\ Len(Append(s, c)) = Len(s) + 1
           /\ Append(s, c)[Len(s) + 1] = c /\ \A k \in 1 .. Len(s) : Append(s, c)[k] = s[k]
  OBVIOUS

LEMMA SodiumInvWrite == SodiumInv /\ Write => SodiumInv'
<1> SUFFICES ASSUME SodiumInv, Write PROVE SodiumInv'
  OBVIOUS
<1> DEFINE q == Len(object)
           m == written - Chunks(q)
<1>1. PICK n \in 1 .. MaxPiece :
        LET count == Smaller(Smaller(n, length - written), ChunkSize - Len(in))
            data == in \o [k \in 1 .. count |-> written + k]
        IN  /\ written' = written + count
            /\ object' = IF Len(data) = ChunkSize THEN writeNextChunk(data, FALSE) ELSE object
            /\ in' = IF Len(data) = ChunkSize THEN <<>> ELSE data
  BY Zenon DEF Write
<1> DEFINE count == Smaller(Smaller(n, length - written), ChunkSize - Len(in))
<1>2. /\ WriterInv /\ length \in Nat /\ written \in 0 .. length /\ written < length
      /\ q \in Nat /\ Chunks(q) \in Nat /\ m \in 0 .. ChunkSize - 1 /\ in = Run(Chunks(q), m)
  <2>1. WriterInv /\ object \in Seq(ChunkType) /\ length \in Nat /\ written \in 0 .. length /\ written < length
    BY Zenon DEF Write, SodiumInv, SodiumType
  <2>2. q \in Nat /\ Chunks(q) \in Nat
    BY <2>1, ChunksProps
  <2> QED BY <2>1, <2>2, Zenon DEF WriterInv
<1>3. Len(in) = m
  BY <1>2, SodiumAssumption, RunProps
<1>4. count \in Nat /\ m + count <= ChunkSize /\ written + count <= length
  BY <1>2, <1>3, SodiumAssumption DEF Smaller
<1>5. in \o [k \in 1 .. count |-> written + k] = Run(Chunks(q), m + count)
  <2>1. [k \in 1 .. count |-> written + k] = Run(Chunks(q) + m, count)
    BY <1>2 DEF Run
  <2>2. m \in Nat
    BY <1>2, SodiumAssumption
  <2> HIDE DEF m, count
  <2>3. Run(Chunks(q), m) \o Run(Chunks(q) + m, count) = Run(Chunks(q), m + count)
    BY <1>2, <1>4, <2>2, RunConcat, Zenon
  <2> QED BY <1>2, <2>1, <2>3, Zenon
<1> HIDE DEF count, m
<1>6. Run(Chunks(q), m + count) \in Seq(Nat) /\ Len(Run(Chunks(q), m + count)) = m + count
  BY <1>2, <1>4, SodiumAssumption, RunProps
<1>7. /\ written' = written + count
      /\ object' = IF m + count = ChunkSize THEN writeNextChunk(Run(Chunks(q), m + count), FALSE) ELSE object
      /\ in' = IF m + count = ChunkSize THEN <<>> ELSE Run(Chunks(q), m + count)
  BY <1>1, <1>5, <1>6, Zenon DEF count
<1>8. /\ sodiumPc = "write" /\ sodiumPc' = "write" /\ header' = TRUE /\ length' = length
      /\ out' = out /\ decrypted' = decrypted /\ out = <<>> /\ decrypted = <<>>
  BY <1>2, Zenon DEF Write, WriterInv
<1>9. CASE m + count = ChunkSize
  <2>1. object' = Append(object, Chunk(Chunks(q), ChunkSize, FALSE)) /\ in' = <<>>
    BY <1>7, <1>9, Zenon DEF writeNextChunk, Chunk
  <2>2. Chunk(Chunks(q), ChunkSize, FALSE) \in ChunkType
    BY <1>6, <1>9, Zenon DEF Chunk, ChunkType
  <2>3. object \in Seq(ChunkType)
    BY Zenon DEF SodiumInv, SodiumType
  <2>4. object' \in Seq(ChunkType) /\ Len(object') = q + 1
    BY <2>1, <2>2, <2>3, AppendChunk, Zenon
  <2>5. Chunks(q + 1) = written' /\ written' \in 0 .. length
    <3>1. Chunks(q + 1) = Chunks(q) + ChunkSize
      BY <1>2, ChunksProps, Zenon
    <3> QED BY <1>2, <1>4, <1>7, <1>9, <3>1, SodiumAssumption DEF m
  <2>6. in' = Run(Chunks(q + 1), written' - Chunks(q + 1))
    BY <1>2, <2>1, <2>5, RunProps
  <2>7. ASSUME NEW k \in 1 .. Len(object') PROVE object'[k] = Chunk(Chunks(k - 1), ChunkSize, FALSE)
    <3>1. k = q + 1 \/ k \in 1 .. q
      BY <1>2, <2>4
    <3>2. CASE k = q + 1
      <4>1. object'[k] = Chunk(Chunks(q), ChunkSize, FALSE)
        BY <2>1, <2>2, <2>3, <3>2, AppendChunk, Zenon
      <4> QED BY <1>2, <3>2, <4>1
    <3>3. CASE k \in 1 .. q
      <4>1. object'[k] = object[k]
        BY <2>1, <2>2, <2>3, <3>3, AppendChunk, Zenon
      <4> QED BY <1>2, <3>3, <4>1, Zenon DEF WriterInv
    <3> QED BY <3>1, <3>2, <3>3, Zenon
  <2>8. WriterInv'
    <3>1. Len(object') = q + 1 /\ written' - Chunks(q + 1) \in 0 .. ChunkSize - 1
      BY <1>2, <2>4, <2>5, SodiumAssumption
    <3> QED BY <1>8, <2>6, <2>7, <3>1, Zenon DEF WriterInv
  <2> QED BY <1>2, <1>8, <2>1, <2>4, <2>5, <2>8, Zenon DEF SodiumInv, SodiumType
<1>10. CASE m + count # ChunkSize
  <2>1. object' = object /\ in' = Run(Chunks(q), m + count)
    BY <1>7, <1>10, Zenon
  <2>2. written' - Chunks(q) = m + count /\ m + count \in 0 .. ChunkSize - 1 /\ written' \in 0 .. length
    BY <1>2, <1>4, <1>7, <1>10, SodiumAssumption DEF m
  <2>3. WriterInv'
    BY <1>2, <1>8, <2>1, <2>2, Zenon DEF WriterInv, Chunk, Run, Chunks
  <2> QED BY <1>2, <1>6, <1>8, <2>1, <2>2, <2>3, Zenon DEF SodiumInv, SodiumType
<1> QED BY <1>9, <1>10, Zenon

LEMMA SodiumInvClose == Damage = {} /\ SodiumInv /\ Close => SodiumInv'
<1> SUFFICES ASSUME Damage = {}, SodiumInv, Close PROVE SodiumInv'
  OBVIOUS
<1> DEFINE q == Len(object)
           rest == length - Chunks(q)
<1>1. /\ WriterInv /\ object \in Seq(ChunkType) /\ length \in Nat \ {0} /\ written = length
      /\ q \in Nat /\ Chunks(q) \in Nat /\ rest \in 0 .. ChunkSize - 1 /\ in = Run(Chunks(q), rest) /\ in \in Seq(Nat)
  <2>1. WriterInv /\ object \in Seq(ChunkType) /\ length \in Nat \ {0} /\ written = length /\ in \in Seq(Nat)
    BY Zenon DEF Close, SodiumInv, SodiumType
  <2>2. q \in Nat /\ Chunks(q) \in Nat
    BY <2>1, ChunksProps
  <2> QED BY <2>1, <2>2, Zenon DEF WriterInv
<1>2. /\ object' = Append(object, Chunk(Chunks(q), rest, TRUE)) /\ in' = <<>> /\ sodiumPc' = "read"
      /\ UNCHANGED <<length, header, written, out, decrypted>>
  BY <1>1, Zenon DEF Close, writeNextChunk, Chunk, WriterInv
<1> HIDE DEF rest
<1>3. Chunk(Chunks(q), rest, TRUE) \in ChunkType
  BY <1>1, Zenon DEF Chunk, ChunkType
<1>4. /\ object' \in Seq(ChunkType) /\ Len(object') = q + 1 /\ object'[q + 1] = Chunk(Chunks(q), rest, TRUE)
      /\ \A k \in 1 .. q : object'[k] = object[k]
  BY <1>1, <1>2, <1>3, AppendChunk, Zenon
<1>5. out = <<>> /\ decrypted = <<>> /\ Len(out) = 0 /\ Len(decrypted) = 0
  BY <1>1, Zenon DEF WriterInv
<1>6. ReaderInv'
  <2>1. decrypted' = Run(0, Len(decrypted')) /\ out' = Run(Len(decrypted'), Len(out'))
    BY <1>2, <1>5, RunProps, Zenon
  <2>2. object' # <<>>
    BY <1>4, <1>1
  <2>3. Len(object') - 1 = q /\ Len(decrypted') + Len(out') = 0 /\ length' - 0 - Chunks(q) = rest /\ 0 + Chunks(q) = Chunks(q)
    BY <1>1, <1>2, <1>4, <1>5 DEF rest
  <2>4. ASSUME NEW k \in 1 .. Len(object') - 1 PROVE object'[k] = Chunk(0 + Chunks(k - 1), ChunkSize, FALSE)
    <3>1. k \in 1 .. q /\ k - 1 \in Nat
      BY <1>1, <1>4
    <3>2. Chunks(k - 1) \in Nat
      BY <3>1, ChunksProps, Zenon
    <3>4. 0 + Chunks(k - 1) = Chunks(k - 1)
      BY <3>2
    <3>3. object'[k] = Chunk(Chunks(k - 1), ChunkSize, FALSE)
      BY <1>1, <1>4, <3>1, Zenon DEF WriterInv
    <3> QED BY <3>3, <3>4, Zenon
  <2>5. Unread(0)'
    BY <1>1, <1>4, <2>2, <2>3, <2>4, Zenon DEF Unread, Run, Chunk, Chunks
  <2> QED BY <2>1, <2>3, <2>5, Zenon DEF ReaderInv, Run
<1>7. SodiumType'
  <2>1. in' \in Seq(Nat)
    BY <1>2
  <2>2. SodiumType
    BY Zenon DEF SodiumInv
  <2> QED BY <1>2, <1>4, <2>1, <2>2, Zenon DEF SodiumType
<1> QED BY <1>2, <1>6, <1>7, Zenon DEF SodiumInv

LEMMA SodiumInvRead == SodiumInv /\ ReadDecrypted => SodiumInv'
<1> SUFFICES ASSUME SodiumInv, ReadDecrypted PROVE SodiumInv'
  OBVIOUS
<1> DEFINE d == Len(decrypted)
           e == Len(out)
<1>1. /\ SodiumType /\ ReaderInv /\ decrypted \in Seq(Nat) /\ out \in Seq(Nat)
      /\ d \in Nat /\ e \in Nat /\ decrypted = Run(0, d) /\ out = Run(d, e)
  BY DEF ReadDecrypted, SodiumInv, SodiumType, ReaderInv
<1>2. PICK n \in 1 .. MaxPiece :
         /\ decrypted' = decrypted \o SubSeq(out, 1, Smaller(n, Len(out)))
         /\ out' = SubSeq(out, Smaller(n, Len(out)) + 1, Len(out))
  BY Zenon DEF ReadDecrypted
<1> DEFINE count == Smaller(n, e)
<1>3. count \in 0 .. e
  BY <1>1, SodiumAssumption DEF Smaller
<1>4. /\ sodiumPc = "read" /\ sodiumPc' = "read"
      /\ UNCHANGED <<length, header, in, written, object>>
  BY Zenon DEF ReadDecrypted
<1>5. decrypted' = decrypted \o SubSeq(out, 1, count) /\ out' = SubSeq(out, count + 1, e)
  BY <1>2, Zenon
<1> HIDE DEF count
<1>6. SubSeq(out, 1, count) = Run(d, count) /\ out' = Run(d + count, e - count)
  <2>1. SubSeq(Run(d, e), 1, count) = Run(d, count) /\ SubSeq(Run(d, e), count + 1, e) = Run(d + count, e - count)
    BY <1>1, <1>3, RunSplit, Zenon
  <2> QED BY <1>1, <1>5, <2>1, Zenon
<1>7. decrypted' = Run(0, d + count)
  <2>0. 0 \in Nat /\ count \in Nat
    BY <1>1, <1>3
  <2>1. Run(0, d) \o Run(0 + d, count) = Run(0, d + count)
    BY <1>1, <2>0, RunConcat, ZenonT(30)
  <2>2. 0 + d = d
    BY <1>1
  <2> QED BY <1>1, <1>5, <1>6, <2>1, <2>2, Zenon
<1> HIDE DEF d, e
<1>8. d + count \in Nat /\ e - count \in Nat /\ (d + count) + (e - count) = d + e
  BY <1>1, <1>3
<1>9. decrypted' \in Seq(Nat) /\ Len(decrypted') = d + count /\ out' \in Seq(Nat) /\ Len(out') = e - count
  <2>1. 0 \in Nat
    OBVIOUS
  <2> QED BY <1>6, <1>7, <1>8, <2>1, RunProps, Zenon
<1>10. PICK p : p = d + e
  OBVIOUS
<1>11. Unread(p)'
  <2>1. Unread(p)
    BY <1>1, <1>10, Zenon DEF ReaderInv, d, e
  <2> QED BY <1>4, <2>1, Zenon DEF Unread, Chunk, Chunks, Run
<1>12. ReaderInv'
  <2>1. Len(decrypted') + Len(out') = p
    BY <1>8, <1>9, <1>10, Zenon
  <2>2. decrypted' = Run(0, Len(decrypted')) /\ out' = Run(Len(decrypted'), Len(out'))
    BY <1>6, <1>7, <1>9, Zenon
  <2> QED BY <1>11, <2>1, <2>2, Zenon DEF ReaderInv, Unread, Chunk, Chunks, Run
<1>13. SodiumType'
  BY <1>1, <1>4, <1>9, Zenon DEF SodiumType
<1> QED BY <1>4, <1>12, <1>13, Zenon DEF SodiumInv

LEMMA TailChunks ==
    ASSUME NEW s \in Seq(ChunkType), s # <<>>
    PROVE  /\ Tail(s) \in Seq(ChunkType) /\ Len(s) \in Nat \ {0} /\ Len(Tail(s)) = Len(s) - 1 /\ Head(s) = s[1]
           /\ \A k \in 1 .. Len(s) - 1 : Tail(s)[k] = s[k + 1]
  OBVIOUS

LEMMA SodiumInvReadNextChunk == SodiumInv /\ readNextChunk => SodiumInv'
<1> SUFFICES ASSUME SodiumInv, readNextChunk PROVE SodiumInv'
  OBVIOUS
<1>1. /\ SodiumType /\ ReaderInv /\ sodiumPc = "read" /\ out = <<>> /\ Len(out) = 0 /\ object \in Seq(ChunkType)
      /\ UNCHANGED <<length, header, in, written, decrypted>>
  BY Zenon DEF readNextChunk, SodiumInv, SodiumType
<1>2. PICK p : p = Len(decrypted)
  BY Zenon
<1>3. p \in Nat /\ length \in Nat /\ decrypted = Run(0, p) /\ decrypted \in Seq(Nat)
  BY <1>1, <1>2 DEF SodiumType, ReaderInv
<1>4. Unread(p)
  <2>1. Len(decrypted) + Len(out) = p
    BY <1>1, <1>2, <1>3
  <2> QED BY <1>1, <2>1, Zenon DEF ReaderInv
<1>5. CASE object = <<>>
  <2>1. sodiumPc' = "eof" /\ UNCHANGED <<object, out>>
    BY <1>5, Zenon DEF readNextChunk
  <2>2. p = length
    BY <1>4, <1>5, Zenon DEF Unread
  <2>3. SodiumType'
    BY <1>1, <2>1, Zenon DEF SodiumType
  <2> QED BY <1>1, <1>3, <2>1, <2>2, <2>3, Zenon DEF SodiumInv, Run
<1>6. CASE object # <<>>
  <2> DEFINE n == Len(object)
  <2>1. /\ Tail(object) \in Seq(ChunkType) /\ n \in Nat \ {0} /\ Len(Tail(object)) = n - 1 /\ Head(object) = object[1]
        /\ \A k \in 1 .. n - 1 : Tail(object)[k] = object[k + 1]
    BY <1>1, <1>6, TailChunks, Zenon
  <2>2. /\ object' = Tail(object)
        /\ LET whole == Len(Head(object).data) + Abytes = ChunkSize + Abytes
           IN  IF (Head(object).final /\ whole) \/ (~whole /\ n > 1)
               THEN sodiumPc' = "error" /\ UNCHANGED out
               ELSE out' = Head(object).data /\ UNCHANGED sodiumPc
    BY <1>6, Zenon DEF readNextChunk
  <2>3. ASSUME NEW r \in 0 .. ChunkSize, NEW final \in BOOLEAN, Head(object) = Chunk(p, r, final),
               final <=> r # ChunkSize, final <=> n = 1
        PROVE  out' = Run(p, r) /\ sodiumPc' = "read"
    <3>1. r \in Nat /\ Head(object).data = Run(p, r) /\ Head(object).final = final /\ Len(Run(p, r)) = r
      <4>1. r \in Nat
        BY SodiumAssumption
      <4>2. Head(object).data = Run(p, r) /\ Head(object).final = final
        BY <2>3 DEF Chunk
      <4> QED BY <1>3, <4>1, <4>2, RunProps, Zenon
    <3>2. Len(Head(object).data) + Abytes = ChunkSize + Abytes <=> r = ChunkSize
      BY <3>1, SodiumAssumption
    <3> QED BY <1>1, <2>1, <2>2, <2>3, <3>1, <3>2
  <2>4. Chunks(0) = 0
    BY ChunksProps, Zenon
  <2>5. CASE n = 1
    <3> DEFINE r == length - p - Chunks(0)
    <3>1. r \in 0 .. ChunkSize - 1 /\ object[1] = Chunk(p + Chunks(0), r, TRUE)
      <4>1. Len(object) - 1 = 0
        BY <2>5
      <4> QED BY <1>4, <1>6, <2>5, <4>1, Zenon DEF Unread
    <3>2. p + Chunks(0) = p /\ r = length - p /\ p + r = length
      <4>1. r = length - p - 0 /\ p + Chunks(0) = p + 0
        BY <2>4, Zenon
      <4> QED BY <1>3, <4>1
    <3> HIDE DEF r
    <3>3. r \in 0 .. ChunkSize /\ r \in Nat /\ r # ChunkSize
      BY <3>1, SodiumAssumption
    <3>4. out' = Run(p, r) /\ sodiumPc' = "read"
      BY <2>1, <2>3, <2>5, <3>1, <3>2, <3>3, Zenon
    <3>5. out' \in Seq(Nat) /\ Len(out') = r
      BY <1>3, <3>3, <3>4, RunProps, Zenon
    <3>6. object' = <<>> /\ object' \in Seq(ChunkType) /\ Len(object') = 0
      <4>1. object' \in Seq(ChunkType) /\ Len(object') = 0
        BY <2>1, <2>2, <2>5
      <4> QED BY <4>1
    <3>7. SodiumType'
      BY <1>1, <3>5, <3>6, Zenon DEF SodiumType
    <3>8. ReaderInv'
      <4>1. Unread(length)'
        BY <1>1, <3>6 DEF Unread
      <4>2. Len(decrypted') + Len(out') = length'
        BY <1>1, <1>2, <3>2, <3>5, Zenon
      <4>3. decrypted' = Run(0, Len(decrypted')) /\ out' = Run(Len(decrypted'), Len(out'))
        BY <1>1, <1>2, <1>3, <3>4, <3>5, Zenon
      <4> QED BY <4>1, <4>2, <4>3, Zenon DEF ReaderInv, Unread, Run, Chunk, Chunks
    <3> QED BY <3>4, <3>7, <3>8, Zenon DEF SodiumInv
  <2>6. CASE n > 1
    <3> DEFINE q == p + ChunkSize
    <3>1. object[1] = Chunk(p + Chunks(0), ChunkSize, FALSE)
      <4>1. 1 \in 1 .. n - 1 /\ 1 - 1 = 0
        BY <2>1, <2>6
      <4> QED BY <1>4, <4>1, Zenon DEF Unread
    <3>2. p + Chunks(0) = p /\ ChunkSize \in 0 .. ChunkSize
      BY <1>3, <2>4, SodiumAssumption
    <3>3. out' = Run(p, ChunkSize) /\ sodiumPc' = "read"
      <4>0. n # 1
        <5>1. n \in Nat
          BY <2>1, Zenon
        <5> HIDE DEF n
        <5> QED BY <2>6, <5>1
      <4>1. Head(object) = Chunk(p, ChunkSize, FALSE) /\ n # 1 /\ FALSE \in BOOLEAN
        BY <2>1, <3>1, <3>2, <4>0, Zenon
      <4> HIDE DEF n
      <4> QED BY <2>3, <3>2, <4>1, Zenon
    <3>4. out' \in Seq(Nat) /\ Len(out') = ChunkSize
      BY <1>3, <3>3, SodiumAssumption, RunProps, Zenon
    <3>5. object' \in Seq(ChunkType) /\ Len(object') = n - 1 /\ object' # <<>> /\ object'[n - 1] = object[n]
      <4>1. n - 1 \in 1 .. n - 1 /\ (n - 1) + 1 = n
        BY <2>1, <2>6
      <4> QED BY <2>1, <2>2, <4>1
    <3>6. SodiumType'
      <4> HIDE DEF n
      <4> QED BY <1>1, <3>4, <3>5, Zenon DEF SodiumType
    <3>7. q + Chunks(n - 2) = p + Chunks(n - 1) /\ length - q - Chunks(n - 2) = length - p - Chunks(n - 1)
      <4>1. n - 2 \in Nat /\ (n - 2) + 1 = n - 1
        BY <2>1, <2>6
      <4>2. Chunks(n - 2) \in Nat /\ Chunks(n - 1) = Chunks(n - 2) + ChunkSize
        BY <4>1, ChunksProps, Zenon
      <4> QED BY <1>3, <4>2, SodiumAssumption
    <3>8. ASSUME NEW k \in 1 .. n - 2 PROVE object'[k] = Chunk(q + Chunks(k - 1), ChunkSize, FALSE)
      <4>1. k - 1 \in Nat /\ (k - 1) + 1 = k /\ k + 1 \in 1 .. n - 1 /\ k \in 1 .. n - 1 /\ (k + 1) - 1 = k
        BY <2>1
      <4>2. Chunks(k - 1) \in Nat /\ Chunks(k) = Chunks(k - 1) + ChunkSize
        BY <4>1, ChunksProps, Zenon
      <4>3. q + Chunks(k - 1) = p + Chunks(k)
        BY <1>3, <4>2, SodiumAssumption
      <4>4. object'[k] = object[k + 1] /\ object[k + 1] = Chunk(p + Chunks(k), ChunkSize, FALSE)
        BY <1>4, <2>1, <2>2, <4>1, Zenon DEF Unread
      <4> QED BY <4>3, <4>4, Zenon
    <3>9. Unread(q)'
      <4>1. /\ length - p - Chunks(n - 1) \in 0 .. ChunkSize - 1
            /\ object[n] = Chunk(p + Chunks(n - 1), length - p - Chunks(n - 1), TRUE)
        BY <1>4, <1>6, Zenon DEF Unread
      <4>2. length' = length /\ (n - 1) - 1 = n - 2
        BY <1>1, <2>1
      <4> HIDE DEF q
      <4> QED BY <3>5, <3>7, <3>8, <4>1, <4>2, Zenon DEF Unread, Run, Chunk, Chunks
    <3>10. ReaderInv'
      <4>1. Len(decrypted') + Len(out') = q
        BY <1>1, <1>2, <3>4, Zenon
      <4>2. decrypted' = Run(0, Len(decrypted')) /\ out' = Run(Len(decrypted'), Len(out'))
        BY <1>1, <1>2, <1>3, <3>3, <3>4, Zenon
      <4> QED BY <3>9, <4>1, <4>2, Zenon DEF ReaderInv, Unread, Run, Chunk, Chunks
    <3> QED BY <3>3, <3>6, <3>10, Zenon DEF SodiumInv
  <2> QED BY <2>1, <2>5, <2>6
<1> QED BY <1>5, <1>6, Zenon

\* An object that was neither empty nor truncated is decrypted to what was encrypted, to
\* its end, whatever its length, the size of a chunk and the sizes of the reads and
\* writes (Writer.Write, Writer.Close, Reader.Read, Reader.readNextChunk).
THEOREM ObjectsDecryptExactly == ASSUME Damage = {} PROVE SodiumSpec => []DecryptsExact
<1>1. SodiumInit => SodiumInv
  <2> SUFFICES ASSUME SodiumInit PROVE SodiumInv
    OBVIOUS
  <2>1. length \in Nat \ {0} /\ object = <<>> /\ Len(object) = 0 /\ written = 0 /\ in = <<>>
    BY SodiumAssumption DEF SodiumInit
  <2>2. in = Run(Chunks(0), 0 - Chunks(0)) /\ 0 - Chunks(0) \in 0 .. ChunkSize - 1
    BY <2>1, SodiumAssumption, ChunksProps, RunProps
  <2>3. WriterInv
    BY <2>1, <2>2 DEF SodiumInit, WriterInv
  <2>4. in \in Seq(Nat) /\ out \in Seq(Nat) /\ decrypted \in Seq(Nat) /\ object \in Seq(ChunkType)
    BY DEF SodiumInit
  <2>5. SodiumType
    <3>1. written \in 0 .. length
      BY <2>1
    <3>2. header \in BOOLEAN
      BY Zenon DEF SodiumInit
    <3> QED BY <2>1, <2>4, <3>1, <3>2, Zenon DEF SodiumType
  <2> QED BY <2>3, <2>5, Zenon DEF SodiumInit, SodiumInv
<1>2. SodiumInv /\ [SodiumNext]_sodiumVars => SodiumInv'
  <2>1. SodiumInv /\ UNCHANGED sodiumVars => SodiumInv'
    BY DEF sodiumVars, SodiumInv, SodiumType, WriterInv, ReaderInv, Unread, Run, Chunk, Chunks
  <2> QED BY <2>1, SodiumInvWrite, SodiumInvClose, SodiumInvReadNextChunk, SodiumInvRead, Zenon DEF SodiumNext
<1>3. SodiumInv => DecryptsExact
  <2> SUFFICES ASSUME SodiumInv PROVE DecryptsExact
    OBVIOUS
  <2>1. length \in Nat
    BY Zenon DEF SodiumInv, SodiumType
  <2>2. Run(0, length) = [k \in 1 .. length |-> k]
    BY <2>1 DEF Run
  <2> QED BY <2>2, Zenon DEF SodiumInv, DecryptsExact
<1> QED BY <1>1, <1>2, <1>3, PTL DEF SodiumSpec

=============================================================================
