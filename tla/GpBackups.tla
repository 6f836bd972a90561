------------------------------ MODULE GpBackups ------------------------------
(***************************************************************************)
(* A backup of a Greenplum cluster: wal-g runs on every segment, the       *)
(* master included, then a restore point is made that all of them can be   *)
(* recovered to, and the sentinel names the backup of each segment by the  *)
(* identifier it was given in its user data.                               *)
(***************************************************************************)
EXTENDS Naturals, FiniteSets

CONSTANTS
    Contents,       \* content ids of the segments, the master's too
    Hosts,          \* where a segment may be
    Attempts,       \* processes of backup-push, one after the other
    MaxGpFaults     \* bound: failures and failovers

ASSUME GpAssumption == Attempts \in Nat /\ MaxGpFaults \in Nat

VARIABLES
    primary,        \* content id -> host
    gp,             \* attempt -> its process
    segment,        \* <<attempt, content id>> -> "off", "running", "ok" or "error"
    segBackups,     \* <<content id, identifier>> of the complete backups of segments
    restorePoint,   \* attempt -> segBackups when its restore point was made
    gpSentinels,    \* attempt -> content id -> identifier
    gpFaults

gpVars == <<primary, gp, segment, segBackups, restorePoint, gpSentinels, gpFaults>>

Runs == (1 .. Attempts) \X Contents

GpFault == gpFaults < MaxGpFaults /\ gpFaults' = gpFaults + 1

GetGreenplumSegmentsInfo == primary

\* NewBackupHandler reads the primary of each segment.
getGpCluster(a) ==
    /\ gp[a].pc = "off"
    /\ \A b \in 1 .. Attempts : IF b < a THEN gp[b].pc \in {"done", "failed"} ELSE gp[b].pc = "off"
    /\ gp' = [gp EXCEPT ![a].pc = "start", ![a].globalCluster = GetGreenplumSegmentsInfo]
    /\ UNCHANGED <<primary, segment, segBackups, restorePoint, gpSentinels, gpFaults>>

\* A new identifier for each segment.
NewSegmentUserData(a, c) == <<a, c>>

\* GenerateAndExecuteCommand builds all commands and starts them.
buildCommand(a) ==
    /\ gp[a].pc = "start"
    /\ gp' = [gp EXCEPT ![a].pc = "run", ![a].backupIDByContentID = [c \in Contents |-> NewSegmentUserData(a, c)]]
    /\ segment' = [r \in Runs |-> IF r[1] = a THEN "running" ELSE segment[r]]
    /\ UNCHANGED <<primary, segBackups, restorePoint, gpSentinels, gpFaults>>

\* backup-push on a segment ends; where there is no primary any more it fails.
SegmentEnds(a, c) ==
    /\ segment[<<a, c>>] = "running"
    /\ \/ /\ gp[a].globalCluster[c] = primary[c]
          /\ segment' = [segment EXCEPT ![<<a, c>>] = "ok"]
          /\ segBackups' = segBackups \cup {<<c, NewSegmentUserData(a, c)>>}
          /\ UNCHANGED gpFaults
       \/ /\ IF gp[a].globalCluster[c] = primary[c] THEN GpFault ELSE UNCHANGED gpFaults
          /\ segment' = [segment EXCEPT ![<<a, c>>] = "error"]
          /\ UNCHANGED segBackups
    /\ UNCHANGED <<primary, gp, restorePoint, gpSentinels>>

\* Mutant: the errors of the segments are logged and no more.
CheckClusterErrorNoFatal(a) ==
    /\ gp[a].pc = "run" /\ \A c \in Contents : segment[<<a, c>>] # "running"
    /\ gp' = [gp EXCEPT ![a].pc = "point"]
    /\ UNCHANGED <<primary, segment, segBackups, restorePoint, gpSentinels, gpFaults>>

\* All commands have ended, and an error of one is the end.
CheckClusterError(a) ==
    /\ gp[a].pc = "run" /\ \A c \in Contents : segment[<<a, c>>] # "running"
    /\ gp' = [gp EXCEPT ![a].pc = IF \E c \in Contents : segment[<<a, c>>] = "error" THEN "failed" ELSE "point"]
    /\ UNCHANGED <<primary, segment, segBackups, restorePoint, gpSentinels, gpFaults>>

CreateGreenplumRestorePoint(a) == restorePoint' = [restorePoint EXCEPT ![a] = segBackups]

createRestorePoint(a) ==
    /\ gp[a].pc = "point"
    /\ CreateGreenplumRestorePoint(a)
    /\ gp' = [gp EXCEPT ![a].pc = "sentinel"]
    /\ UNCHANGED <<primary, segment, segBackups, gpSentinels, gpFaults>>

NewBackupSentinelDto(a) == gp[a].backupIDByContentID

\* The end of HandleBackupPush.
UploadGpSentinel(a) ==
    /\ gp[a].pc = "sentinel"
    /\ gpSentinels' = [gpSentinels EXCEPT ![a] = NewBackupSentinelDto(a)]
    /\ gp' = [gp EXCEPT ![a].pc = "done"]
    /\ UNCHANGED <<primary, segment, segBackups, restorePoint, gpFaults>>

\* A query or an upload fails, or the process dies: the segments go on.
GpPushFails(a) ==
    /\ gp[a].pc \notin {"off", "done", "failed"}
    /\ GpFault
    /\ gp' = [gp EXCEPT ![a].pc = "failed"]
    /\ UNCHANGED <<primary, segment, segBackups, restorePoint, gpSentinels>>

\* A mirror becomes the primary.
Failover(c) ==
    /\ GpFault
    /\ \E h \in Hosts \ {primary[c]} : primary' = [primary EXCEPT ![c] = h]
    /\ UNCHANGED <<gp, segment, segBackups, restorePoint, gpSentinels>>

GpInit ==
    /\ primary \in {[c \in Contents |-> h] : h \in Hosts}
    /\ gp = [a \in 1 .. Attempts |-> [pc |-> "off", globalCluster |-> primary, backupIDByContentID |-> [c \in Contents |-> <<>>]]]
    /\ segment = [r \in Runs |-> "off"] /\ segBackups = {} /\ gpFaults = 0
    /\ restorePoint = [a \in 1 .. Attempts |-> {}]
    /\ gpSentinels = [a \in 1 .. Attempts |-> [c \in Contents |-> <<>>]]

GpNext ==
    \/ \E a \in 1 .. Attempts :
        \/ getGpCluster(a) \/ buildCommand(a) \/ CheckClusterError(a) \/ createRestorePoint(a)
        \/ UploadGpSentinel(a) \/ GpPushFails(a)
        \/ \E c \in Contents : SegmentEnds(a, c)
    \/ \E c \in Contents : Failover(c)

GpSpec == GpInit /\ [][GpNext]_gpVars

\* A cluster's backup is consistent: what its sentinel names is a complete backup of
\* every segment, and each of them was complete when the restore point was made, even
\* when segments fail over, or still run for an attempt that died (HandleBackupPush).
GpConsistent ==
    \A a \in 1 .. Attempts :
        gp[a].pc = "done" => \A c \in Contents : <<c, gpSentinels[a][c]>> \in restorePoint[a] \cap segBackups
=============================================================================
