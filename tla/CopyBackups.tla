----------------------------- MODULE CopyBackups -----------------------------
(***************************************************************************)
(* copy: a backup, or everything, from one storage to another, by          *)
(* goroutines that hold one of Jobs tickets and report in a channel of     *)
(* twice that size (internal/copy).                                        *)
(*                                                                         *)
(* An object is <<folder, name, n>>: of backup name in folder "base", WAL  *)
(* number n in folder "wal"; "root" is the top of the storage, "prefixed"  *)
(* that of backups under a name with a prefix.                             *)
(***************************************************************************)
EXTENDS Integers, Sequences, FiniteSets

CONSTANTS
    Objects,        \* what the source holds
    FinishLsn,      \* of each backup
    WalSegmentSize, \* in the unit of an LSN
    Jobs,           \* maxParallelJobsCount
    MaxUnsent,      \* goroutines between their ticket and their report at once
    MaxCopyFaults   \* bound: copies that fail

ASSUME CopyAssumption == Jobs \in Nat \ {0} /\ WalSegmentSize \in Nat \ {0} /\ MaxUnsent \in Nat \ {0} /\ MaxCopyFaults \in Nat

VARIABLES
    copyPc,         \* where Infos is
    infos, chs,     \* InfoProviders: all, and those not started
    copying,        \* those whose goroutine has not copied, or copied and not reported
    unsent,         \*   and holds no ticket any more: <<info, error>>
    tickets, errors,
    to,             \* objects of the target
    copyFaults

copyVars == <<copyPc, infos, chs, copying, unsent, tickets, errors, to, copyFaults>>

Backups == {o[2] : o \in {o \in Objects : o[1] = "base"}}

\* The renaming is a function of the objects.
BuildCopyingInfos(objects, rename) == {[src |-> o, target |-> rename[o]] : o \in objects}

NoopRenameFunc == [o \in Objects |-> o]

BackupCopyingInfo(b) == BuildCopyingInfos({o \in Objects : o[1] = "base" /\ o[2] = b}, NoopRenameFunc)

\* The WAL segment that the backup ended in.
GetLastWalFilename(b) == (FinishLsn[b] - 1) \div WalSegmentSize

\* Names are those in the WAL folder, and the target is the top of the storage.
HistoryCopyingInfo(b) ==
    LET toRoot == [o \in Objects |-> <<"root", o[2], o[3]>>]
    IN  BuildCopyingInfos({o \in Objects : o[1] = "wal" /\ o[3] >= GetLastWalFilename(b)}, toRoot)

WildcardInfo == BuildCopyingInfos(Objects, NoopRenameFunc)

getCopyingInfos ==
    {WildcardInfo} \cup {BackupCopyingInfo(b) : b \in Backups}
        \cup {BackupCopyingInfo(b) \cup HistoryCopyingInfo(b) : b \in Backups}

\* MySQL: the backup gets a prefix.
backupCopyingInfo(b) ==
    LET prefixed == [o \in Objects |-> <<"prefixed", o[2], o[3]>>]
    IN  BuildCopyingInfos({o \in Objects : o[1] = "base" /\ o[2] = b}, prefixed)

HandleCopyBackup == {WildcardInfo} \cup {backupCopyingInfo(b) : b \in Backups}

HandleCopy ==
    /\ copyPc = "start"
    /\ infos' \in getCopyingInfos \cup HandleCopyBackup
    /\ chs' = infos'
    /\ copyPc' = "errors"
    /\ UNCHANGED <<copying, unsent, tickets, errors, to, copyFaults>>

-----------------------------------------------------------------------------
(* Infos *)

\* The reports so far; the first error ends the command.
ReadErrors ==
    /\ copyPc \in {"errors", "rest"}
    /\ IF errors = <<>>
       THEN /\ copyPc' = IF copyPc = "rest" THEN "succeeded" ELSE IF chs = {} THEN "wait" ELSE "ticket"
            /\ UNCHANGED errors
       ELSE /\ errors' = Tail(errors)
            /\ copyPc' = IF Head(errors) THEN "failed" ELSE copyPc
    /\ UNCHANGED <<infos, chs, copying, unsent, tickets, to, copyFaults>>

StartCopy ==
    /\ copyPc = "ticket" /\ tickets > 0
    /\ \E i \in chs : chs' = chs \ {i} /\ copying' = copying \cup {i}
    /\ tickets' = tickets - 1
    /\ copyPc' = "errors"
    /\ UNCHANGED <<infos, unsent, errors, to, copyFaults>>

\* copyObject, and the ticket is given back.
copyObject(i) ==
    /\ i \in copying /\ Cardinality(unsent) < MaxUnsent
    /\ \E err \in BOOLEAN :
        /\ err => copyFaults < MaxCopyFaults
        /\ copyFaults' = IF err THEN copyFaults + 1 ELSE copyFaults
        /\ to' = IF err THEN to ELSE to \cup {i.target}
        /\ unsent' = unsent \cup {<<i, err>>}
    /\ copying' = copying \ {i}
    /\ tickets' = tickets + 1
    /\ UNCHANGED <<copyPc, infos, chs, errors>>

SendError(u) ==
    /\ u \in unsent /\ Len(errors) < 2 * Jobs
    /\ errors' = Append(errors, u[2])
    /\ unsent' = unsent \ {u}
    /\ UNCHANGED <<copyPc, infos, chs, copying, tickets, to, copyFaults>>

\* Mutant: the goroutines still at work are not waited for.
WaitNot ==
    /\ copyPc = "wait"
    /\ copyPc' = "rest"
    /\ UNCHANGED <<infos, chs, copying, unsent, tickets, errors, to, copyFaults>>

Wait ==
    /\ copyPc = "wait" /\ copying = {} /\ unsent = {}
    /\ copyPc' = "rest"
    /\ UNCHANGED <<infos, chs, copying, unsent, tickets, errors, to, copyFaults>>

CopyInit ==
    /\ copyPc = "start" /\ infos = {} /\ chs = {} /\ copying = {} /\ unsent = {}
    /\ tickets = Jobs /\ errors = <<>> /\ to = {} /\ copyFaults = 0

CopyNext ==
    \/ HandleCopy \/ ReadErrors \/ StartCopy \/ Wait
    \/ \E i \in infos : copyObject(i)
    \/ \E u \in unsent : SendError(u)

CopySpec == CopyInit /\ [][CopyNext]_copyVars /\ WF_copyVars(CopyNext)

-----------------------------------------------------------------------------
\* A copy that has begun ends, and it ends well only when every object it listed is in the target:
\* no goroutine waits for room in the channel that nobody reads, and no report of a
\* failed copy is lost (copy.Infos).
CopyEndsExact ==
    copyPc # "start" ~> \/ copyPc = "failed" /\ copyFaults > 0
                        \/ copyPc = "succeeded" /\ \A i \in infos : i.target \in to
=============================================================================
