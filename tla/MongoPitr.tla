------------------------------ MODULE MongoPitr ------------------------------
(***************************************************************************)
(* Point-in-time recovery of MongoDB: oplog-push archives the oplog while  *)
(* backup-push stores dumps and delete purges backups, archives and        *)
(* garbage; when the replica set is lost, oplog-replay applies the         *)
(* archives to a new one.                                                  *)
(***************************************************************************)
EXTENDS OplogPush, OplogReplay

CONSTANTS
    MaxBackups,     \* bound: backups
    Contents        \* what the records can be: functions from timestamps to Kinds

VARIABLES
    now,        \* the clock of the machine, advanced by the starts and ends of dumps
    backups,    \* sentinels
    data,       \* backups with a stored stream
    dump,       \* backup -> its backup-push process
    purge       \* the process of delete

adminVars == <<now, backups, data, dump, purge>>
vars == <<pushVars, adminVars, replay>>

Backups == 1 .. MaxBackups

\* before: as read last; began, ended: the majority timestamps when the dump really
\* began and ended, which no code reads.
NoDump == [pc |-> "off", before |-> ZeroTS, start |-> 0, began |-> ZeroTS]

NoPurge == [pc |-> "off", after |-> 0, oplog |-> FALSE, keys |-> <<>>, garbage |-> {},
            listed |-> <<>>, pitr |-> NoBackup]

--------------------------------------------------------------------------
(* backup-push: a sentinel is named by the time of its backup. *)

\* HandleBackupPush: Init, then the dump command is started.
HandleBackupPush(b) ==
    /\ dump[b].pc = "off" /\ b \notin data \cup {s.id : s \in backups}
    /\ Fault
    /\ now' = now + 1
    /\ dump' = [dump EXCEPT ![b] = [pc |-> "dump", before |-> maj, start |-> now', began |-> maj]]
    /\ UNCHANGED <<mongodVars, archives, proc, backups, data, purge, replay>>

\* UploadBackup calls Init again; the stream is stored as it is produced.
UploadBackup(b) ==
    /\ dump[b].pc = "dump"
    /\ dump' = [dump EXCEPT ![b].pc = "stream", ![b].before = maj]
    /\ data' = data \cup {b}
    /\ UNCHANGED <<pushVars, now, backups, purge, replay>>

\* Finalize reads the timestamp after the dump, but MetaInfo takes the copy that Init
\* made: After is zero in the sentinel.
SentinelOf(b, finish) ==
    [id |-> b, before |-> dump[b].before, after |-> ZeroTS, start |-> dump[b].start,
     finish |-> finish, permanent |-> FALSE]

UploadSentinel(b) ==
    /\ dump[b].pc = "stream"
    /\ now' = now + 1
    /\ backups' = backups \cup {SentinelOf(b, now')}
    /\ dump' = [dump EXCEPT ![b].pc = "done"]
    /\ UNCHANGED <<pushVars, data, purge, replay>>

\* The command fails, or the process is killed: the stream stays.
BackupPushFails(b) ==
    /\ dump[b].pc \in {"dump", "stream"}
    /\ Fault
    /\ dump' = [dump EXCEPT ![b] = NoDump]
    /\ UNCHANGED <<mongodVars, archives, proc, now, backups, data, purge, replay>>

--------------------------------------------------------------------------
(* delete *)

\* Mutant: the data of a backup go before its sentinel.
DeleteBackupsDataFirst(purged) ==
    FlattenSeq([i \in DOMAIN purged |-> <<<<"data", purged[i].id>>, <<"sentinel", purged[i].id>>>>])

\* DeleteBackups: of every backup, the key of the sentinel and then those of the data.
DeleteBackups(purged) ==
    FlattenSeq([i \in DOMAIN purged |-> <<<<"sentinel", purged[i].id>>, <<"data", purged[i].id>>>>])

\* HandlePurge up to the deletion of the backups: the list of backups and of garbage,
\* the sentinels, and the backups the settings do not retain.  Garbage is purged
\* only while no backup is being made: it looks the same as an unfinished backup.
HandlePurge ==
    /\ purge.pc = "off"
    /\ Fault
    /\ \E after \in 0 .. now, count \in {0, 1}, oplogs, junk \in BOOLEAN :
        /\ junk => \A b \in Backups : dump[b].pc \notin {"dump", "stream"}
        /\ LET stored == SortTimedBackup(backups)
               purged == SplitPurgingBackups(stored, count, after)
           IN  purge' = [NoPurge EXCEPT !.pc = "backups", !.oplog = oplogs,
                    !.after = IF oplogs THEN after ELSE 0,
                    !.garbage = IF junk THEN data \ {s.id : s \in backups} ELSE {},
                    !.keys = DeleteBackups(SelectSeq(stored, LAMBDA s : s \in purged))]
    /\ UNCHANGED <<mongodVars, archives, proc, now, backups, data, dump, replay>>

\* DeleteObjects takes the keys in order; an error leaves the rest.
HandleBackupsPurge ==
    /\ purge.pc = "backups"
    /\ \E n \in 0 .. Len(purge.keys) :
        LET gone == {purge.keys[i] : i \in 1 .. n}
        IN  /\ IF n = Len(purge.keys)
               THEN purge' = [purge EXCEPT !.pc = "list"] /\ UNCHANGED faults
               ELSE purge' = NoPurge /\ Fault
            /\ backups' = {s \in backups : <<"sentinel", s.id>> \notin gone}
            /\ data' = {b \in data : <<"data", b>> \notin gone}
    /\ UNCHANGED <<mongodVars, archives, proc, now, dump, replay>>

\* HandleOplogPurge reads the archives first.
ListArchives ==
    /\ purge.pc = "list" /\ purge.oplog
    /\ purge' = IF archives = {} THEN [purge EXCEPT !.pc = "garbage"]
                ELSE [purge EXCEPT !.pc = "select", !.listed = ListOplogArchives(archives)]
    /\ UNCHANGED <<pushVars, now, backups, data, dump, replay>>

\* Then the backups; without a backup in the interval it returns an error.
HandleOplogPurge ==
    /\ purge.pc = "select"
    /\ LET stored == LoadBackups(backups)
           pitr == OldestBackupAfterTime(stored, purge.after)
           selected == SelectPurgingOplogArchives(purge.listed, stored, pitr.before)
       IN  purge' = IF pitr = NoBackup THEN NoPurge
                    ELSE [purge EXCEPT !.pc = "delete", !.pitr = pitr,
                            !.listed = SetToSeq({Filename(purge.listed[i]) : i \in selected})]
    /\ UNCHANGED <<pushVars, now, backups, data, dump, replay>>

DeleteOplogArchives ==
    /\ purge.pc = "delete"
    /\ archives' = {a \in archives : Filename(a) \notin ToSet(purge.listed)}
    /\ purge' = [purge EXCEPT !.pc = "garbage"]
    /\ UNCHANGED <<mongodVars, proc, faults, now, backups, data, dump, replay>>

DeleteGarbage ==
    /\ \/ purge.pc = "garbage"
       \/ purge.pc = "list" /\ ~ purge.oplog
    /\ data' = data \ purge.garbage
    /\ purge' = NoPurge
    /\ UNCHANGED <<pushVars, now, backups, dump, replay>>

--------------------------------------------------------------------------
(* The replica set is lost, and replayed from storage. *)

\* The state that no process reads any more is forgotten; one fault is left.
Recover ==
    /\ replay.fpc = "off" /\ Cardinality(history) > 1
    /\ \E since, until \in history, kind \in Contents :
        since < until /\ RunOplogReplay(archives, since, until, kind)
    /\ proc' = [n \in Nodes |-> Off]
    /\ oplog' = {} /\ clock' = MaxTS /\ maj' = MaxTS
    /\ primary' = CHOOSE n \in Nodes : TRUE
    /\ dump' = [b \in Backups |-> NoDump] /\ backups' = {} /\ data' = {} /\ now' = 0
    /\ purge' = NoPurge /\ faults' = MaxFaults - 1
    /\ UNCHANGED <<history, archives>>

--------------------------------------------------------------------------

\* A first backup is stored, and nothing runs.
AdminInit ==
    /\ now = 1
    /\ backups = {[NoBackup EXCEPT !.id = 1, !.before = 1, !.start = 1, !.finish = 1]}
    /\ data = {s.id : s \in backups}
    /\ dump = [b \in Backups |-> NoDump]
    /\ purge = NoPurge
    /\ replay = NoReplay

\* A first archive is stored too.
Init == PushInit /\ archives # {} /\ AdminInit

Running == replay.fpc = "off"

Archiver(n) == Running /\ PushStep(n) /\ UNCHANGED <<adminVars, replay>>

Environment ==
    /\ Running
    /\ \/ Write \/ Replicate \/ CapOplog
       \/ \E n \in Nodes : Elect(n) \/ FetchFails(n) \/ UploadFails(n) \/ Signal(n) \/ Crash(n)
    /\ UNCHANGED <<adminVars, replay>>

BackupStep(b) == HandleBackupPush(b) \/ UploadBackup(b) \/ UploadSentinel(b) \/ BackupPushFails(b)

PurgeStep == HandleBackupsPurge \/ ListArchives \/ HandleOplogPurge \/ DeleteOplogArchives \/ DeleteGarbage

Replayer == ReplayStep(archives) /\ UNCHANGED <<pushVars, adminVars>>

ReplayerFails == ReplayFault /\ Fault /\ UNCHANGED <<mongodVars, archives, proc, adminVars>>

Next ==
    \/ Environment
    \/ \E n \in Nodes : Archiver(n)
    \/ Running /\ (HandlePurge \/ PurgeStep \/ \E b \in Backups : BackupStep(b))
    \/ Recover \/ Replayer \/ ReplayerFails

Spec ==
    /\ Init /\ [][Next]_vars
    /\ \A n \in Nodes : WF_vars(Archiver(n))
    /\ WF_vars(Replayer)
--------------------------------------------------------------------------
(* Properties *)

\* A purge never cuts the archives that lead from the backup it chose as the start of
\* the recovery interval, or from a later one, to any point: a sequence of archives
\* that existed before the deletion is still found after it.
PurgeKeepsPitr ==
    [][purge.pc = "delete" /\ purge'.pc = "garbage" =>
        \A s \in {b \in backups : b.before >= purge.pitr.before}, until \in 1 .. MaxTS :
            SequenceBetweenTS(ListOplogArchives(archives), s.before, until).err = "nil" =>
                SequenceBetweenTS(ListOplogArchives(archives'), s.before, until).err = "nil"]_vars

\* A stored sentinel always has its data, even when the deletion of backups stops
\* half way: the keys of a backup start with its sentinel.
SentinelHasData == \A s \in backups : s.id \in data

\* A replay that reports success, and was not interrupted by a signal, has applied
\* exactly the records from since up to but not including until, transactions at
\* their commit, whichever nodes archived them and however their archives overlap.
ReplayExact ==
    replay.result = "nil" /\ ~ replay.signalled =>
        WithoutRepeats(replay.db) =
            ExpectedDB({t \in history : replay.from <= t /\ t < replay.until}, replay.kind)

\* A replay ends, with a result, unless an archive is damaged.
ReplayEnds == []<>(replay.fpc \in {"off", "stuck"} \/ replay.result # "none")

\* The documentation's constraint on a replay, that Before of the sentinel is a
\* timestamp before the backup started and After one after it finished.
MetaBracketsDump ==
    [][\A b \in Backups : dump[b].pc = "stream" /\ dump'[b].pc = "done" =>
        \E s \in backups' : s.id = b /\ s.before <= dump[b].began /\ maj <= s.after]_vars
==============================================================================
