-------------------------- MODULE SqlServerBackups --------------------------
(***************************************************************************)
(* backup-push and log-push of SQL Server, and what backup-restore and     *)
(* log-restore make of what they stored. Backups and logs are named by the *)
(* time, so a name is a number here; the proxy that stores the blobs of a  *)
(* BACKUP statement is the module BlobServer.                              *)
(***************************************************************************)
EXTENDS Integers, Sequences, SequencesExt, FiniteSets, FiniteSetsExt, TLC

CONSTANTS
    DBs,            \* databases of the server
    Procs,          \* WAL-G commands that may run at the same time
    MaxClock,       \* bound: seconds
    MaxLSN,         \* bound: transactions, all of one database
    MaxFailures,    \* bound: failed statements, uploads and killed commands
    West,           \* how far west of UTC the time zones are that --until is given in
    Unusual         \* which of the unusual circumstances below may happen

VARIABLES
    clock,
    history,    \* database -> the times of its transactions; its length is the LSN
    logged,     \* database -> LSN that its log backups have reached, or NoLSN before the first full one
    lock,       \* the command that holds the lock file, or Nobody
    command,    \* command -> what it is doing
    fulls,      \* <<backup, database>> -> LSN of the stored full backup, or NoLSN while it is partial
    logs,       \* <<log, database>> -> the LSNs of the stored log backup, from NoLSN while it is partial
    sentinels,  \* backup -> its databases
    failures

backupVars == <<clock, history, logged, lock, command, fulls, logs, sentinels, failures>>
stored == <<fulls, logs, sentinels>>

NoLSN == -1
Nobody == "nobody"
NotRunning == [pc |-> "off"]

\* Circumstances that a passing run excludes:
\*   "samesecond"   two commands get the same second for a name
\*   "updateagain"  --update-latest for a database that the latest backup has
\*   "subset"       log-push for some of the databases: log-restore stops at the first log
\*                  after the time that it restores to, whether it has the database or not
\*   "updatelate"   --update-latest after logs were pushed since the latest backup
Allow(circumstance) == circumstance \in Unusual

Failure == failures < MaxFailures /\ failures' = failures + 1
LSN(db) == Len(history[db])
Names == {k[1] : k \in DOMAIN fulls} \cup {k[1] : k \in DOMAIN logs}

--------------------------------------------------------------------------
(* The server and the clock *)

Tick == clock < MaxClock /\ clock' = clock + 1 /\ UNCHANGED <<history, logged, lock, command, stored, failures>>

Transaction(db) ==
    /\ LSN(db) < MaxLSN /\ \A other \in DBs \ {db} : LSN(other) = 0
    /\ history' = [history EXCEPT ![db] = Append(@, clock)]
    /\ UNCHANGED <<clock, logged, lock, command, stored, failures>>

--------------------------------------------------------------------------
(* HandleBackupPush and HandleLogPush *)

\* AcquireLock: a command that does not get the lock exits.
AcquireLock(p) == lock = Nobody /\ lock' = p

\* The latest sentinel: commands hold the lock, so it has the greatest name too.
Latest == Max(DOMAIN sentinels)

\* The backup's name is the time, or the latest backup's name; then runParallel starts a
\* statement for each database. WITH FORMAT, so it overwrites. BACKUP LOG needs a full
\* backup, else it fails before it writes.
Begin(p, op, dbs, name, running) ==
    /\ command[p] = NotRunning
    /\ AcquireLock(p)
    /\ command' = [command EXCEPT ![p] =
         [pc |-> "run", op |-> op, dbs |-> dbs, name |-> name, busy |-> running, failed |-> running # dbs]]
    /\ UNCHANGED <<clock, history, logged, sentinels, failures>>

\* The databases named on the command line, which the server must have, or all of them.
getDatabasesToBackup == SUBSET DBs \ {{}}

HandleBackupPush(p, dbs) ==
    /\ Allow("samesecond") \/ clock \notin Names
    /\ Begin(p, "backup", dbs, clock, dbs)
    /\ fulls' = [k \in {clock} \X dbs |-> NoLSN] @@ fulls
    /\ UNCHANGED logs

UpdateLatest(p, dbs) ==
    /\ sentinels # <<>>
    /\ Allow("updateagain") \/ dbs \cap sentinels[Latest] = {}
    /\ Allow("updatelate") \/ \A k \in DOMAIN logs : k[1] < Latest
    /\ Begin(p, "update", dbs, Latest, dbs)
    /\ fulls' = [k \in {Latest} \X dbs |-> NoLSN] @@ fulls
    /\ UNCHANGED logs

HandleLogPush(p, dbs) ==
    LET backed == {db \in dbs : logged[db] # NoLSN}
    IN  /\ Allow("subset") \/ dbs = DBs
        /\ Allow("samesecond") \/ clock \notin Names
        /\ Begin(p, "log", dbs, clock, backed)
        /\ logs' = [k \in {clock} \X backed |-> [from |-> NoLSN, to |-> 0]] @@ logs
        /\ UNCHANGED fulls

backupSingleDatabase(p, db) ==
    /\ command[p].pc = "run" /\ db \in command[p].busy /\ command[p].op # "log"
    /\ fulls' = (<<command[p].name, db>> :> LSN(db)) @@ fulls
    /\ logged' = [logged EXCEPT ![db] = IF @ = NoLSN THEN LSN(db) ELSE @]
    /\ command' = [command EXCEPT ![p].busy = @ \ {db}]
    /\ UNCHANGED <<clock, history, lock, logs, sentinels, failures>>

backupSingleLog(p, db) ==
    /\ command[p].pc = "run" /\ db \in command[p].busy /\ command[p].op = "log"
    /\ logs' = (<<command[p].name, db>> :> [from |-> logged[db], to |-> LSN(db)]) @@ logs
    /\ logged' = [logged EXCEPT ![db] = LSN(db)]
    /\ command' = [command EXCEPT ![p].busy = @ \ {db}]
    /\ UNCHANGED <<clock, history, lock, fulls, sentinels, failures>>

StatementFails(p, db) ==
    /\ command[p].pc = "run" /\ db \in command[p].busy
    /\ Failure
    /\ command' = [command EXCEPT ![p].busy = @ \ {db}, ![p].failed = TRUE]
    /\ UNCHANGED <<clock, history, logged, lock, stored>>

\* runParallel has waited for all; an error ends the command.
Exit(p) ==
    /\ lock' = IF lock = p THEN Nobody ELSE lock
    /\ command' = [command EXCEPT ![p] = NotRunning]

UploadSentinel(p) ==
    LET c == command[p]
        old == IF c.op = "update" THEN sentinels[c.name] ELSE {}
    IN  /\ c.pc = "run" /\ c.busy = {}
        /\ sentinels' = IF c.failed \/ c.op = "log" THEN sentinels ELSE (c.name :> old \cup c.dbs) @@ sentinels
        /\ Exit(p)
        /\ UNCHANGED <<clock, history, logged, fulls, logs, failures>>

\* The command ends, by a signal, a crash or a failed upload; the proxy ends with it, so
\* the statements under way fail.
Killed(p) ==
    /\ command[p] # NotRunning
    /\ Failure
    /\ Exit(p)
    /\ UNCHANGED <<clock, history, logged, stored>>

--------------------------------------------------------------------------
(* HandleBackupRestore and HandleLogRestore run under the lock too, so     *)
(* nothing changes while they do: they are functions of what is stored.    *)

LogNames == {k[1] : k \in DOMAIN logs}

\* Mutant: the first log named after endTS is left out.
getLogsSinceBackupBreakFirst(backup, endTS) ==
    SetToSortSeq({n \in LogNames : n >= backup /\ n <= endTS}, <)

\* From the backup's time on, up to and with the first log named after endTS.
getLogsSinceBackup(backup, endTS) ==
    SetToSortSeq({n \in LogNames : n >= backup /\ ~\E m \in LogNames : m >= backup /\ m > endTS /\ m < n}, <)

doesLogBackupContainDB(log, db) == <<log, db>> \in DOMAIN logs

\* Transactions up to a time.
UpTo(db, time) == Cardinality({i \in DOMAIN history[db] : history[db][i] <= time})

\* RESTORE LOG WITH NORECOVERY, STOPAT: the log must continue the chain of the logs
\* restored before it.
restoreSingleLog(chain, entry) ==
    IF chain = NoLSN \/ entry.from = NoLSN \/ entry.from > chain \/ entry.to < chain THEN NoLSN ELSE entry.to

\* RESTORE DATABASE WITH REPLACE, NORECOVERY: the LSN of the full backup. A backup that
\* is partial has no complete set of blobs, so the statement fails.
restoreSingleDatabase(backup, db) == fulls[<<backup, db>>]

\* Any of the databases that the sentinel lists may be asked for.
getDatabasesToRestore(backup) == sentinels[backup]

\* stopAt is formatted in its own time zone, names are in UTC.
\* RESTORE DATABASE and the logs: the LSN that the database is recovered to, or NoLSN.
HandleLogRestore(backup, db, stopAt, west) ==
    LET list == getLogsSinceBackup(backup, stopAt - west)
        chain[i \in 0 .. Len(list)] ==
            IF i = 0 THEN restoreSingleDatabase(backup, db)
            ELSE IF doesLogBackupContainDB(list[i], db)
                 THEN restoreSingleLog(chain[i - 1], logs[<<list[i], db>>])
                 ELSE chain[i - 1]
    IN  Min({chain[Len(list)], UpTo(db, stopAt)})

--------------------------------------------------------------------------

BackupsInit ==
    /\ clock = 1
    /\ history = [db \in DBs |-> <<>>]
    /\ logged = [db \in DBs |-> NoLSN]
    /\ lock = Nobody
    /\ command = [p \in Procs |-> NotRunning]
    /\ fulls = <<>> /\ logs = <<>> /\ sentinels = <<>>
    /\ failures = 0

BackupsNext ==
    \/ Tick
    \/ \E db \in DBs : Transaction(db)
    \/ \E p \in Procs :
          \/ \E dbs \in getDatabasesToBackup : HandleBackupPush(p, dbs) \/ UpdateLatest(p, dbs) \/ HandleLogPush(p, dbs)
          \/ UploadSentinel(p) \/ Killed(p)
          \/ \E db \in DBs : backupSingleDatabase(p, db) \/ backupSingleLog(p, db) \/ StatementFails(p, db)

BackupsSpec == BackupsInit /\ [][BackupsNext]_backupVars

\* Whatever the order of pushes, transactions and failures, restoring a backup and then
\* the logs to a time yields every transaction up to that time that a log backup has
\* reached: the logs that getLogsSinceBackup selects by their names are an unbroken chain.
\* A log backup that failed half way makes RESTORE LOG fail instead.
RestoreReachesStopAt ==
    \A b \in DOMAIN sentinels : \A db \in getDatabasesToRestore(b) :
       LET full == fulls[<<b, db>>]
           partial == \E k \in DOMAIN logs : k[1] >= b /\ k[2] = db /\ logs[k].from = NoLSN
       IN  lock = Nobody /\ ~partial =>
              \A stopAt \in b .. MaxClock, west \in West :
                 UpTo(db, stopAt) >= full =>
                    HandleLogRestore(b, db, stopAt, west) = Max({full, Min({UpTo(db, stopAt), logged[db]})})
=============================================================================
