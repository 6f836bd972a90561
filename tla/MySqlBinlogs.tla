---------------------------- MODULE MySqlBinlogs ----------------------------
(***************************************************************************)
(* Point-in-time recovery of MySQL: binlog-push (a cron job that uploads   *)
(* the closed binlogs), backup-push, backup-mark and delete before, and    *)
(* binlog-fetch / binlog-replay, which hand the archived binlogs to an     *)
(* index file or, over a bounded channel, to a replay goroutine.           *)
(*                                                                         *)
(* Everything that restores an order does so by the LastModified time of   *)
(* the stored objects, so storage time is part of the state.  A binlog is  *)
(* its number; its events are not told apart beyond the timestamp of its   *)
(* first one.  A backup is the time in its name.                           *)
(***************************************************************************)
EXTENDS Integers, Sequences, FiniteSets

CONSTANTS
    BinlogPushers,  \* processes that may run binlog-push
    FirstBinlog,    \* number of the oldest binlog of the server
    MaxBinlogs,     \* bound: binlogs the server creates
    MaxClock,       \* bound: ticks of the clock
    MaxBackups,     \* bound: backups taken
    MaxFaults,      \* bound: crashes and failed commands
    MaxReplays,     \* bound: binlog-fetch / binlog-replay commands
    Unlucky         \* unusual circumstances that may arise, see README

ASSUME BinlogsAssumption ==
    /\ FirstBinlog \in Nat \ {0}
    /\ {MaxBinlogs, MaxClock, MaxBackups, MaxFaults, MaxReplays} \subseteq Nat
    /\ Unlucky \subseteq {"sametime", "cachelost", "rotated"}

VARIABLES
    now,        \* the clock, in the resolution of LastModified
    starts,     \* first timestamps of the server's binlogs, oldest first
    objects,    \* binlogs in storage: number -> LastModified
    lastArchived, \* LastArchivedBinlog in the cache file, 0 when there is none
    binlogPusher,     \* the binlog-push processes
    dumps,    \* sentinels in storage: name -> its fields and LastModified
    taking,     \* the running backup-push
    horizon,    \* name of the latest delete target
    replay,     \* the running binlog-fetch or binlog-replay: main goroutine
    logCh,      \* its channel of downloaded binlogs
    errCh,      \* its channel of the replay error
    worker,     \* its replay goroutine
    applied,    \* binlogs indexed or replayed, in order
    faults, replays

serverVars == <<now, starts>>
pushVars   == <<objects, lastArchived, binlogPusher>>
backupVars == <<dumps, taking, horizon>>
replayVars == <<replay, logCh, errCh, worker, applied, replays>>
binlogVars == <<serverVars, pushVars, backupVars, replayVars, faults>>

binlogFetchAhead == 2

Current == FirstBinlog + Len(starts) - 1

StartTimestamp(n) == starts[n - FirstBinlog + 1]

\* Names carry the number padded to six digits and are compared as strings:
\* a seventh digit makes a name compare by its first six.
NameLess(a, b) ==
    LET key(n) == IF n > 999999 THEN n ELSE 10 * n
    IN  key(a) < key(b) \/ (key(a) = key(b) /\ a < b)

PutObject(f, k, v) == [x \in DOMAIN f \cup {k} |-> IF x = k THEN v ELSE f[x]]

\* The clock moves with every step that leaves a time behind; two of them fall
\* into the same tick only in the circumstance "sametime".
Stamp == /\ now < MaxClock
         /\ now' \in {now + 1} \cup (IF "sametime" \in Unlucky THEN {now} ELSE {})

-----------------------------------------------------------------------------
(* The server *)

\* FLUSH BINARY LOGS, a restart or max_binlog_size: a new current binlog.
Rotate ==
    /\ Len(starts) < MaxBinlogs
    /\ Stamp
    /\ starts' = Append(starts, now)
    /\ UNCHANGED <<pushVars, backupVars, replayVars, faults>>

-----------------------------------------------------------------------------
(* binlog-push *)

\* The closed binlogs, in the order of their names (sort.Strings).
getMySQLSortedBinlogs ==
    LET closed == {n \in FirstBinlog .. Current : NameLess(n, Current)}
        rank(n) == Cardinality({m \in closed : NameLess(m, n)}) + 1
    IN  [i \in 1 .. Cardinality(closed) |-> CHOOSE n \in closed : rank(n) = i]

HandleBinlogPush(p) ==
    /\ binlogPusher[p].pc = "idle"
    /\ binlogPusher' = [binlogPusher EXCEPT ![p] = [pc |-> "loop", todo |-> getMySQLSortedBinlogs]]
    /\ binlogPusher'[p].todo # <<>>
    /\ UNCHANGED <<serverVars, objects, lastArchived, backupVars, replayVars, faults>>

getLastArchivedBinlog == lastArchived

\* The backup in progress has read the current binlog and has no name yet:
\* that binlog is usually not closed and stored within that instant.
Early(n) == taking.pc = "started" /\ n = taking.start /\ "rotated" \notin Unlucky

\* The loop passes over the binlogs not after the cached one and uploads the
\* next, or ends.
tryArchiveBinLog(p) ==
    /\ binlogPusher[p].pc = "loop"
    /\ LET last == getLastArchivedBinlog
           rest == SelectSeq(binlogPusher[p].todo, LAMBDA n : last = 0 \/ NameLess(last, n))
       IN  \/ /\ rest = <<>>
              /\ binlogPusher' = [binlogPusher EXCEPT ![p] = [pc |-> "idle", todo |-> <<>>]]
              /\ UNCHANGED <<now, objects>>
           \/ /\ rest # <<>>
              /\ Stamp /\ ~Early(Head(rest))
              /\ objects' = PutObject(objects, Head(rest), now)
              /\ binlogPusher' = [binlogPusher EXCEPT ![p] = [pc |-> "uploaded", todo |-> rest]]
    /\ UNCHANGED <<starts, lastArchived, backupVars, replayVars, faults>>

setLastArchivedBinlog(p) ==
    /\ binlogPusher[p].pc = "uploaded"
    /\ lastArchived' = Head(binlogPusher[p].todo)
    /\ binlogPusher' = [binlogPusher EXCEPT ![p] = [pc |-> "loop", todo |-> Tail(@.todo)]]
    /\ UNCHANGED <<serverVars, objects, backupVars, replayVars, faults>>

\* A failed upload is fatal, and the process may be killed anywhere.  The cache
\* file lives in the home directory of the user: the next process starts from
\* nothing when it runs as another user, on another host, or cannot read it.
PushFails(p) ==
    /\ binlogPusher[p].pc # "idle"
    /\ faults < MaxFaults
    /\ faults' = faults + 1
    /\ binlogPusher' = [binlogPusher EXCEPT ![p] = [pc |-> "idle", todo |-> <<>>]]
    /\ lastArchived' \in {lastArchived} \cup (IF "cachelost" \in Unlucky THEN {0} ELSE {})
    /\ UNCHANGED <<serverVars, objects, backupVars, replayVars>>

-----------------------------------------------------------------------------
(* backup-push, backup-mark, delete before *)

getMySQLCurrentBinlogFile == Current

HandleBackupPush ==
    /\ taking.pc = "idle"
    /\ taking.count < MaxBackups
    /\ taking' = [pc |-> "started", start |-> getMySQLCurrentBinlogFile, name |-> 0,
                  count |-> taking.count + 1]
    /\ UNCHANGED <<serverVars, pushVars, dumps, horizon, replayVars, faults>>

\* The name is made of the time at which the stream starts.
PushBackupStream ==
    /\ taking.pc = "started"
    /\ now \notin DOMAIN dumps
    /\ Stamp
    /\ taking' = [taking EXCEPT !.pc = "named", !.name = now]
    /\ UNCHANGED <<starts, pushVars, dumps, horizon, replayVars, faults>>

UploadSentinel ==
    /\ taking.pc = "named"
    /\ dumps' = PutObject(dumps, taking.name, [start |-> taking.start, permanent |-> FALSE, modified |-> now])
    /\ taking' = [taking EXCEPT !.pc = "idle"]
    /\ Stamp
    /\ UNCHANGED <<starts, pushVars, horizon, replayVars, faults>>

\* The backup command, the upload or the process fails: no sentinel.
BackupFails ==
    /\ taking.pc # "idle"
    /\ faults < MaxFaults
    /\ faults' = faults + 1
    /\ taking' = [taking EXCEPT !.pc = "idle"]
    /\ UNCHANGED <<serverVars, pushVars, dumps, horizon, replayVars>>

\* The sentinel is read, changed and stored again, with a new LastModified.
modifyBackupSentinel(b) ==
    /\ b \in DOMAIN dumps
    /\ ~dumps[b].permanent
    /\ dumps' = [dumps EXCEPT ![b].permanent = TRUE, ![b].modified = now]
    /\ Stamp
    /\ UNCHANGED <<starts, pushVars, taking, horizon, replayVars, faults>>

\* makeLessFunc: a backup is as old as its name says, a binlog as its object.
OlderBinlogs(target) == {n \in DOMAIN objects : objects[n] < target}
OlderBackups(target) == {b \in DOMAIN dumps : b < target}

Without(f, S) == [x \in DOMAIN f \ S |-> f[x]]

DeleteBeforeTarget(b) ==
    /\ b \in DOMAIN dumps
    /\ b > horizon
    /\ objects' = Without(objects, OlderBinlogs(b))
    /\ dumps' = Without(dumps, {x \in OlderBackups(b) : ~dumps[x].permanent})
    /\ horizon' = b
    /\ UNCHANGED <<serverVars, lastArchived, binlogPusher, taking, replayVars, faults>>

-----------------------------------------------------------------------------
(* binlog-fetch and binlog-replay *)

HasPrefix(name, prefix) ==
    \/ name = prefix
    \/ name > 999999 /\ prefix <= 999999 /\ name \div 10 = prefix

Earliest(S) == CHOOSE t \in S : \A u \in S : t <= u

getBinlogSinceTS(b) ==
    Earliest({dumps[b].modified} \cup
             {objects[n] : n \in {m \in DOMAIN objects : HasPrefix(m, dumps[b].start)}})

NoReplay == [pc |-> "idle", mode |-> "fetch", backup |-> 0, binlog |-> 0, until |-> 0, since |-> 0,
         includeStart |-> TRUE, batch |-> <<>>, known |-> {}]

\* HandleBinlogFetch, or HandleBinlogReplay with the goroutine it starts.
HandleBinlog(b, until, mode) ==
    /\ replay.pc \in {"idle", "done", "failed"}
    /\ replays < MaxReplays
    /\ b \in DOMAIN dumps
    /\ replay' = [NoReplay EXCEPT !.pc = "list", !.mode = mode, !.backup = b, !.until = until,
                              !.since = getBinlogSinceTS(b)]
    /\ logCh' = <<>>
    /\ errCh' = [err |-> FALSE, closed |-> FALSE]
    /\ worker' = IF mode = "replay" THEN "running" ELSE "none"
    /\ applied' = <<>>
    /\ replays' = replays + 1
    /\ UNCHANGED <<serverVars, pushVars, backupVars, faults>>

\* Mutant: a binlog stored at the very start of the interval is left out.
getLogsCoveringIntervalStrict(start, includeStart) ==
    {n \in DOMAIN objects : start < objects[n]}

getLogsCoveringInterval(start, includeStart) ==
    {n \in DOMAIN objects : start < objects[n] \/ (includeStart /\ start = objects[n])}

FinishFetch == IF replay.mode = "fetch" THEN "done" ELSE "wait"

\* One round of the outer loop: a listing, and the end when it is empty.
ListLogs ==
    /\ replay.pc = "list"
    /\ LET logs == getLogsCoveringInterval(replay.since, replay.includeStart)
       IN  replay' = [replay EXCEPT
               !.batch = [n \in logs |-> objects[n]], !.includeStart = FALSE,
               !.known = DOMAIN objects,
               !.pc = IF logs = {} THEN FinishFetch ELSE "fetch"]
    /\ UNCHANGED <<serverVars, pushVars, backupVars, logCh, errCh, worker, applied, replays, faults>>

\* After the handler took the binlog: on to the next one, or out of the loops.
Handled(n) ==
    LET rest == Without(replay.batch, {n})
    IN  [replay EXCEPT !.since = replay.batch[n], !.batch = rest, !.binlog = 0,
             !.pc = IF StartTimestamp(n) > replay.until THEN FinishFetch
                    ELSE IF DOMAIN rest = {} THEN "list" ELSE "fetch",
             !.known = IF StartTimestamp(n) > replay.until THEN DOMAIN objects ELSE @]

\* The next binlog of the batch in the order of LastModified is downloaded; it
\* may have been deleted since the listing.
DownloadBinlog ==
    /\ replay.pc = "fetch"
    /\ \E n \in DOMAIN replay.batch :
        /\ \A m \in DOMAIN replay.batch : replay.batch[n] <= replay.batch[m]
        /\ \/ /\ n \notin DOMAIN objects
              /\ replay' = [replay EXCEPT !.pc = "failed"]
              /\ UNCHANGED applied
           \/ /\ n \in DOMAIN objects
              /\ IF replay.mode = "fetch"
                 THEN replay' = Handled(n) /\ applied' = Append(applied, n)
                 ELSE replay' = [replay EXCEPT !.pc = "send", !.binlog = n] /\ UNCHANGED applied
    /\ UNCHANGED <<serverVars, pushVars, backupVars, logCh, errCh, worker, replays, faults>>

\* handleBinlog of the replay handler: select on the two channels.
HandleBinlogSelect ==
    /\ replay.pc = "send"
    /\ \/ /\ errCh.err
          /\ errCh' = [errCh EXCEPT !.err = FALSE]
          /\ replay' = [replay EXCEPT !.pc = "failed"]
          /\ UNCHANGED logCh
       \/ /\ Len(logCh) < binlogFetchAhead
          /\ logCh' = Append(logCh, replay.binlog)
          /\ replay' = Handled(replay.binlog)
          /\ UNCHANGED errCh
    /\ UNCHANGED <<serverVars, pushVars, backupVars, worker, applied, replays, faults>>

\* wait: logCh is closed; receive from errCh.
Wait ==
    /\ replay.pc = "wait"
    /\ errCh.err \/ errCh.closed
    /\ replay' = [replay EXCEPT !.pc = IF errCh.err THEN "failed" ELSE "done"]
    /\ errCh' = [errCh EXCEPT !.err = FALSE]
    /\ UNCHANGED <<serverVars, pushVars, backupVars, logCh, worker, applied, replays, faults>>

\* The goroutine: replay what arrives, stop at the first failed command, and
\* close errCh on the way out.
replayLogs ==
    /\ worker = "running"
    /\ \/ /\ logCh # <<>>
          /\ logCh' = Tail(logCh)
          /\ \/ applied' = Append(applied, Head(logCh)) /\ UNCHANGED <<worker, errCh, faults>>
             \/ /\ faults < MaxFaults
                /\ faults' = faults + 1
                /\ errCh' = [err |-> TRUE, closed |-> TRUE]
                /\ worker' = "ended"
                /\ UNCHANGED applied
       \/ /\ logCh = <<>> /\ replay.pc = "wait"
          /\ errCh' = [errCh EXCEPT !.closed = TRUE]
          /\ worker' = "ended"
          /\ UNCHANGED <<logCh, applied, faults>>
    /\ UNCHANGED <<serverVars, pushVars, backupVars, replay, replays>>

-----------------------------------------------------------------------------
BinlogInit ==
    /\ now = 1 /\ starts = <<1>>
    /\ objects = <<>> /\ lastArchived = 0
    /\ binlogPusher = [p \in BinlogPushers |-> [pc |-> "idle", todo |-> <<>>]]
    /\ dumps = <<>> /\ horizon = 0
    /\ taking = [pc |-> "idle", start |-> 0, name |-> 0, count |-> 0]
    /\ replay = NoReplay /\ worker = "none" /\ applied = <<>>
    /\ logCh = <<>>
    /\ errCh = [err |-> FALSE, closed |-> FALSE]
    /\ faults = 0 /\ replays = 0

BinlogPush(p) == \/ HandleBinlogPush(p) \/ tryArchiveBinLog(p)
                 \/ setLastArchivedBinlog(p) \/ PushFails(p)

Fetcher == ListLogs \/ DownloadBinlog \/ HandleBinlogSelect \/ Wait

BinlogNext ==
    \/ Rotate
    \/ \E p \in BinlogPushers : BinlogPush(p)
    \/ HandleBackupPush \/ PushBackupStream \/ UploadSentinel \/ BackupFails
    \/ \E b \in DOMAIN dumps : modifyBackupSentinel(b) \/ DeleteBeforeTarget(b)
    \/ \E b \in DOMAIN dumps, until \in {starts[i] : i \in DOMAIN starts}, mode \in {"fetch", "replay"} :
           HandleBinlog(b, until, mode)
    \/ Fetcher \/ replayLogs

BinlogSpec == BinlogInit /\ [][BinlogNext]_binlogVars /\ WF_binlogVars(Fetcher) /\ WF_binlogVars(replayLogs)

-----------------------------------------------------------------------------
(* Properties *)

\* A binlog-fetch or binlog-replay that reports success has handed over every
\* archived binlog from the one that was current when the backup began up to
\* the requested time, none skipped and none out of order, although order is
\* only known from LastModified times, pushes crash and are repeated, sentinels
\* are stored again by backup-mark and older binlogs are being deleted.
ReplayCovers ==
    replay.pc = "done" /\ replay.backup \in DOMAIN dumps /\ replay.backup >= horizon
    => LET start == dumps[replay.backup].start
           needed == {n \in replay.known : n >= start /\ StartTimestamp(n) <= replay.until}
       IN  /\ needed \subseteq {applied[i] : i \in DOMAIN applied}
           /\ applied # <<>> => applied[1] <= start
           /\ \A i \in 1 .. Len(applied) - 1 : applied[i + 1] \in {applied[i], applied[i] + 1}

=============================================================================
