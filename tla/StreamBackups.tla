---------------------------- MODULE StreamBackups ----------------------------
(***************************************************************************)
(* Backups that are one stream, of Redis and FoundationDB: backup-push     *)
(* stores what a command writes and then a sentinel, while another process *)
(* deletes backups.  A backup is named by the second its stream began;     *)
(* Redis purges by the settings' retention and removes garbage,            *)
(* FoundationDB deletes everything older than a target.                    *)
(***************************************************************************)
EXTENDS Integers, Sequences, FiniteSets, SequencesExt

CONSTANTS
    Pushers,        \* processes of backup-push
    MaxTime,        \* bound: the clock, in seconds
    MaxPushFaults,  \* bound: failures
    Races           \* what may coincide: "overlap", "garbage", "everything", "samesecond",
                    \*   "few"; see README

ASSUME StreamBackupsAssumption ==
    /\ MaxTime \in Nat /\ MaxPushFaults \in Nat
    /\ Races \subseteq {"overlap", "garbage", "everything", "samesecond", "few"}

VARIABLES
    db,             \* "redis" or "fdb"
    time,
    streams,        \* names of the backups whose stream is stored
    sentinels,      \* [name, start, modified, permanent]
    pusher,         \* process -> [pc, name, start, permanent]
    purger,         \* the process that deletes
    pushFaults

streamBackupsVars == <<db, time, streams, sentinels, pusher, purger, pushFaults>>

Named == {s.name : s \in sentinels}

NoPush == [pc |-> "off", name |-> 0, start |-> 0, permanent |-> FALSE]

\* kept: the backups that the last command has to keep, which no code reads.
Idle == [pc |-> "off", opts |-> <<>>, target |-> 0, listed |-> {}, garbage |-> {}, keys |-> <<>>, kept |-> {}]

PushFault == pushFaults < MaxPushFaults /\ pushFaults' = pushFaults + 1

Tick ==
    /\ time < MaxTime
    /\ time' = time + 1
    /\ UNCHANGED <<db, streams, sentinels, pusher, purger, pushFaults>>

-----------------------------------------------------------------------------
(* backup-push *)

\* HandleBackupPush: Init of the metadata; only a backup of Redis can be permanent.
HandleStreamPush(p) ==
    /\ pusher[p].pc = "off"
    /\ "overlap" \in Races \/ \A q \in Pushers : pusher[q].pc = "off"
    /\ \E permanent \in IF db = "redis" THEN BOOLEAN ELSE {FALSE} :
        pusher' = [pusher EXCEPT ![p] = [NoPush EXCEPT !.pc = "start", !.start = time, !.permanent = permanent]]
    /\ UNCHANGED <<db, time, streams, sentinels, purger, pushFaults>>

\* PushStream names the backup.
PushStream(p) ==
    /\ pusher[p].pc = "start"
    /\ "samesecond" \in Races \/ time \notin streams \cup Named \cup {pusher[q].name : q \in Pushers}
    /\ pusher' = [pusher EXCEPT ![p].pc = "stream", ![p].name = time]
    /\ UNCHANGED <<db, time, streams, sentinels, purger, pushFaults>>

\* The stream is stored.
PushStreamToDestination(p) ==
    /\ pusher[p].pc = "stream"
    /\ streams' = streams \cup {pusher[p].name}
    /\ pusher' = [pusher EXCEPT ![p].pc = "wait"]
    /\ UNCHANGED <<db, time, sentinels, purger, pushFaults>>

MetaInfo(p) ==
    [name |-> pusher[p].name, start |-> pusher[p].start, modified |-> time, permanent |-> pusher[p].permanent]

\* The command ended well: the sentinel, with the name and the time of now.
UploadStreamSentinel(p) ==
    /\ pusher[p].pc = "wait"
    /\ sentinels' = {s \in sentinels : s.name # pusher[p].name} \cup {MetaInfo(p)}
    /\ pusher' = [pusher EXCEPT ![p] = NoPush]
    /\ UNCHANGED <<db, time, streams, purger, pushFaults>>

\* The upload, the command or the upload of the sentinel fails: the stream stays.
StreamPushFails(p) ==
    /\ pusher[p].pc # "off"
    /\ PushFault
    /\ pusher' = [pusher EXCEPT ![p] = NoPush]
    /\ UNCHANGED <<db, time, streams, sentinels, purger>>

-----------------------------------------------------------------------------
(* Deletion: the sentinels of a list of names before their streams, one after the
   other for Redis, all of them first for FoundationDB. *)

DeleteKeys(names) == FlattenSeq([i \in DOMAIN names |-> <<<<"sentinel", names[i]>>, <<"stream", names[i]>>>>])

\* DeleteObjects takes the keys in their order, and fails at one.
DeleteObjects ==
    /\ purger.pc = "delete"
    /\ \E n \in 0 .. Len(purger.keys) :
        LET gone == {purger.keys[i] : i \in 1 .. n}
        IN  /\ sentinels' = {s \in sentinels : <<"sentinel", s.name>> \notin gone}
            /\ streams' = {s \in streams : <<"stream", s>> \notin gone}
            /\ IF n = Len(purger.keys)
               THEN /\ purger' = [purger EXCEPT !.pc = IF db = "redis" THEN "garbage" ELSE "off", !.keys = <<>>]
                    /\ UNCHANGED pushFaults
               ELSE purger' = [purger EXCEPT !.pc = "off", !.keys = <<>>] /\ PushFault
    /\ UNCHANGED <<db, time, pusher>>

\* Starts differ in less than a second, in the order of the names.
StartedAfter(a, b) == a.start > b.start \/ (a.start = b.start /\ a.name > b.name)

SortByStart(set) == SetToSortSeq(set, StartedAfter)

-----------------------------------------------------------------------------
(* Redis: delete --retain-count --retain-after --purge-garbage *)

\* Mutant: a permanent backup counts.
SplitPurgingCountsPermanent(backups, count, after) ==
    {i \in DOMAIN backups : ~backups[i].permanent /\ i > count /\ backups[i].start <= after}

\* Permanent backups are kept and not counted, then count others, then those that
\* started after a time.
SplitPurging(backups, count, after) ==
    {i \in DOMAIN backups :
        /\ ~backups[i].permanent
        /\ Cardinality({j \in 1 .. i : ~backups[j].permanent}) > count
        /\ backups[i].start <= after}

\* The options: a count of 0 stands for none, which cannot be asked for, and so does
\* the time of now.
runDelete == [retainCount : 0 .. 2, retainAfter : 0 .. time, purgeGarbage : BOOLEAN]

\* HandlePurge lists the backups and the garbage.
HandleStreamPurge ==
    /\ db = "redis" /\ purger.pc = "off"
    /\ \E opts \in runDelete :
        /\ opts.purgeGarbage => "garbage" \in Races \/ \A p \in Pushers : pusher[p].pc = "off"
        /\ LET newer(s) == {x \in sentinels : ~x.permanent /\ StartedAfter(x, s)}
               kept == {s \in sentinels : \/ s.permanent \/ Cardinality(newer(s)) < opts.retainCount
                                          \/ s.start > opts.retainAfter}
           IN  purger' = [Idle EXCEPT
                !.pc = IF sentinels = {} THEN "garbage" ELSE "load",
                !.opts = <<opts.retainCount, opts.retainAfter>>,
                !.listed = Named,
                !.garbage = IF opts.purgeGarbage THEN streams \ Named ELSE {},
                !.kept = {s.name : s \in kept}]
    /\ UNCHANGED <<db, time, streams, sentinels, pusher, pushFaults>>

\* The sentinels of the listed backups.
LoadBackups == {s \in sentinels : s.name \in purger.listed}

SplitRedisBackups(backups, purged) == SelectSeq(backups, LAMBDA s : \E i \in purged : backups[i] = s)

\* HandleBackupsDelete: a sentinel that cannot be read ends the command.
HandleBackupsDelete ==
    /\ purger.pc = "load"
    /\ LET backups == SortByStart(LoadBackups)
           purge == SplitRedisBackups(backups, SplitPurging(backups, purger.opts[1], purger.opts[2]))
           names == [i \in DOMAIN purge |-> purge[i].name]
       IN  \/ /\ purger' = [purger EXCEPT !.pc = "delete", !.opts = <<>>, !.listed = {}, !.keys = DeleteKeys(names)]
              /\ UNCHANGED pushFaults
           \/ purger' = [purger EXCEPT !.pc = "off", !.opts = <<>>, !.listed = {}] /\ PushFault
    /\ UNCHANGED <<db, time, streams, sentinels, pusher>>

DeleteStreamGarbage ==
    /\ purger.pc = "garbage"
    /\ streams' = streams \ purger.garbage
    /\ purger' = [purger EXCEPT !.pc = "off", !.garbage = {}]
    /\ UNCHANGED <<db, time, sentinels, pusher, pushFaults>>

-----------------------------------------------------------------------------
(* FoundationDB: delete before, retain [--after] and everything.  Objects compare by
   the time in their name; a target of 0 is none. *)

NthNewest(n) ==
    LET found == {s.name : s \in {s \in sentinels : Cardinality({x \in sentinels : x.name >= s.name}) = n}}
    IN  IF found = {} THEN 0 ELSE CHOOSE name \in found : TRUE

Oldest(names) == IF names = {} THEN 0 ELSE CHOOSE n \in names : \A m \in names : n <= m

ModifiedSince(t) == {s.name : s \in {s \in sentinels : s.modified >= t}}

\* A target, and the backups that the command has to keep.
FindTargetBeforeName == {<<n, {m \in Named : m >= n}>> : n \in Named}
FindTargetBeforeTime == {<<Oldest(ModifiedSince(t)), ModifiedSince(t)>> : t \in 0 .. time}
FindTargetRetain == {<<NthNewest(n), {m \in Named : Cardinality({k \in Named : k > m}) < n}>> : n \in 1 .. 3}

\* The older one of two targets, or the one that was found; with fewer backups than
\* the count, that is the target of the time.
FindTargetRetainAfterTime ==
    {<<IF a[1] = 0 THEN b[1] ELSE IF b[1] = 0 \/ b[1] > a[1] THEN a[1] ELSE b[1], a[2] \cup b[2]>> :
        a \in {a \in FindTargetRetain : a[1] # 0 \/ "few" \in Races}, b \in FindTargetBeforeTime}

\* By name, both targets have to be found: otherwise the command panics.
FindTargetRetainAfterName ==
    {<<IF a[1] = 0 THEN 0 ELSE IF b[1] > a[1] THEN a[1] ELSE b[1], a[2] \cup b[2]>> :
        a \in FindTargetRetain, b \in FindTargetBeforeName}

HandleDeleteRetainAfter == FindTargetRetainAfterTime \cup FindTargetRetainAfterName

\* newFdbDeleteHandler lists the sentinels, and the command finds its target.
newFdbDeleteHandler ==
    /\ db = "fdb" /\ purger.pc = "off"
    /\ \E found \in FindTargetBeforeName \cup FindTargetBeforeTime \cup FindTargetRetain
                        \cup HandleDeleteRetainAfter :
        purger' = [Idle EXCEPT !.pc = IF found[1] = 0 THEN "off" ELSE "list", !.target = found[1], !.kept = found[2]]
    /\ UNCHANGED <<db, time, streams, sentinels, pusher, pushFaults>>

\* DeleteEverything: no target.
HandleStreamDeleteEverything ==
    /\ db = "fdb" /\ purger.pc = "off"
    /\ "everything" \in Races \/ \A p \in Pushers : pusher[p].pc = "off"
    /\ purger' = [Idle EXCEPT !.pc = "delete",
            !.keys = SetToSeq({<<"sentinel", n>> : n \in Named}) \o SetToSeq({<<"stream", n>> : n \in streams})]
    /\ UNCHANGED <<db, time, streams, sentinels, pusher, pushFaults>>

\* The function less of the handler.
Less(name, target) == name < target

\* DeleteBeforeTarget lists again, all that is older than the target: sentinels, then
\* the folders of the streams.
DeleteOlderThanTarget ==
    /\ purger.pc = "list"
    /\ purger' = [purger EXCEPT !.pc = "delete",
            !.keys = SetToSeq({<<"sentinel", n>> : n \in {n \in Named : Less(n, purger.target)}})
                        \o SetToSeq({<<"stream", n>> : n \in {n \in streams : Less(n, purger.target)}})]
    /\ UNCHANGED <<db, time, streams, sentinels, pusher, pushFaults>>

-----------------------------------------------------------------------------
StreamBackupsInit ==
    /\ db \in {"redis", "fdb"} /\ time = 1
    /\ streams = {} /\ sentinels = {} /\ pushFaults = 0
    /\ pusher = [p \in Pushers |-> NoPush] /\ purger = Idle

StreamBackupsNext ==
    \/ Tick
    \/ \E p \in Pushers :
        \/ HandleStreamPush(p) \/ PushStream(p) \/ PushStreamToDestination(p)
        \/ UploadStreamSentinel(p) \/ StreamPushFails(p)
    \/ HandleStreamPurge \/ HandleBackupsDelete \/ DeleteObjects \/ DeleteStreamGarbage
    \/ newFdbDeleteHandler \/ HandleStreamDeleteEverything \/ DeleteOlderThanTarget

StreamBackupsSpec == StreamBackupsInit /\ [][StreamBackupsNext]_streamBackupsVars

\* Every backup with a sentinel has its stream, and every backup that the last command
\* had to keep is there: the permanent ones, as many as the count says, those since
\* the time or the name, whatever is pushed while it runs and wherever it fails
\* (SplitPurgingBackups, DeleteBackups, FindTargetRetainAfterTime, DeleteBeforeTarget).
RetainedWhole == Named \subseteq streams /\ purger.kept \subseteq Named

\* delete retain 5 --after a time keeps the "5 most recent backups and backups made
\* after" it (DeleteRetainExamples), however many there are.
RetainAfterKeeps == purger.kept \subseteq Named
=============================================================================
