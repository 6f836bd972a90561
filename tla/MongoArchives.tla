--------------------------- MODULE MongoArchives ---------------------------
(***************************************************************************)
(* The archives of the MongoDB oplog in storage: the search for a sequence *)
(* of archives between two timestamps, and the choice of the backups and   *)
(* the archives a purge deletes.                                           *)
(***************************************************************************)
EXTENDS OplogArchive, SequencesExt

\* The order in which a folder lists its objects: by name, "gap" before "oplog".
NameBefore(a, b) ==
    \/ a.type = "gap" /\ b.type = "oplog"
    \/ a.type = b.type /\ a.start < b.start
    \/ a.type = b.type /\ a.start = b.start /\ a.end < b.end

ListOplogArchives(storage) == SetToSortSeq(storage, NameBefore)

ArchIn(a, ts) == (a.start < ts /\ ts < a.end) \/ a.end = ts

\* The result of a search: the archives in order, or the error.
Found(path) == [err |-> "nil", path |-> path]
Failed(err) == [err |-> err, path |-> <<>>]

\* walk[n] is the archive n steps before the one that holds until.  The map
\* lastTSArch keeps, of the archives with one end, the last one listed.
SequenceBetweenTS(archives, since, until) ==
    LET oplogs == SelectSeq(archives, LAMBDA a : a.type = "oplog")
        Pick(i) == IF i = 0 THEN NoArchive ELSE oplogs[i]
        seqEnd == Pick(SelectInSeq(oplogs, LAMBDA a : ArchIn(a, until)))
        lastTSArch(ts) == Pick(SelectLastInSeq(oplogs, LAMBDA a : a.end = ts))
        walk[n \in 0 .. Len(archives)] ==
            IF n = 0 THEN seqEnd
            ELSE IF walk[n-1] = NoArchive THEN NoArchive
            ELSE lastTSArch(walk[n-1].start)
        Reaches == {n \in DOMAIN walk : walk[n] # NoArchive /\ ArchIn(walk[n], since)}
        Ends == {n \in DOMAIN walk : walk[n] = NoArchive}
    IN  IF until < since THEN Failed("order")
        ELSE IF seqEnd = NoArchive THEN Failed("until not found")
        ELSE IF Reaches # {}
             THEN Found(Reverse([i \in 1 .. Min(Reaches) + 1 |-> walk[i-1]]))
        ELSE Failed(IF Ends # {} THEN "previous does not exist" ELSE "cycle")

\* A backup, as its sentinel describes it: the majority timestamps before and
\* after, the times of its start and its end, and whether it is permanent.
TimestampInInterval(ts, begin, end) == (begin < ts /\ ts < end) \/ ts = begin \/ ts = end

ArchInBackup(a, b) ==
    \/ TimestampInInterval(a.start, b.before, b.after)
    \/ TimestampInInterval(a.end, b.before, b.after)
    \/ TimestampInInterval(b.before, a.start, a.end)
    \/ TimestampInInterval(b.after, a.start, a.end)

OverlapsABackup(a, backups) == \E i \in DOMAIN backups : ArchInBackup(a, backups[i])

\* Backups sorted by their end, the latest first.
LoadBackups(stored) == SetToSortSeq(stored, LAMBDA a, b : a.finish > b.finish \/ (a.finish = b.finish /\ a.id > b.id))

NoBackup == [id |-> 0, before |-> ZeroTS, after |-> ZeroTS, start |-> 0, finish |-> 0, permanent |-> FALSE]

\* The last of the sorted backups that ended at or after the time, if any did.
OldestBackupAfterTime(backups, after) ==
    LET newer == {i \in DOMAIN backups : \A j \in 1 .. i : backups[j].finish >= after}
    IN  IF newer = {} THEN NoBackup ELSE backups[Max(newer)]

\* Mutant: archives that a retained backup overlaps are not looked for.
SelectPurgingOplogArchivesNoOverlap(archives, backups, retainAfterTS) ==
    {i \in DOMAIN archives : archives[i].end <= retainAfterTS}

SelectPurgingOplogArchives(archives, backups, retainAfterTS) ==
    {i \in DOMAIN archives :
        /\ archives[i].end <= retainAfterTS
        /\ ~ OverlapsABackup(archives[i], backups)}

\* SplitPurgingBackups over the backups sorted by their start, latest first:
\* permanent ones are kept and not counted, then retainCount of them (0 for no
\* count), then those started after retainAfter.
SplitPurgingBackups(backups, retainCount, retainAfter) ==
    LET Counted(i) == Cardinality({j \in 1 .. i : ~ backups[j].permanent})
    IN  {backups[i] : i \in {i \in DOMAIN backups :
            /\ ~ backups[i].permanent
            /\ Counted(i) > retainCount
            /\ backups[i].start <= retainAfter}}

SortTimedBackup(stored) == SetToSortSeq(stored, LAMBDA a, b : a.start > b.start \/ (a.start = b.start /\ a.id > b.id))
============================================================================
