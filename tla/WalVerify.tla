------------------------------ MODULE WalVerify ------------------------------
(***************************************************************************)
(* wal-verify and wal-show: walk the WAL segments of an archive from the   *)
(* cluster's current segment back to the start of the earliest backup,     *)
(* across timeline switches, and say which are missing.                    *)
(*                                                                         *)
(* The archive, its .history file and its backups are chosen in Init; one  *)
(* step scans one segment.  An LSN is a half segment, so that a timeline   *)
(* switch may lie at the start of a segment or within it.                  *)
(***************************************************************************)
EXTENDS Integers, Sequences, FiniteSets, SequencesExt

CONSTANTS
    MaxSegment,         \* bound: segment numbers are 1 .. MaxSegment
    MaxTimelines,       \* bound: timelines are 1 .. MaxTimelines
    MaxStoredBackups,   \* bound: backups in the archive
    MaxUploadConcurrency,
    MaxDelayedSegments,
    Unusual             \* unusual circumstances that may arise, see README

ASSUME VerifyAssumption ==
    /\ MaxSegment \in Nat \ {0} /\ MaxTimelines \in Nat \ {0} /\ MaxStoredBackups \in 0 .. 2
    /\ MaxUploadConcurrency \in Nat \ {0} /\ MaxDelayedSegments \in Nat
    /\ Unusual \subseteq {"sameswitch", "nohistory", "switchsegment"}

VARIABLES
    switchpoints,   \* the cluster's timeline switches: LSN where timeline i ended
    historyFile,\* the .history file of the current timeline is stored
    archive,     \* WAL segments in the archive: [Timeline, Number]
    backups,    \* backups: [Timeline, lsn, IsPermanent]
    start,      \* the current segment of the cluster
    verifyPc,         \* "delayed", "uploading", "lost", "done"
    at,         \* the runner's currentWalSegment
    left,       \* segments left in a limited scan
    scanned     \* ScannedSegments: [Timeline, Number, status]

verifyVars == <<switchpoints, historyFile, archive, backups, start, verifyPc, at, left, scanned>>

WalSegment(t, n) == [Timeline |-> t, Number |-> n]

newWalSegmentNo(lsn) == lsn \div 2

-----------------------------------------------------------------------------
(* The .history file *)

\* The rows of the file, oldest first; none for the first timeline.
getTimeLineHistoryRecords ==
    IF historyFile THEN [i \in DOMAIN switchpoints |-> [timeline |-> i, lsn |-> switchpoints[i]]] ELSE <<>>

\* A later row replaces an earlier one of the same segment.
createTimelineSwitchMap ==
    LET rows == getTimeLineHistoryRecords
        of(n) == {i \in DOMAIN rows : newWalSegmentNo(rows[i].lsn) = n}
    IN  [n \in {newWalSegmentNo(rows[i].lsn) : i \in DOMAIN rows} |->
            rows[CHOOSE i \in of(n) : \A j \in of(n) : j <= i]]

switchSegNoByTimeline ==
    LET records == Range(createTimelineSwitchMap)
    IN  [t \in {r.timeline : r \in records} |->
            newWalSegmentNo((CHOOSE r \in records : r.timeline = t).lsn)]

-----------------------------------------------------------------------------
(* Where to stop *)

checkBackupIsCorrect(b) ==
    LET seg == newWalSegmentNo(b.lsn)
        known == DOMAIN switchSegNoByTimeline
    IN  /\ ~b.IsPermanent
        /\ known # {} =>
            /\ ~(b.Timeline > 1 /\ b.Timeline - 1 \in known /\ seg < switchSegNoByTimeline[b.Timeline - 1])
            /\ b.Timeline # start.Timeline =>
                /\ b.Timeline \in known
                /\ seg < switchSegNoByTimeline[b.Timeline]

findEarliestBackup == {newWalSegmentNo(b.lsn) : b \in {c \in backups : checkBackupIsCorrect(c)}}

\* Without a correct backup the whole archive is scanned.
stopSegmentNo ==
    IF findEarliestBackup = {} THEN 1 ELSE CHOOSE n \in findEarliestBackup : \A m \in findEarliestBackup : n <= m

-----------------------------------------------------------------------------
(* The scan *)

\* Mutant: the timeline changes one segment early.
getNextSegmentEarly ==
    LET map == createTimelineSwitchMap
    IN  WalSegment(IF at.Number - 1 \in DOMAIN map THEN map[at.Number - 1].timeline ELSE at.Timeline, at.Number - 1)

\* Below the segment of a switch, the WAL is that of the timeline switched from.
getNextSegment ==
    LET map == createTimelineSwitchMap
    IN  WalSegment(IF at.Number \in DOMAIN map THEN map[at.Number].timeline ELSE at.Timeline, at.Number - 1)

Scan(phase, limited) == verifyPc = phase /\ (limited => left > 0) /\ at.Number > stopSegmentNo

\* Next, or ForceMoveNext past a missing segment, and AddScannedSegment.
ScanSegment(status) ==
    /\ at' = getNextSegment
    /\ scanned' = Append(scanned, [Timeline |-> at'.Timeline, Number |-> at'.Number,
                                   status |-> IF at' \in archive THEN "found" ELSE status])

Given == <<switchpoints, historyFile, archive, backups, start>>

\* Up to the first segment found, missing ones are probably delayed.
ScanDelayed ==
    /\ Scan("delayed", TRUE)
    /\ ScanSegment("delayed")
    /\ IF at' \in archive THEN verifyPc' = "uploading" /\ left' = MaxUploadConcurrency
       ELSE verifyPc' = verifyPc /\ left' = left - 1
    /\ UNCHANGED Given

ScanDelayedEnds ==
    /\ verifyPc = "delayed" /\ ~Scan("delayed", TRUE)
    /\ verifyPc' = "uploading" /\ left' = MaxUploadConcurrency
    /\ UNCHANGED <<Given, at, scanned>>

\* A limited number of segments, of which missing ones are probably uploading.
ScanUploading ==
    /\ Scan("uploading", TRUE)
    /\ ScanSegment("uploading")
    /\ left' = left - 1
    /\ UNCHANGED <<Given, verifyPc>>

ScanUploadingEnds ==
    /\ verifyPc = "uploading" /\ ~Scan("uploading", TRUE)
    /\ verifyPc' = "lost"
    /\ UNCHANGED <<Given, at, left, scanned>>

ScanLost ==
    /\ Scan("lost", FALSE)
    /\ ScanSegment("lost")
    /\ UNCHANGED <<Given, verifyPc, left>>

ScanLostEnds ==
    /\ verifyPc = "lost" /\ ~Scan("lost", FALSE)
    /\ verifyPc' = "done"
    /\ UNCHANGED <<Given, at, left, scanned>>

-----------------------------------------------------------------------------
(* The results *)

\* Ordered by number, a new sequence where the status or the timeline changes.
collapseSegmentsByStatusAndTimeline ==
    LET ordered == Reverse(scanned)
        first == {i \in DOMAIN ordered : \/ i = 1 \/ ordered[i].status # ordered[i - 1].status
                                         \/ ordered[i].Timeline # ordered[i - 1].Timeline}
        last(i) == CHOOSE j \in i .. Len(ordered) :
                        /\ j = Len(ordered) \/ j + 1 \in first
                        /\ \A k \in i + 1 .. j : k \notin first
    IN  {[Timeline |-> ordered[i].Timeline, Start |-> ordered[i].Number, End |-> ordered[last(i)].Number,
          SegmentsCount |-> last(i) - i + 1, Status |-> ordered[i].status] : i \in first}

newWalIntegrityCheckResult ==
    LET statuses == {s.Status : s \in collapseSegmentsByStatusAndTimeline}
    IN  IF "lost" \in statuses THEN "FAILURE"
        ELSE IF statuses \cap {"delayed", "uploading"} # {} THEN "WARNING" ELSE "OK"

\* The timelines of segments and .history files.
tryFindHighestTimelineID ==
    LET found == {s.Timeline : s \in archive} \cup (IF historyFile THEN {start.Timeline} ELSE {})
    IN  IF found = {} THEN 0 ELSE CHOOSE t \in found : \A u \in found : u <= t

newTimelineCheckResult ==
    IF tryFindHighestTimelineID = 0 THEN "WARNING"
    ELSE IF tryFindHighestTimelineID = start.Timeline THEN "OK" ELSE "FAILURE"

\* wal-show: the segments of a timeline, and those missing between the lowest and
\* the highest, found by a scan on that timeline alone.
NewSegmentsSequence(t) == {s.Number : s \in {x \in archive : x.Timeline = t}}

FindMissingSegments(t) ==
    LET numbers == NewSegmentsSequence(t)
        min == CHOOSE n \in numbers : \A m \in numbers : n <= m
        max == CHOOSE n \in numbers : \A m \in numbers : n >= m
    IN  {n \in min .. max - 1 : n \notin numbers}

groupSegmentsByTimelines == {s.Timeline : s \in archive}

NewTimelineInfo(t) ==
    [ID |-> t, SegmentsCount |-> Cardinality(NewSegmentsSequence(t)), MissingSegments |-> FindMissingSegments(t),
     Status |-> IF FindMissingSegments(t) = {} THEN "OK" ELSE "LOST_SEGMENTS"]

-----------------------------------------------------------------------------
(* The cluster.  Its switches are in different segments, its .history file   *)
(* is archived, and no backup begins on the old timeline in the very segment *)
(* of a switch, unless the circumstances say so.                             *)

Lsns == 2 .. 2 * MaxSegment + 1

StartOf(t) == IF t = 1 THEN 2 ELSE switchpoints[t - 1]

\* What a timeline can have left in the archive: its segments up to the next
\* switch, and one more of a primary that did not notice it was replaced.
Written ==
    {s \in [Timeline : 1 .. start.Timeline, Number : 1 .. start.Number - 1] :
        /\ s.Number >= newWalSegmentNo(StartOf(s.Timeline))
        /\ s.Timeline < start.Timeline => s.Number <= newWalSegmentNo(switchpoints[s.Timeline]) + 1}

Backups ==
    {b \in [Timeline : 1 .. start.Timeline, lsn : Lsns, IsPermanent : BOOLEAN] :
        /\ StartOf(b.Timeline) <= b.lsn /\ newWalSegmentNo(b.lsn) < start.Number
        /\ b.Timeline < start.Timeline /\ "switchsegment" \notin Unusual =>
              ~(b.lsn < switchpoints[b.Timeline] /\ newWalSegmentNo(b.lsn) = newWalSegmentNo(switchpoints[b.Timeline]))}

VerifyInit ==
    /\ switchpoints \in {s \in UNION {[1 .. n -> Lsns] : n \in 0 .. MaxTimelines - 1} :
            \A i \in 2 .. Len(s) : IF "sameswitch" \in Unusual THEN s[i - 1] < s[i]
                                   ELSE newWalSegmentNo(s[i - 1]) < newWalSegmentNo(s[i])}
    /\ historyFile \in {switchpoints # <<>>} \cup (IF "nohistory" \in Unusual THEN {FALSE} ELSE {})
    /\ start \in [Timeline : {Len(switchpoints) + 1}, Number : 2 .. MaxSegment]
    /\ start.Number >= newWalSegmentNo(StartOf(start.Timeline))
    /\ archive \in SUBSET Written
    /\ backups \in {B \in {{}} \cup {{b, c} : b, c \in Backups} : Cardinality(B) <= MaxStoredBackups}
    /\ verifyPc = "delayed" /\ at = start /\ left = MaxDelayedSegments /\ scanned = <<>>

Terminating == verifyPc = "done" /\ UNCHANGED verifyVars

VerifyNext ==
    \/ ScanDelayed \/ ScanDelayedEnds \/ ScanUploading \/ ScanUploadingEnds
    \/ ScanLost \/ ScanLostEnds \/ Terminating

VerifySpec == VerifyInit /\ [][VerifyNext]_verifyVars

-----------------------------------------------------------------------------
(* What the reports should say *)

TimelineAt(n) ==
    CHOOSE t \in 1 .. start.Timeline :
        /\ t = 1 \/ newWalSegmentNo(StartOf(t)) <= n
        /\ \A u \in t + 1 .. start.Timeline : newWalSegmentNo(StartOf(u)) > n

\* A backup from which the cluster's history continues to the current segment.
OnHistory(b) ==
    /\ StartOf(b.Timeline) <= b.lsn
    /\ b.Timeline < start.Timeline => b.lsn < switchpoints[b.Timeline]

OldestSegment ==
    LET segs == {newWalSegmentNo(b.lsn) : b \in {c \in backups : OnHistory(c) /\ ~c.IsPermanent}}
    IN  IF segs = {} THEN 1 ELSE CHOOSE n \in segs : \A m \in segs : n <= m

Path == {WalSegment(TimelineAt(n), n) : n \in OldestSegment .. start.Number - 1}

\* The newest segment archived, or the last that may be delayed.
ArchivedFront ==
    LET found == {n \in start.Number - MaxDelayedSegments .. start.Number - 1 : n > 0 /\ WalSegment(TimelineAt(n), n) \in archive}
    IN  IF found = {} THEN start.Number - MaxDelayedSegments ELSE CHOOSE n \in found : \A m \in found : m <= n

\* wal-verify reports on exactly the segments that recovery from the oldest
\* usable backup to the current segment reads, each on the timeline that it has
\* in the cluster's history: OK when all are stored, FAILURE when one is missing
\* that is neither delayed nor among those that may still be uploading.  The
\* timeline of the cluster never fails the check against its own archive.  The
\* sequences it prints add up to those segments, and wal-show counts the same
\* ones as missing within a timeline (runWalIntegrityScan, getNextSegment,
\* checkBackupIsCorrect, collapseSegmentsByStatusAndTimeline, FindMissingSegments).
VerifyExact ==
    verifyPc = "done" =>
        LET missing == Path \ archive
            sequences == collapseSegmentsByStatusAndTimeline
        IN  /\ {WalSegment(s.Timeline, s.Number) : s \in Range(scanned)} = Path
            /\ newWalIntegrityCheckResult =
                IF missing = {} THEN "OK"
                ELSE IF \E s \in missing : s.Number < ArchivedFront - MaxUploadConcurrency THEN "FAILURE" ELSE "WARNING"
            /\ newTimelineCheckResult # "FAILURE"
            /\ \A s \in Path : \E q \in sequences :
                /\ s.Timeline = q.Timeline /\ s.Number \in q.Start .. q.End
                /\ q.SegmentsCount = q.End - q.Start + 1 /\ (q.Status = "found" <=> s \in archive)
            /\ \A s \in Path, t \in groupSegmentsByTimelines :
                s \in missing /\ s.Timeline = t /\ NewSegmentsSequence(t) \cap 1 .. s.Number # {}
                    /\ NewSegmentsSequence(t) \cap s.Number .. MaxSegment # {}
                <=> s.Timeline = t /\ s.Number \in NewTimelineInfo(t).MissingSegments
=============================================================================
