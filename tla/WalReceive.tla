------------------------------ MODULE WalReceive ------------------------------
(***************************************************************************)
(* wal-receive: streams WAL from PostgreSQL through a physical replication *)
(* slot, cuts the stream into segments, uploads each with its metadata and *)
(* moves the slot on.  The server writes WAL, switches timelines and may   *)
(* recycle what is below the slot; the receiver may die at any step and is *)
(* started again.                                                          *)
(*                                                                         *)
(* An LSN counts units of WAL, SegmentSize of them to a segment; messages  *)
(* may cross the end of a segment.                                         *)
(***************************************************************************)
EXTENDS Integers, Sequences, Functions

CONSTANTS
    SegmentSize,    \* walSegmentBytes, in units
    Series,         \* segments whose metadata are consolidated (16 in the code)
    MaxLsn,         \* bound: WAL written
    MaxTimeline,    \* bound: timelines
    MaxMessage,     \* bound: units in a message
    MaxCrashes,     \* bound: deaths of the receiver
    Bulk,           \* WALG_UPLOAD_WAL_METADATA is BULK
    Circumstances   \* unusual circumstances that may arise, see README

ASSUME ReceiveAssumption ==
    /\ SegmentSize \in Nat \ {0} /\ Series \in Nat \ {0} /\ MaxLsn \in Nat /\ MaxTimeline \in Nat \ {0}
    /\ MaxMessage \in Nat \ {0} /\ MaxCrashes \in Nat /\ Bulk \in BOOLEAN
    /\ Circumstances \subseteq {"nullslot", "skipped", "historyerror"}

NoSlot == -1
NullSlot == -2

VARIABLES
    walEnd,         \* the server: LSN written
    switches,       \* timeline id -> LSN at which it ended
    timelines,      \* the server's timelines, oldest first
    slot,           \* RestartLSN, NoSlot or NullSlot
    receivePc, timeline, XLogPos,
    seg,            \* the WalSegment: [TimeLine, StartLSN, writeIndex, lastMsg]
    sent,           \* the server's position in the stream
    stored,         \* uploaded segments: [TimeLine, No, data], partial ones not
    other,          \* other files uploaded: partial segments and histories
    local,          \* metadata files on the receiver's disk
    meta,           \* files whose metadata are stored
    first,          \* LSN from which the receiver first received
    crashes

server == <<walEnd, switches, timelines>>
receiveVars == <<server, slot, receivePc, timeline, XLogPos, seg, sent, stored, other, local, meta, first, crashes>>

-----------------------------------------------------------------------------
(* The server *)

Current == timelines[Len(timelines)]

Ended(t) == t \in DOMAIN switches

\* What the server has of timeline t ends here.
EndOf(t) == IF Ended(t) THEN switches[t] ELSE walEnd

\* The timeline that wrote the WAL at an LSN, among those up to t.
Writer(t, lsn) ==
    LET line == {u \in DOMAIN switches : u < t /\ lsn < switches[u]} \cup {t}
    IN  CHOOSE u \in line : \A v \in line : u <= v

ServerWrite ==
    /\ walEnd < MaxLsn
    /\ walEnd' = walEnd + 1
    /\ UNCHANGED <<switches, timelines, slot, receivePc, timeline, XLogPos, seg, sent, stored, other, local, meta, first, crashes>>

\* A promotion takes the next timeline, unless that is in use.
Promote ==
    /\ Len(timelines) < MaxTimeline
    /\ \E t \in {Current + 1} \cup (IF "skipped" \in Circumstances THEN {Current + 2} ELSE {}) :
        /\ switches' = [u \in DOMAIN switches \cup {Current} |-> IF u = Current THEN walEnd ELSE switches[u]]
        /\ timelines' = Append(timelines, t)
    /\ UNCHANGED <<walEnd, slot, receivePc, timeline, XLogPos, seg, sent, stored, other, local, meta, first, crashes>>

-----------------------------------------------------------------------------
(* Segments *)

SegmentNo(lsn) == lsn \div SegmentSize

NewWalSegment(t, location) ==
    [TimeLine |-> t, StartLSN |-> SegmentNo(location) * SegmentSize, data |-> <<>>, lastMsg |-> <<>>]

endLSN(s) == s.StartLSN + SegmentSize

isComplete(s) == Len(s.data) >= SegmentSize

\* The part of a message [WALStart, data] that is the segment's, and whether the
\* rest of it is the next segment's.
processMessage(s, m) ==
    LET messageOffset == IF m.WALStart < s.StartLSN THEN s.StartLSN - m.WALStart ELSE 0
        fits == s.StartLSN + Len(s.data) = m.WALStart + messageOffset
        mine == SubSeq(m.data, messageOffset + 1, Len(m.data))
        room == SegmentSize - Len(s.data)
    IN  IF m.WALStart > endLSN(s) \/ m.WALStart + Len(m.data) < s.StartLSN THEN [result |-> "mismatch", seg |-> s]
        ELSE IF ~fits THEN [result |-> "gap", seg |-> s]
        ELSE [result |-> "ok",
              seg |-> [s EXCEPT !.data = @ \o (IF Len(mine) > room THEN SubSeq(mine, 1, room) ELSE mine),
                                !.lastMsg = IF Len(mine) > room THEN <<m>> ELSE @]]

\* The rest of a message that crossed the border goes to the next segment.
NextWalSegment(s) ==
    LET next == NewWalSegment(s.TimeLine, endLSN(s))
    IN  IF s.lastMsg = <<>> THEN [result |-> "ok", seg |-> next] ELSE processMessage(next, s.lastMsg[1])

\* LSNToTimeLine on the rows of the current timeline's history.
LSNToTimeLine(lsn) ==
    LET rows == {t \in DOMAIN switches : lsn < switches[t]}
    IN  IF rows = {} THEN Current ELSE CHOOSE t \in rows : \A u \in rows : t <= u

\* Asked for the history, the server may fail: then the timeline is 0.
getStartTimeline(lsn) ==
    IF Current < 2 THEN {1}
    ELSE {LSNToTimeLine(lsn)} \cup {t \in {0} : "historyerror" \in Circumstances}

-----------------------------------------------------------------------------
(* The receiver *)

\* Files by kind and place.
Segment(t, n) == [kind |-> "segment", TimeLine |-> t, No |-> n]
Partial(t, n) == [kind |-> "partial", TimeLine |-> t, No |-> n]
History(t) == [kind |-> "history", TimeLine |-> t, No |-> 0]

Stopped == [TimeLine |-> 0, StartLSN |-> 0, data |-> <<>>, lastMsg |-> <<>>]

\* HandleWALReceive up to the first segment.  The slot of a first start has no
\* restart LSN until the first status message, which follows at once.
HandleWALReceive ==
    /\ receivePc = "stopped"
    /\ slot # NullSlot
    /\ LET pos == IF slot = NoSlot THEN walEnd ELSE slot
       IN  /\ XLogPos' = pos
           /\ timeline' \in getStartTimeline(pos)
           /\ seg' = NewWalSegment(timeline', pos)
           /\ sent' = seg'.StartLSN
           /\ first' = IF slot = NoSlot THEN seg'.StartLSN ELSE first
           /\ other' = IF Current >= 2 /\ timeline' # 0 THEN other \cup {History(Current)} ELSE other
           /\ slot' \in {seg'.StartLSN} \cup (IF "nullslot" \in Circumstances /\ slot = NoSlot THEN {NullSlot} ELSE {})
    /\ receivePc' = "stream"
    /\ UNCHANGED <<server, stored, local, meta, crashes>>

\* Mutant: what was received counts, as in pg_recvlogical, not what was archived.
SendStandbyStatusUpdateReceived ==
    /\ receivePc = "stream" /\ slot # seg.StartLSN + Len(seg.data)
    /\ slot' = seg.StartLSN + Len(seg.data)
    /\ UNCHANGED <<server, receivePc, timeline, XLogPos, seg, sent, stored, other, local, meta, first, crashes>>

\* SendStandbyStatusUpdate at the start of a segment, and every ten seconds.
SendStandbyStatusUpdate ==
    /\ receivePc = "stream" /\ slot # seg.StartLSN
    /\ slot' = seg.StartLSN
    /\ UNCHANGED <<server, receivePc, timeline, XLogPos, seg, sent, stored, other, local, meta, first, crashes>>

\* The timeline the server streams: its own, if it is asked for none.
Served(t) == IF t = 0 THEN Current ELSE t

\* Stream: a message of the segment's timeline arrives.
Stream ==
    /\ receivePc = "stream" /\ ~isComplete(seg)
    /\ \E n \in 1 .. MaxMessage :
        /\ sent + n <= EndOf(Served(seg.TimeLine))
        /\ LET m == [WALStart |-> sent, data |-> [i \in 1 .. n |-> Writer(Served(seg.TimeLine), sent + i - 1)]]
               r == processMessage(seg, m)
           IN  /\ seg' = r.seg
               /\ receivePc' = IF r.result # "ok" THEN "failed" ELSE IF isComplete(r.seg) THEN "upload" ELSE "stream"
        /\ sent' = sent + n
    /\ UNCHANGED <<server, slot, timeline, XLogPos, stored, other, local, meta, first, crashes>>

\* The server ends a timeline that it has left.
CopyDone ==
    /\ receivePc = "stream" /\ Ended(Served(seg.TimeLine)) /\ sent = EndOf(Served(seg.TimeLine))
    /\ receivePc' = "copydone"
    /\ UNCHANGED <<server, slot, timeline, XLogPos, seg, sent, stored, other, local, meta, first, crashes>>

UploadWalFile ==
    /\ receivePc = "upload"
    /\ stored' = {s \in stored : ~(s.TimeLine = seg.TimeLine /\ s.No = SegmentNo(seg.StartLSN))}
                    \cup {[TimeLine |-> seg.TimeLine, No |-> SegmentNo(seg.StartLSN), data |-> seg.data]}
    /\ receivePc' = "metadata"
    /\ UNCHANGED <<server, slot, timeline, XLogPos, seg, sent, other, local, meta, first, crashes>>

SameSeries(f, g) == f.kind # "history" /\ f.TimeLine = g.TimeLine /\ f.No \div Series = g.No \div Series

\* In bulk the metadata stay on disk until the last segment of a series comes; then
\* the object of the series is written anew from the files there are.
UploadWalMetadata(f, m) ==
    LET kept == m.local \cup {f}
        series == {g \in kept : SameSeries(g, f)}
    IN  IF ~Bulk THEN [m EXCEPT !.meta = @ \cup {f}]
        ELSE IF f.kind # "segment" \/ f.No % Series # Series - 1 THEN [m EXCEPT !.local = kept]
        ELSE [local |-> kept \ series, meta |-> {g \in m.meta : ~SameSeries(g, f)} \cup series]

uploadRemoteWalMetadata ==
    /\ receivePc = "metadata"
    /\ LET m == UploadWalMetadata(Segment(seg.TimeLine, SegmentNo(seg.StartLSN)), [local |-> local, meta |-> meta])
       IN  local' = m.local /\ meta' = m.meta
    /\ XLogPos' = endLSN(seg)
    /\ seg' = NextWalSegment(seg).seg
    /\ receivePc' = IF NextWalSegment(seg).result # "ok" THEN "failed"
             ELSE IF isComplete(NextWalSegment(seg).seg) THEN "upload" ELSE "stream"
    /\ UNCHANGED <<server, slot, timeline, sent, stored, other, first, crashes>>

\* Mutant: the timeline that ended is streamed again.
NextTimelineSame ==
    /\ receivePc = "copydone"
    /\ seg' = NewWalSegment(timeline, XLogPos)
    /\ sent' = seg'.StartLSN
    /\ receivePc' = "stream"
    /\ UNCHANGED <<server, slot, timeline, XLogPos, stored, other, local, meta, first, crashes>>

\* The partial segment and the history of the next timeline are uploaded, and the
\* next timeline is streamed from the start of that segment.  There has to be a
\* history file of that name.
NextTimeline ==
    /\ receivePc = "copydone"
    /\ timeline' = timeline + 1
    /\ LET partial == Partial(seg.TimeLine, SegmentNo(seg.StartLSN))
           known == timeline' \in Range(timelines)
           m == UploadWalMetadata(partial, [local |-> local, meta |-> meta])
           n == IF known THEN UploadWalMetadata(History(timeline'), m) ELSE m
       IN  /\ other' = other \cup {partial} \cup {h \in {History(timeline')} : known}
           /\ local' = n.local /\ meta' = n.meta
           /\ receivePc' = IF known THEN "stream" ELSE "failed"
           /\ seg' = IF known THEN NewWalSegment(timeline', XLogPos) ELSE seg
           /\ sent' = seg'.StartLSN
    /\ UNCHANGED <<server, slot, XLogPos, stored, first, crashes>>

\* The receiver dies, or stops on an error, and is started again.
Crash ==
    /\ receivePc # "stopped"
    /\ receivePc = "failed" \/ crashes < MaxCrashes
    /\ crashes' = IF receivePc = "failed" THEN crashes ELSE crashes + 1
    /\ receivePc' = "stopped" /\ seg' = Stopped /\ timeline' = 0 /\ XLogPos' = 0 /\ sent' = 0
    /\ UNCHANGED <<server, slot, stored, other, local, meta, first>>

ReceiveInit ==
    /\ walEnd \in {0, 1} /\ switches = <<>> /\ timelines = <<1>>
    /\ slot = NoSlot /\ receivePc = "stopped" /\ timeline = 0 /\ XLogPos = 0 /\ seg = Stopped /\ sent = 0
    /\ stored = {} /\ other = {} /\ local = {} /\ meta = {} /\ first = 0 /\ crashes = 0

Receiver ==
    \/ HandleWALReceive \/ SendStandbyStatusUpdate \/ Stream \/ CopyDone \/ UploadWalFile
    \/ uploadRemoteWalMetadata \/ NextTimeline

ReceiveNext == ServerWrite \/ Promote \/ Receiver \/ Crash

\* The receiver is run, and run again when it stopped on an error; the server may
\* write no more.
ReceiveSpec == ReceiveInit /\ [][ReceiveNext]_receiveVars /\ WF_receiveVars(Receiver) /\ WF_receiveVars(Crash /\ receivePc = "failed")

-----------------------------------------------------------------------------
\* The slot lets the server recycle what is below it, so all WAL from the first
\* LSN received up to the slot is archived already, unit by unit as its timeline
\* wrote it, whenever the receiver died (SendStandbyStatusUpdate reports the start
\* of the segment in work, after UploadWalFile and uploadRemoteWalMetadata).  With
\* it are a history that leads to every timeline that has segments and, as long as
\* the receiver has not died, the metadata of every segment of a series ended there.
ArchivedBelowSlot ==
    /\ \A lsn \in first .. slot - 1 :
        \E s \in stored :
            /\ s.No = SegmentNo(lsn)
            /\ s.TimeLine \in Range(timelines)
            /\ \A i \in 1 .. SegmentSize : s.data[i] = Writer(Current, s.No * SegmentSize + i - 1)
    /\ \A s \in stored : s.TimeLine >= 2 => \E t \in Range(timelines) : t >= s.TimeLine /\ History(t) \in other
    /\ \A s, last \in stored :
        \/ s.TimeLine # last.TimeLine \/ s.No \div Series # last.No \div Series
        \/ last.No % Series # Series - 1 \/ (last.No + 1) * SegmentSize > slot
        \/ Bulk /\ crashes > 0
        \/ Segment(s.TimeLine, s.No) \in meta

\* The receiver catches up with the server again and again: every whole segment written
\* since the slot was made is archived, across deaths of the receiver and switches of
\* the timeline (HandleWALReceive starts again from the slot, getStartTimeline finds
\* the timeline to go on with).
CaughtUp ==
    \A n \in 0 .. MaxLsn \div SegmentSize :
        n * SegmentSize >= first /\ slot # NoSlot /\ walEnd >= (n + 1) * SegmentSize
            => \E s \in stored : s.No = n
EventuallyArchived == []<>CaughtUp
=============================================================================
