------------------------------ MODULE OplogPush ------------------------------
(***************************************************************************)
(* oplog-push: on every node of a replica set a process archives the oplog *)
(* while the node is primary.  CursorMajFetcher reads the oplog, holds     *)
(* each record back until a majority has it and hands it to StorageApplier *)
(* over an unbuffered channel; the applier collects records in a buffer    *)
(* and uploads it as an archive when it is large enough, when a timer      *)
(* expires and when the channel is closed.  A new process resumes from the *)
(* last timestamp known in storage, or reports a gap.                      *)
(***************************************************************************)
EXTENDS OplogArchive

CONSTANTS
    Nodes,
    MaxTS,              \* bound: timestamps
    ArchiveAfterSize,   \* records in the buffer that cause an upload
    MaxFaults,          \* bound: elections, crashes, failed uploads, ..., and commands started
    SlowElections       \* no node is re-elected between two polls of its fetcher

VARIABLES
    oplog,      \* timestamps of the records in the oplog
    clock,      \* last timestamp used
    maj,        \* timestamp up to which a majority has the oplog
    primary,    \* node
    history,    \* timestamps of all records a majority ever had
    archives,   \* objects of the oplog folder
    proc,       \* node -> its oplog-push process
    faults

mongodVars == <<oplog, clock, maj, primary, history>>
pushVars == <<mongodVars, archives, proc, faults>>

\* fpc, apc: where the fetcher and the applier are; since: the timestamp to resume
\* from; cur: the cursor's; op, maj: of the fetcher; buf, start, last: the batch.
Off == [fpc |-> "off", apc |-> "off", since |-> ZeroTS, cur |-> ZeroTS, op |-> ZeroTS,
        maj |-> ZeroTS, buf |-> <<>>, start |-> ZeroTS, last |-> ZeroTS, done |-> FALSE]

Fault == faults < MaxFaults /\ faults' = faults + 1

--------------------------------------------------------------------------
(* The replica set. *)

Write ==
    /\ clock < MaxTS
    /\ clock' = clock + 1
    /\ oplog' = oplog \cup {clock'}
    /\ UNCHANGED <<maj, primary, history, archives, proc, faults>>

Replicate ==
    /\ \E ts \in {t \in oplog : t > maj} :
        /\ maj' = ts
        /\ history' = history \cup {t \in oplog : t <= ts}
    /\ UNCHANGED <<oplog, clock, primary, archives, proc, faults>>

\* An election: records without a majority may be rolled back.
Elect(n) ==
    /\ primary # n
    /\ SlowElections => proc[n].fpc # "wait"
    /\ Fault
    /\ primary' = n
    /\ \E kept \in {maj} \cup {t \in oplog : t > maj} : oplog' = {t \in oplog : t <= kept}
    /\ UNCHANGED <<clock, maj, history, archives, proc>>

\* The oplog is a capped collection.
CapOplog ==
    /\ Cardinality(oplog) > 1 /\ Min(oplog) < maj
    /\ Fault
    /\ oplog' = oplog \ {Min(oplog)}
    /\ UNCHANGED <<clock, maj, primary, history, archives, proc>>

--------------------------------------------------------------------------
(* The start of oplog-push. *)

\* EnsureIsMaster, or WaitForBecomePrimary; then ResolveStartingTS.
ResolveStartingTS(n) ==
    /\ proc[n].fpc = "off" /\ primary = n
    /\ LET known == LastKnownArchiveTS(archives)
       IN  proc' = [proc EXCEPT ![n].fpc = "build",
                                ![n].since = IF known # ZeroTS THEN known ELSE maj]
    /\ UNCHANGED <<mongodVars, archives, faults>>

\* The records TailOplogFrom finds.
TailOplogFrom(ts) == {t \in oplog : t >= ts}

\* BuildCursorFromTS.  When the first record is the expected one, it is pushed
\* back to the cursor, and HandleOplogPush starts the fetcher and the applier.
BuildCursorFromTS(n) ==
    /\ proc[n].fpc = "build"
    /\ TailOplogFrom(proc[n].since) # {}
    /\ proc' = [proc EXCEPT ![n] =
            IF Min(TailOplogFrom(@.since)) = @.since
            THEN [@ EXCEPT !.fpc = "wait", !.apc = "recv", !.cur = proc[n].since, !.op = proc[n].since]
            ELSE [@ EXCEPT !.fpc = "gap"]]
    /\ UNCHANGED <<mongodVars, archives, faults>>

\* Mutant: archiving goes on after the gap without a mark of it.
UploadGapNotMarked(n) ==
    /\ proc[n].fpc = "gap"
    /\ proc' = [proc EXCEPT ![n] = [@ EXCEPT !.fpc = "next", !.apc = "recv", !.cur = maj - 1]]
    /\ UNCHANGED <<mongodVars, archives, faults>>

\* The mark of a gap; NewArchive refuses one that ends before it starts.
UploadGapArchive(n) ==
    /\ proc[n].fpc = "gap"
    /\ IF maj < proc[n].since
       THEN /\ proc' = [proc EXCEPT ![n] = Off]
            /\ UNCHANGED archives
       ELSE /\ archives' = Upload(archives, NewArchive(proc[n].since, maj, "gap", <<>>))
            /\ proc' = [proc EXCEPT ![n] = [@ EXCEPT !.fpc = "next", !.apc = "recv", !.cur = maj - 1]]
    /\ UNCHANGED <<mongodVars, faults>>

--------------------------------------------------------------------------
(* CursorMajFetcher.Fetch *)

\* The oplog was truncated past the position of the cursor.
PositionLost(cur) == \E t \in history \ oplog : cur < t

\* Mutant: a record is sent before a majority has it.
FetchNextNoWait(n) ==
    /\ proc[n].fpc = "next"
    /\ TailOplogFrom(proc[n].cur + 1) # {}
    /\ LET ts == Min(TailOplogFrom(proc[n].cur + 1))
       IN  proc' = [proc EXCEPT ![n].cur = ts, ![n].op = ts, ![n].fpc = "send"]
    /\ UNCHANGED <<mongodVars, archives, faults>>

FetchNext(n) ==
    /\ proc[n].fpc = "next" /\ ~ PositionLost(proc[n].cur)
    /\ TailOplogFrom(proc[n].cur + 1) # {}
    /\ LET ts == Min(TailOplogFrom(proc[n].cur + 1))
       IN  proc' = [proc EXCEPT ![n].cur = ts, ![n].op = ts,
                                ![n].fpc = IF proc[n].maj < ts THEN "wait" ELSE "send"]
    /\ UNCHANGED <<mongodVars, archives, faults>>

\* One turn of the loop that waits for the majority.  An error ends the fetcher:
\* the channel is closed, and the error group cancels the context.
WaitMajority(n) ==
    /\ proc[n].fpc = "wait"
    /\ IF primary = n
       THEN /\ maj # proc[n].maj
            /\ proc' = [proc EXCEPT ![n].maj = maj,
                                    ![n].fpc = IF maj < proc[n].op THEN "wait" ELSE "send"]
       ELSE proc' = [proc EXCEPT ![n].fpc = "end", ![n].done = TRUE]
    /\ UNCHANGED <<mongodVars, archives, faults>>

CursorDies(n) ==
    /\ proc[n].fpc = "next" /\ PositionLost(proc[n].cur)
    /\ proc' = [proc EXCEPT ![n].fpc = "end", ![n].done = TRUE]
    /\ UNCHANGED <<mongodVars, archives, faults>>

\* The connection fails.
FetchFails(n) ==
    /\ proc[n].fpc \in {"next", "wait"}
    /\ Fault
    /\ proc' = [proc EXCEPT ![n].fpc = "end", ![n].done = TRUE]
    /\ UNCHANGED <<mongodVars, archives>>

\* The context is done: Next and IsMaster return, and the select takes its second branch.
FetchCancelled(n) ==
    /\ proc[n].fpc \in {"next", "wait", "send"} /\ proc[n].done
    /\ proc' = [proc EXCEPT ![n].fpc = "end"]
    /\ UNCHANGED <<mongodVars, archives, faults>>

--------------------------------------------------------------------------
(* StorageApplier.Apply *)

\* The record is handed over: the batch starts at the first one ever received.
ReceiveOp(n) ==
    /\ proc[n].fpc = "send" /\ proc[n].apc = "recv"
    /\ proc' = [proc EXCEPT ![n] =
            [@ EXCEPT !.fpc = "next", !.op = ZeroTS,
                      !.start = IF proc[n].start = ZeroTS THEN proc[n].op ELSE proc[n].start,
                      !.last = proc[n].op,
                      !.buf = Append(proc[n].buf, proc[n].op),
                      !.apc = IF Len(proc[n].buf) + 1 < ArchiveAfterSize THEN "recv" ELSE "upload"]]
    /\ UNCHANGED <<mongodVars, archives, faults>>

\* The timer expires.  With nothing in the buffer it is only reset.
ArchiveTimeout(n) ==
    /\ proc[n].apc = "recv" /\ proc[n].buf # <<>>
    /\ proc' = [proc EXCEPT ![n].apc = "upload"]
    /\ UNCHANGED <<mongodVars, archives, faults>>

\* The channel is closed: what is left in the buffer is uploaded.
ChannelClosed(n) ==
    /\ proc[n].apc = "recv" /\ proc[n].fpc = "end"
    /\ proc' = [proc EXCEPT ![n].apc = IF proc[n].buf = <<>> THEN "end" ELSE "last"]
    /\ UNCHANGED <<mongodVars, archives, faults>>

\* The archive is uploaded under the timestamps of the batch; the next one
\* starts where this one ends.
UploadOplogArchive(n) ==
    /\ proc[n].apc \in {"upload", "last"}
    /\ archives' = Upload(archives, NewArchive(proc[n].start, proc[n].last, "oplog", proc[n].buf))
    /\ proc' = [proc EXCEPT ![n].buf = <<>>, ![n].start = proc[n].last,
                            ![n].apc = IF @ = "last" THEN "end" ELSE "recv"]
    /\ UNCHANGED <<mongodVars, faults>>

\* A failed upload may have stored the archive; the error cancels the context.
UploadFails(n) ==
    /\ proc[n].apc \in {"upload", "last"}
    /\ Fault
    /\ archives' \in {archives, Upload(archives,
            NewArchive(proc[n].start, proc[n].last, "oplog", proc[n].buf))}
    /\ proc' = [proc EXCEPT ![n].apc = "end", ![n].done = TRUE]
    /\ UNCHANGED mongodVars

--------------------------------------------------------------------------
(* HandleOplogPush and the process. *)

\* Both members of the error group have returned.
HandleOplogPushReturns(n) ==
    /\ proc[n].fpc = "end" /\ proc[n].apc = "end"
    /\ proc' = [proc EXCEPT ![n] = Off]
    /\ UNCHANGED <<mongodVars, archives, faults>>

\* SIGTERM cancels the context; a crash leaves nothing.
Signal(n) ==
    /\ proc[n].apc # "off" /\ ~ proc[n].done
    /\ Fault
    /\ proc' = [proc EXCEPT ![n].done = TRUE]
    /\ UNCHANGED <<mongodVars, archives>>

Crash(n) ==
    /\ proc[n].fpc # "off"
    /\ Fault
    /\ proc' = [proc EXCEPT ![n] = Off]
    /\ UNCHANGED <<mongodVars, archives>>

--------------------------------------------------------------------------

PushInit ==
    /\ oplog = {1} /\ clock = 1 /\ maj = 1 /\ history = {1}
    /\ primary = CHOOSE n \in Nodes : TRUE
    /\ archives \in {{}, {NewArchive(1, 1, "oplog", <<1>>)}}
    /\ proc = [n \in Nodes |-> Off]
    /\ faults = 0

\* The steps a running process takes by itself.
PushStep(n) ==
    \/ ResolveStartingTS(n) \/ BuildCursorFromTS(n) \/ UploadGapArchive(n)
    \/ FetchNext(n) \/ WaitMajority(n) \/ CursorDies(n) \/ FetchCancelled(n)
    \/ ReceiveOp(n) \/ ArchiveTimeout(n) \/ ChannelClosed(n)
    \/ UploadOplogArchive(n) \/ HandleOplogPushReturns(n)

PushNext ==
    \/ Write \/ Replicate \/ CapOplog
    \/ \E n \in Nodes :
        \/ PushStep(n)
        \/ Elect(n) \/ FetchFails(n) \/ UploadFails(n) \/ Signal(n) \/ Crash(n)

PushSpec == PushInit /\ [][PushNext]_pushVars /\ \A n \in Nodes : WF_pushVars(PushStep(n))

--------------------------------------------------------------------------
(* Properties *)

Ascending(ops) == \A i, j \in DOMAIN ops : i < j => ops[i] < ops[j]

\* The records of every archive are exactly those records of the replica set that
\* a majority has, after the archive's start and up to its end, in order; the first
\* archive of a process also holds the record at its start.  None of them is ever
\* rolled back.
ArchivesContiguous ==
    \A a \in archives : a.type = "oplog" =>
        LET records == {t \in history : a.start < t /\ t <= a.end}
        IN  Ascending(a.ops) /\ Range(a.ops) \in {records, records \cup {a.start}}

\* Once something is archived, the archives catch up again and again: every record a
\* majority has is then in an archive or covered by the mark of a gap.  Neither
\* elections nor restarts nor failed uploads lose a record silently.
NothingLostSilently ==
    archives # {} =>
        []<>(\A ts \in history : \E a \in archives :
                ts \in Range(a.ops) \/ (a.type = "gap" /\ ts \in a.start .. a.end))
============================================================================
