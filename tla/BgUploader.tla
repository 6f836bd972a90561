----------------------------- MODULE BgUploader -----------------------------
(***************************************************************************)
(* The background uploader of wal-push.  A scanner goroutine looks for     *)
(* .ready files beside the segment being pushed and sends them over an     *)
(* unbuffered channel; processFiles takes a place of the semaphore for     *)
(* each new one and starts an upload goroutine; Stop cancels the context   *)
(* and takes all places.  The three touch the archive_status directory of  *)
(* PostgreSQL, the marks of the ArchiveStatusManager and the archive.      *)
(***************************************************************************)
EXTENDS Integers, Sequences, FiniteSets

CONSTANTS
    MaxWal,                 \* bound: WAL segments, numbered in WAL order
    MaxParallelWorkers,
    MaxNumUploaded,
    PreventWalOverwrite,
    ReadyRename,
    Callers,                \* goroutines that call Stop
    MaxErrors               \* bound on failures and crashes

ASSUME BgAssumption ==
    /\ MaxWal \in Nat
    /\ MaxParallelWorkers \in Nat
    /\ MaxNumUploaded \in Nat
    /\ PreventWalOverwrite \in BOOLEAN
    /\ ReadyRename \in BOOLEAN
    /\ MaxErrors \in Nat

VARIABLES
    status,     \* segment -> "open", or the suffix of its status file
    marked,     \* segments marked as uploaded by the ArchiveStatusManager
    archive,    \* segment -> "absent", "same" or "other" than the local file
    errors,     \* failures so far
    scanner,    \* scanAndProcessFiles
    started,    \* segments processFiles has met, and the first one
    received,   \* segment for which processFiles awaits the semaphore, or NoWal
    queued,     \* processFiles is in the queue of the semaphore
    cancelled,  \* the context is done
    worker,     \* segment -> state of its upload goroutine
    numUploaded,
    stop        \* caller -> state of its call of Stop

storeVars == <<status, marked, archive>>
procVars == <<started, received, queued>>
bgVars == <<scanner, procVars, cancelled, worker, numUploaded, stop>>

Segments == 1 .. MaxWal
NoWal == 0

\* Goroutines that hold a place of the semaphore, and the uploads that succeeded.
Holding == {"upload", "put", "mark", "rename", "release", "giveup"}
Uploaded == {s \in Segments : worker[s] \in {"mark", "rename", "release", "count", "counted"}}

Running == {s \in Segments : worker[s] \in Holding}
Waiting == {c \in Callers : stop[c] = "waiting"}
Stopped == {c \in Callers : stop[c] = "returned"}

IdleScanner == [pc |-> "off", at |-> NoWal, sent |-> 0, list |-> <<>>]

\* NewBgUploader(first) followed by Start, which does nothing when disabled.
StartedScanner(first) ==
    IF MaxParallelWorkers < 1 \/ MaxNumUploaded < 1
      THEN IdleScanner
      ELSE [pc |-> "next", at |-> first, sent |-> 0, list |-> <<>>]

StartBgUploader(first) ==
    /\ scanner' = StartedScanner(first)
    /\ started' = {first}
    /\ received' = NoWal
    /\ queued' = FALSE
    /\ cancelled' = FALSE
    /\ worker' = [s \in Segments |-> "none"]
    /\ numUploaded' = 0
    /\ stop' = [c \in Callers |-> "no"]

-----------------------------------------------------------------------------
(* scanAndProcessFiles *)

\* The first loop: the successors of the first segment, as long as they are ready.
ScanNext ==
    /\ scanner.pc = "next" /\ scanner.list = <<>>
    /\ LET next == scanner.at + 1
       IN  scanner' = IF scanner.sent < MaxNumUploaded /\ next \in Segments
                         /\ status[next] = "ready"
                        THEN [scanner EXCEPT !.at = next, !.sent = @ + 1, !.list = <<next>>]
                        ELSE [scanner EXCEPT !.pc = "read"]
    /\ UNCHANGED <<storeVars, errors, procVars, cancelled, worker, numUploaded, stop>>

\* The second loop lists the directory.
ReadDir ==
    /\ scanner.pc = "read"
    /\ scanner' = [scanner EXCEPT !.pc = "list",
                     !.list = SelectSeq([s \in Segments |-> s], LAMBDA s : status[s] = "ready")]
    /\ UNCHANGED <<storeVars, errors, procVars, cancelled, worker, numUploaded, stop>>

\* The pause before the directory is listed again.
PollPause ==
    /\ scanner.pc = "list" /\ scanner.list = <<>>
    /\ scanner' = [scanner EXCEPT !.pc = "read"]
    /\ UNCHANGED <<storeVars, errors, procVars, cancelled, worker, numUploaded, stop>>

\* ctx.Done is chosen by one of the selects, or ReadDir fails.
ScanEnds ==
    /\ \/ cancelled /\ (scanner.list # <<>> \/ scanner.pc = "list") /\ UNCHANGED errors
       \/ scanner.pc = "read" /\ errors < MaxErrors /\ errors' = errors + 1
    /\ scanner' = IdleScanner
    /\ UNCHANGED <<storeVars, procVars, cancelled, worker, numUploaded, stop>>

-----------------------------------------------------------------------------
(* processFiles *)

\* Mutant: the marks of the ArchiveStatusManager are all there is to go by.
ProcessFileAgain ==
    /\ scanner.list # <<>> /\ received = NoWal
    /\ LET s == Head(scanner.list)
       IN  IF s \in marked
             THEN UNCHANGED <<started, received>>
             ELSE started' = started \cup {s} /\ received' = s
    /\ scanner' = [scanner EXCEPT !.list = Tail(@)]
    /\ UNCHANGED <<storeVars, errors, queued, cancelled, worker, numUploaded, stop>>

\* It receives a file from the scanner and skips it if uploaded or started.
ProcessFile ==
    /\ scanner.list # <<>> /\ received = NoWal
    /\ LET s == Head(scanner.list)
       IN  IF s \in marked \cup started
             THEN UNCHANGED <<started, received>>
             ELSE started' = started \cup {s} /\ received' = s
    /\ scanner' = [scanner EXCEPT !.list = Tail(@)]
    /\ UNCHANGED <<storeVars, errors, queued, cancelled, worker, numUploaded, stop>>

\* A place of the semaphore is free.
HasPlace == Cardinality(Running) < MaxParallelWorkers /\ Stopped = {}

\* Acquire(ctx, 1) takes a free place, even of a cancelled context.
AcquireWorker ==
    /\ received # NoWal
    /\ HasPlace /\ (queued \/ Waiting = {})
    /\ worker' = [worker EXCEPT ![received] = "upload"]
    /\ received' = NoWal
    /\ queued' = FALSE
    /\ UNCHANGED <<storeVars, errors, scanner, started, cancelled, numUploaded, stop>>

\* Acquire(ctx, 1) waits for a place, ahead of a later Stop.
AcquireQueue ==
    /\ received # NoWal /\ ~queued
    /\ ~HasPlace /\ Waiting \cup Stopped = {}
    /\ queued' = TRUE
    /\ UNCHANGED <<storeVars, errors, scanner, started, received, cancelled, worker, numUploaded, stop>>

\* Acquire(ctx, 1) returns the error of the context: no place came free, or a Stop
\* is ahead.
AcquireFails ==
    /\ received # NoWal /\ cancelled
    /\ IF queued THEN ~HasPlace ELSE Waiting \cup Stopped # {}
    /\ received' = NoWal
    /\ queued' = FALSE
    /\ UNCHANGED <<storeVars, errors, scanner, started, cancelled, worker, numUploaded, stop>>

-----------------------------------------------------------------------------
(* The upload goroutine of segment s *)

\* Mutant: only files known to be equal are not uploaded again.
CheckWALOverwriteUnlessEqual(s) ==
    IF PreventWalOverwrite /\ archive[s] = "same" THEN "skip" ELSE "put"

\* checkWALOverwrite, where it is on: what to do about the archived file of s.
CheckWALOverwrite(s) ==
    CASE ~PreventWalOverwrite \/ archive[s] = "absent" -> "put"
      [] PreventWalOverwrite /\ archive[s] = "same" -> "skip"
      [] OTHER -> "refuse"

\* Mutant: a refused file passes for an archived one.
WorkerCheckRefusedIsFine(s) ==
    /\ worker[s] = "upload"
    /\ worker' = [worker EXCEPT ![s] = IF CheckWALOverwrite(s) = "put" THEN "put" ELSE "mark"]
    /\ UNCHANGED <<storeVars, errors, scanner, procVars, cancelled, numUploaded, stop>>

WorkerCheck(s) ==
    /\ worker[s] = "upload"
    /\ worker' = [worker EXCEPT ![s] = CASE CheckWALOverwrite(s) = "put" -> "put"
                                         [] CheckWALOverwrite(s) = "skip" -> "mark"
                                         [] OTHER -> "giveup"]
    /\ UNCHANGED <<storeVars, errors, scanner, procVars, cancelled, numUploaded, stop>>

WorkerPut(s) ==
    /\ worker[s] = "put"
    /\ archive' = [archive EXCEPT ![s] = "same"]
    /\ worker' = [worker EXCEPT ![s] = "mark"]
    /\ UNCHANGED <<status, marked, errors, scanner, procVars, cancelled, numUploaded, stop>>

WorkerFails(s) ==
    /\ worker[s] \in {"upload", "put"} /\ errors < MaxErrors
    /\ errors' = errors + 1
    /\ worker' = [worker EXCEPT ![s] = "giveup"]
    /\ UNCHANGED <<storeVars, scanner, procVars, cancelled, numUploaded, stop>>

\* MarkWalUploaded; its error is only logged.
WorkerMark(s) ==
    /\ worker[s] = "mark"
    /\ \/ marked' = marked \cup {s} /\ UNCHANGED errors
       \/ errors < MaxErrors /\ errors' = errors + 1 /\ UNCHANGED marked
    /\ worker' = [worker EXCEPT ![s] = IF ReadyRename THEN "rename" ELSE "release"]
    /\ UNCHANGED <<status, archive, scanner, procVars, cancelled, numUploaded, stop>>

\* RenameReady; its error is only logged.
WorkerRename(s) ==
    /\ worker[s] = "rename"
    /\ \/ status' = [status EXCEPT ![s] = "done"] /\ UNCHANGED errors
       \/ errors < MaxErrors /\ errors' = errors + 1 /\ UNCHANGED status
    /\ worker' = [worker EXCEPT ![s] = "release"]
    /\ UNCHANGED <<marked, archive, scanner, procVars, cancelled, numUploaded, stop>>

\* Mutant: a failed upload keeps its place.
WorkerReleaseOnSuccess(s) ==
    /\ worker[s] = "release"
    /\ worker' = [worker EXCEPT ![s] = "count"]
    /\ UNCHANGED <<storeVars, errors, scanner, procVars, cancelled, numUploaded, stop>>

\* Release(1) comes before the upload is counted.
WorkerRelease(s) ==
    /\ worker[s] \in {"release", "giveup"}
    /\ worker' = [worker EXCEPT ![s] = IF @ = "release" THEN "count" ELSE "failed"]
    /\ UNCHANGED <<storeVars, errors, scanner, procVars, cancelled, numUploaded, stop>>

WorkerCount(s) ==
    /\ worker[s] = "count"
    /\ numUploaded' = numUploaded + 1
    /\ cancelled' = (cancelled \/ numUploaded' >= MaxNumUploaded)
    /\ worker' = [worker EXCEPT ![s] = "counted"]
    /\ UNCHANGED <<storeVars, errors, scanner, procVars, stop>>

Worker(s) ==
    \/ WorkerCheck(s) \/ WorkerPut(s) \/ WorkerFails(s) \/ WorkerMark(s) \/ WorkerRename(s)
    \/ WorkerRelease(s) \/ WorkerCount(s)

-----------------------------------------------------------------------------
(* Stop *)

StopCancel(c) ==
    /\ stop[c] = "no"
    /\ cancelled' = TRUE
    /\ stop' = [stop EXCEPT ![c] = "cancelled"]
    /\ UNCHANGED <<storeVars, errors, scanner, procVars, worker, numUploaded>>

\* All places are free, and processFiles does not come first.
AllFree == Running = {} /\ ~queued /\ (Stopped = {} \/ MaxParallelWorkers = 0)

\* Mutant: Stop does not wait for the running uploads.
StopAcquireNothing(c) ==
    /\ stop[c] = "cancelled"
    /\ stop' = [stop EXCEPT ![c] = "returned"]
    /\ UNCHANGED <<storeVars, errors, scanner, procVars, cancelled, worker, numUploaded>>

\* Acquire(all places): at once, or after a wait that lets no one else in.
StopAcquire(c) ==
    /\ \/ /\ stop[c] = "cancelled"
          /\ stop' = [stop EXCEPT ![c] = IF AllFree /\ Waiting = {} THEN "returned" ELSE "waiting"]
       \/ /\ stop[c] = "waiting" /\ AllFree
          /\ stop' = [stop EXCEPT ![c] = "returned"]
    /\ UNCHANGED <<storeVars, errors, scanner, procVars, cancelled, worker, numUploaded>>

Stop(c) == StopCancel(c) \/ StopAcquire(c)

-----------------------------------------------------------------------------
(* A BgUploader by itself, beside an upload of segment 1 *)

Scanner == ScanNext \/ ReadDir \/ PollPause \/ ScanEnds
Processor == ProcessFile \/ AcquireWorker \/ AcquireQueue \/ AcquireFails
BgStep == Scanner \/ Processor \/ (\E s \in Segments : Worker(s))

BgInit ==
    /\ status = [s \in Segments |-> "ready"]
    /\ marked = {}
    /\ archive = [s \in Segments |-> "absent"]
    /\ errors = 0
    /\ scanner = StartedScanner(1)
    /\ started = {1}
    /\ received = NoWal
    /\ queued = FALSE
    /\ cancelled = FALSE
    /\ worker = [s \in Segments |-> "none"]
    /\ numUploaded = 0
    /\ stop = [c \in Callers |-> "no"]

allBgVars == <<storeVars, errors, bgVars>>

BgNext == BgStep \/ \E c \in Callers : Stop(c)

\* Each goroutine is scheduled fairly, and uploads end.
BgFairness ==
    /\ WF_allBgVars(Scanner)
    /\ WF_allBgVars(Processor)
    /\ \A s \in Segments : WF_allBgVars(Worker(s))
    /\ \A c \in Callers : WF_allBgVars(Stop(c))

BgSpec == BgInit /\ [][BgNext]_allBgVars /\ BgFairness

\* "Actual number of files uploaded may be up to maxParallelWorkers higher than this
\* setting": goroutines that gave back their place are counted too late for that.
UploadedBounded == Cardinality(Uploaded) <= MaxNumUploaded + MaxParallelWorkers

\* "Stop can be safely called concurrently and repeatedly": each call returns.
StopReturns == \A c \in Callers : stop[c] = "cancelled" ~> stop[c] = "returned"
=============================================================================
