--------------------------- MODULE WalProofs ---------------------------
(***************************************************************************)
(* The segments PostgreSQL hands over and asks for.                        *)
(*                                                                         *)
(* wal-push, for every number of segments, workers and crashes: what       *)
(* PostgreSQL considers archived is archived, no segment has two           *)
(* uploaders, and prevented overwrites do not happen.                      *)
(*                                                                         *)
(* wal-fetch, for every archive, segment size and number of prefetchers:   *)
(* it reports success only with the whole segment at location, as long as  *)
(* recovery never asks for an earlier segment again.                       *)
(***************************************************************************)
EXTENDS WalPush, WalFetch, TLAPS

-----------------------------------------------------------------------------
(* wal-push *)

\* The shape of the state that the steps rely on.
ShapeInv ==
    /\ status \in [Segments -> {"open", "ready", "done"}]
    /\ marked \subseteq Segments
    /\ archive \in [Segments -> {"absent", "same", "other"}]
    /\ scanner = [pc |-> scanner.pc, at |-> scanner.at, sent |-> scanner.sent,
                  list |-> scanner.list]
    /\ worker \in [Segments -> Holding \cup {"none", "count", "counted", "failed"}]
    /\ push \in [pc : {"idle", "unmark", "check", "put", "meta", "lastmeta", "stop", "flush", "ok"},
                 wal : Segments \cup {NoWal}]
    /\ push.pc # "idle" => push.wal \in Segments

\* Whoever is about to mark, rename or report a segment has it in the archive.
StoredInv ==
    /\ \A s \in marked : archive[s] = "same"
    /\ \A s \in Segments : worker[s] \in {"mark", "rename"} => archive[s] = "same"
    /\ push.pc \in {"unmark", "lastmeta", "meta", "stop", "flush", "ok"} =>
         archive[push.wal] = "same"
    /\ \A s \in Segments : status[s] = "done" => archive[s] = "same"

\* Whoever is about to upload has seen that nothing else is there.
PutInv ==
    PreventWalOverwrite =>
        /\ \A s \in Segments : worker[s] = "put" => archive[s] # "other"
        /\ push.pc = "put" => archive[push.wal] # "other"

\* The segment of HandleWALPush is in started while the background uploader is at
\* work, so processFiles never takes it.
StartedInv ==
    /\ scanner.pc = "off" => scanner.list = <<>>
    /\ scanner.pc # "off" => push.pc # "idle" /\ push.wal \in started
    /\ received # NoWal => push.pc # "idle" /\ received # push.wal
    /\ \A s \in Segments : worker[s] # "none" => push.pc # "idle" /\ s # push.wal

IInv == ShapeInv /\ StoredInv /\ PutInv /\ StartedInv

\* The invariant holds before PostgreSQL has completed a segment.
LEMMA InvInit == Init => IInv
  BY DEF Init, IInv, ShapeInv, StoredInv, PutInv, StartedInv, IdleScanner, IdlePush, Holding,
         Segments, NoWal

\* The end of a process leaves marks, status files and archive to the next one.
LEMMA ExitKeeps ==
    ASSUME IInv, ProcessExits, UNCHANGED <<marked, archive>>,
           status' \in [Segments -> {"open", "ready", "done"}],
           \A s \in Segments : status'[s] = "done" => archive[s] = "same"
    PROVE  IInv'
  BY Zenon
     DEF IInv, ShapeInv, StoredInv, PutInv, StartedInv, ProcessExits, IdleScanner, IdlePush, Holding,
         Segments, NoWal

\* A step of PostgreSQL or its archiver preserves the invariant.
LEMMA ArchiverStep ==
    ASSUME IInv, NEW s \in Segments, SegmentReady(s) \/ ArchiveCommand(s)
    PROVE  IInv'
  <1>1. CASE SegmentReady(s)
    BY <1>1 DEF SegmentReady, IInv, ShapeInv, StoredInv, PutInv, StartedInv, bgVars, procVars
  <1>2. CASE ArchiveCommand(s)
    <2>1. CASE s \in marked
      BY <1>2, <2>1 DEF ArchiveCommand, IInv, ShapeInv, StoredInv, PutInv, StartedInv, bgVars,
                        procVars, storeVars
    <2>2. CASE s \notin marked
      BY <1>2, <2>2 DEF ArchiveCommand, StartBgUploader, StartedScanner, IdleScanner, IInv,
                        ShapeInv, StoredInv, PutInv, StartedInv, storeVars, Holding, NoWal,
                        Segments
    <2> QED  BY <2>1, <2>2, Zenon
  <1> QED  BY <1>1, <1>2, Zenon

\* A step of HandleWALPush preserves the invariant.
LEMMA MainStep == ASSUME IInv, HandleWALPush PROVE IInv'
  <1> USE DEF IInv
  <1>1. CASE UnmarkWalFile
    BY <1>1, Zenon DEF UnmarkWalFile, Goto, ShapeInv, StoredInv, PutInv, StartedInv, bgVars, procVars
  <1>2. CASE MainCheck
    <2>1. CASE CheckWALOverwrite(push.wal) \in {"put", "skip"}
      BY <1>2, <2>1 DEF MainCheck, CheckWALOverwrite, Goto, ShapeInv, StoredInv, PutInv,
                        StartedInv, bgVars, procVars, storeVars
    <2>2. CASE CheckWALOverwrite(push.wal) \notin {"put", "skip"}
      <3>1. ProcessExits /\ UNCHANGED storeVars
        BY <1>2, <2>2, Zenon DEF MainCheck
      <3> QED  BY <3>1, ExitKeeps, Zenon DEF storeVars, ShapeInv, StoredInv
    <2> QED  BY <2>1, <2>2, Zenon
  <1>3. CASE MainPut
    BY <1>3 DEF MainPut, Goto, ShapeInv, StoredInv, PutInv, StartedInv, bgVars, procVars
  <1>4. CASE UploadLocalWalMetadata
    BY <1>4, Zenon
       DEF UploadLocalWalMetadata, Goto, ShapeInv, StoredInv, PutInv, StartedInv, bgVars, procVars,
           storeVars
  <1>5. CASE MainStop
    BY <1>5 DEF MainStop, Stop, StopCancel, StopAcquire, ShapeInv, StoredInv, PutInv, StartedInv,
                procVars, storeVars
  <1>6. CASE FlushFiles
    BY <1>6, Zenon DEF FlushFiles, Goto, ShapeInv, StoredInv, PutInv, StartedInv, bgVars, procVars, storeVars
  <1> QED  BY <1>1, <1>2, <1>3, <1>4, <1>5, <1>6, Zenon DEF HandleWALPush

\* A step of the scanner or of processFiles preserves the invariant.
LEMMA ScanStep == ASSUME IInv, Scanner \/ Processor, UNCHANGED push PROVE IInv'
  <1> USE DEF IInv, ShapeInv, StoredInv, PutInv, StartedInv, storeVars, procVars
  <1>1. CASE ScanNext
    BY <1>1, Zenon DEF ScanNext
  <1>2. CASE ReadDir
    <2> DEFINE l == SelectSeq([s \in Segments |-> s], LAMBDA s : status[s] = "ready")
    <2>1. scanner' = [scanner EXCEPT !.pc = "list", !.list = l]
      BY <1>2, Zenon DEF ReadDir
    <2> HIDE DEF l
    <2> QED  BY <1>2, <2>1, Zenon DEF ReadDir
  <1>3. CASE PollPause
    BY <1>3, Zenon DEF PollPause
  <1>4. CASE ScanEnds
    BY <1>4, Zenon DEF ScanEnds, IdleScanner
  <1>5. CASE ProcessFile
    <2> DEFINE h == Head(scanner.list)
               t == Tail(scanner.list)
    <2>1. /\ scanner' = [scanner EXCEPT !.list = t]
          /\ IF h \in marked \cup started
               THEN UNCHANGED <<started, received>>
               ELSE started' = started \cup {h} /\ received' = h
      BY <1>5, Zenon DEF ProcessFile
    <2>2. scanner.pc # "off"
      BY <1>5, Zenon DEF ProcessFile
    <2>3. UNCHANGED <<status, marked, archive, worker, push>>
      BY <1>5, Zenon DEF ProcessFile
    <2> HIDE DEF h, t
    <2> QED  BY <2>1, <2>2, <2>3
  <1>6. CASE AcquireWorker
    <2>1. /\ received # NoWal /\ received' = NoWal
          /\ worker' = [worker EXCEPT ![received] = "upload"]
          /\ UNCHANGED <<status, marked, archive, scanner, started>>
      BY <1>6, Zenon DEF AcquireWorker
    <2>2. \A s \in Segments : worker'[s] = worker[s] \/ (s = received /\ worker'[s] = "upload")
      BY <2>1
    <2>3. worker' \in [Segments -> Holding \cup {"none", "count", "counted", "failed"}]
      BY <2>1, Zenon DEF Holding
    <2>4. ShapeInv'
      BY <2>1, <2>3, Zenon
    <2>5. StoredInv' /\ PutInv'
      BY <2>1, <2>2
    <2>6. StartedInv'
      BY <2>1, <2>2
    <2> QED  BY <2>4, <2>5, <2>6, Zenon
  <1>7. CASE AcquireQueue
    BY <1>7, Zenon DEF AcquireQueue
  <1>8. CASE AcquireFails
    BY <1>8, Zenon DEF AcquireFails
  <1> QED  BY <1>1, <1>2, <1>3, <1>4, <1>5, <1>6, <1>7, <1>8, Zenon DEF Scanner, Processor

\* A step of an upload goroutine preserves the invariant.
LEMMA WorkerStep ==
    ASSUME IInv, NEW s \in Segments, Worker(s), UNCHANGED push
    PROVE  IInv'
  <1> USE DEF IInv, ShapeInv, StoredInv, PutInv, StartedInv, storeVars, procVars, Holding
  <1>1. CASE WorkerCheck(s)
    BY <1>1 DEF WorkerCheck, CheckWALOverwrite
  <1>2. CASE WorkerPut(s)
    BY <1>2 DEF WorkerPut
  <1>3. CASE WorkerFails(s)
    BY <1>3 DEF WorkerFails
  <1>4. CASE WorkerMark(s)
    BY <1>4 DEF WorkerMark
  <1>5. CASE WorkerRename(s)
    BY <1>5 DEF WorkerRename
  <1>6. CASE WorkerRelease(s)
    BY <1>6 DEF WorkerRelease
  <1>7. CASE WorkerCount(s)
    BY <1>7 DEF WorkerCount
  <1> QED  BY <1>1, <1>2, <1>3, <1>4, <1>5, <1>6, <1>7, Zenon DEF Worker

\* The invariant is inductive.
LEMMA InvStep == ASSUME IInv, [Next]_vars PROVE IInv'
  <1>1. CASE \E s \in Segments : SegmentReady(s) \/ ArchiveCommand(s)
    BY <1>1, ArchiverStep, Zenon
  <1>2. CASE CommandSucceeds
    BY <1>2, ExitKeeps DEF CommandSucceeds, IInv, ShapeInv, StoredInv
  <1>3. CASE Crash
    BY <1>3, ExitKeeps, Zenon DEF Crash, IInv, ShapeInv, StoredInv, storeVars
  <1>4. CASE HandleWALPush
    BY <1>4, MainStep, Zenon
  <1>5. CASE BgUploaderStep
    BY <1>5, ScanStep, WorkerStep, Zenon DEF BgUploaderStep, BgStep
  <1>6. CASE UNCHANGED vars
    BY <1>6 DEF vars, storeVars, bgVars, procVars, IInv, ShapeInv, StoredInv, PutInv, StartedInv
  <1> QED  BY <1>1, <1>2, <1>3, <1>4, <1>5, <1>6, Zenon DEF Next, AllDone

\* The invariant holds throughout.
THEOREM Invariant == Spec => []IInv
  BY InvInit, InvStep, PTL DEF Spec

\* PostgreSQL never considers a segment archived that the archive does not hold.
THEOREM ArchivedBeforeDone == Spec => []DoneIsArchived
  <1>1. IInv => DoneIsArchived
    BY Zenon DEF IInv, StoredInv, DoneIsArchived
  <1> QED  BY <1>1, Invariant, PTL

\* HandleWALPush and the background uploader never upload the same segment at once.
THEOREM SingleUploader == Spec => []OneUploader
  <1>1. IInv => OneUploader
    BY Zenon DEF IInv, StartedInv, OneUploader, Running, Holding
  <1> QED  BY <1>1, Invariant, PTL

\* A step that uploads finds no other content in the archive, when that is prevented.
LEMMA OverwriteStep ==
    ASSUME IInv, Next, PreventWalOverwrite, NEW s \in Segments, archive[s] = "other"
    PROVE  archive'[s] = "other"
  <1>1. CASE MainPut
    BY <1>1, Zenon DEF MainPut, IInv, ShapeInv, PutInv
  <1>2. CASE \E r \in Segments : WorkerPut(r)
    BY <1>2 DEF WorkerPut, IInv, ShapeInv, PutInv
  <1>3. CASE ~MainPut /\ ~(\E r \in Segments : WorkerPut(r))
    <2>1. UNCHANGED archive
      <3>1. CASE HandleWALPush
        BY <1>3, <3>1, Zenon
           DEF HandleWALPush, UnmarkWalFile, MainCheck, UploadLocalWalMetadata, MainStop, Stop, StopCancel,
               StopAcquire, FlushFiles, storeVars
      <3>2. CASE Scanner \/ Processor
        BY <3>2, Zenon
           DEF Scanner, ScanNext, ReadDir, PollPause, ScanEnds, Processor, ProcessFile, AcquireWorker,
               AcquireQueue, AcquireFails, storeVars
      <3>3. CASE \E r \in Segments : Worker(r)
        BY <1>3, <3>3, Zenon
           DEF Worker, WorkerCheck, WorkerFails, WorkerMark, WorkerRename, WorkerRelease, WorkerCount,
               storeVars
      <3>4. CASE ~HandleWALPush /\ ~BgUploaderStep
        BY <3>4, Zenon DEF Next, SegmentReady, ArchiveCommand, CommandSucceeds, Crash, AllDone, vars, storeVars
      <3> QED  BY <3>1, <3>2, <3>3, <3>4, Zenon DEF BgUploaderStep, BgStep
    <2> QED  BY <2>1, Zenon
  <1> QED  BY <1>1, <1>2, <1>3, Zenon

\* WALG_PREVENT_WAL_OVERWRITE prevents overwriting by wal-push.
THEOREM OverwritePrevented == Spec => NoOverwrite
  <1>1. ASSUME IInv, [Next]_vars
        PROVE  [PreventWalOverwrite =>
                  \A s \in Segments : archive[s] = "other" => archive'[s] = "other"]_vars
    BY <1>1, OverwriteStep, Zenon
  <1> QED  BY <1>1, Invariant, PTL DEF Spec, NoOverwrite

-----------------------------------------------------------------------------
(* wal-fetch *)

Steps == {"new", "create", "open", "copy", "rename", "done"}

FetchPlaces ==
    {"idle", "prefetched", "running", "rename", "magic", "download", "return", "restored", "failed"}

\* The shape of the state that the steps rely on.
FetchShape ==
    /\ running \in [WalNames -> Prefetchers \cup {None}]
    /\ prefetched \in [WalNames -> Prefetchers \cup {None}]
    /\ size \in [Prefetchers -> 0 .. Full]
    /\ pre \in [Prefetchers -> [at : Steps, file : Nat]]
    /\ forked \subseteq 1 .. Last
    /\ at \in FetchPlaces /\ wanted \in 1 .. Last + 1
    /\ at # "idle" => wanted <= Last
    /\ taken \in Prefetchers \cup {None}

\* A file grows only as long as it is short of a whole segment.
GrowInv ==
    \A p \in Prefetchers :
        /\ pre[p].at # "new" => pre[p].file \in WalNames
        /\ pre[p].at \in {"new", "create", "open"} => size[p] = 0
        /\ pre[p].at = "copy" => size[p] < Full

\* p has created its file, of name f.
Wrote(p, f) == pre[p].file = f /\ pre[p].at \notin {"new", "create"}

\* A file of a name was written by a prefetcher of that name.
NameInv ==
    \A f \in WalNames :
        /\ running[f] # None => Wrote(running[f], f)
        /\ prefetched[f] # None => Wrote(prefetched[f], f)

FileInv == GrowInv /\ NameInv

\* Only segments before the one in work are cleaned up behind wal-fetch's back.
ForkInv == \A w \in forked : w < wanted \/ (w = wanted /\ at = "restored")

\* The file that was found to be whole is still there when it is moved, and stays whole.
TakenInv ==
    /\ at = "rename" => prefetched[wanted] # None /\ size[prefetched[wanted]] = Full
    /\ at = "magic" => taken # None
    /\ at \in {"magic", "return", "restored"} /\ taken # None =>
        location = Full /\ size[taken] = Full /\ pre[taken].file = wanted
    /\ at \in {"return", "restored"} /\ taken = None => location = Full

FetchInv == FetchShape /\ FileInv /\ ForkInv /\ TakenInv

\* The invariant holds before the first segment is asked for.
LEMMA FetchInvInit == FetchInit => FetchInv
  <1> USE FetchAssumption
  <1> SUFFICES ASSUME FetchInit PROVE FetchInv
    OBVIOUS
  <1>1. FetchShape
    BY DEF FetchInit, FetchShape, Steps, FetchPlaces, WalNames
  <1>2. FileInv /\ ForkInv /\ TakenInv
    BY Zenon DEF FetchInit, FileInv, GrowInv, NameInv, Wrote, ForkInv, TakenInv, WalNames
  <1> QED  BY <1>1, <1>2, Zenon DEF FetchInv

\* A step of wal-fetch, or of the server that runs it, preserves the invariant.
LEMMA FetchStep ==
    ASSUME FetchInv, Fetch, "goesback" \notin Unusual
    PROVE  FetchInv'
  <1> USE FetchAssumption DEF FetchInv
  <1>1. CASE HandleWALFetch
    BY <1>1, Zenon
       DEF HandleWALFetch, FetchShape, FileInv, GrowInv, NameInv, Wrote, ForkInv, TakenInv, FetchPlaces
  <1>2. CASE StatPrefetched
    BY <1>2, Zenon
       DEF StatPrefetched, FetchShape, FileInv, GrowInv, NameInv, Wrote, ForkInv, TakenInv, FetchPlaces,
           WalNames
  <1>3. CASE RenamePrefetched
    <2>1. wanted \in WalNames /\ prefetched[wanted] \in Prefetchers
      BY <1>3 DEF RenamePrefetched, FetchShape, TakenInv, WalNames
    <2>2. FetchShape'
      BY <1>3, <2>1, Zenon DEF RenamePrefetched, FetchShape, FetchPlaces
    <2>3. FileInv'
      BY <1>3, <2>1 DEF RenamePrefetched, FetchShape, FileInv, GrowInv, NameInv, Wrote
    <2>4. ForkInv' /\ TakenInv'
      BY <1>3, <2>1, Zenon DEF RenamePrefetched, FetchShape, FileInv, GrowInv, NameInv, Wrote, ForkInv, TakenInv
    <2> QED  BY <2>2, <2>3, <2>4, Zenon
  <1>4. CASE checkWALFileMagic
    BY <1>4, Zenon
       DEF checkWALFileMagic, FetchShape, FileInv, GrowInv, NameInv, Wrote, ForkInv, TakenInv, FetchPlaces
  <1>5. CASE StatRunning
    BY <1>5, Zenon DEF StatRunning, FetchShape, FileInv, GrowInv, NameInv, Wrote, ForkInv, TakenInv, FetchPlaces
  <1>6. CASE DownloadFileTo
    BY <1>6, Zenon
       DEF DownloadFileTo, FetchShape, FileInv, GrowInv, NameInv, Wrote, ForkInv, TakenInv, FetchPlaces
  <1>7. CASE Return
    <2>1. wanted \in WalNames /\ wanted \in 1 .. Last
      BY <1>7 DEF Return, FetchShape, WalNames
    <2>2. FetchShape' /\ ForkInv' /\ TakenInv'
      BY <1>7, <2>1, Zenon DEF Return, FetchShape, FetchPlaces, ForkInv, TakenInv
    <2>3. FileInv'
      BY <1>7, <2>1 DEF Return, FetchShape, FileInv, GrowInv, NameInv, Wrote
    <2> QED  BY <2>2, <2>3, Zenon
  <1>8. CASE NextSegment
    BY <1>8 DEF NextSegment, FetchShape, FileInv, GrowInv, NameInv, Wrote,
        ForkInv, TakenInv, FetchPlaces
  <1> QED  BY <1>1, <1>2, <1>3, <1>4, <1>5, <1>6, <1>7, <1>8, Zenon DEF Fetch

\* A step of a prefetcher preserves the invariant, whoever else is at its segment.
LEMMA PrefetcherStep ==
    ASSUME FetchInv, NEW p \in Prefetchers,
           \/ PrefetchFile(p) \/ CreateRunning(p) \/ OpenArchive(p) \/ FastCopy(p) \/ CopyFails(p)
           \/ RenameRunning(p) \/ PrefetchDies(p)
    PROVE  FetchInv'
  <1> USE FetchAssumption DEF FetchInv, walfetch
  <1>1. CASE PrefetchFile(p)
    <2>1. PICK w \in forked, n \in 1 .. Concurrency :
            pre' = [pre EXCEPT ![p] =
                [at |-> IF running[w + n] = None /\ prefetched[w + n] = None THEN "create" ELSE "done",
                 file |-> w + n]]
      BY <1>1, Zenon DEF PrefetchFile
    <2>2. w + n \in WalNames /\ w + n \in Nat
      BY DEF FetchShape, WalNames
    <2>3. pre'[p].file = w + n /\ pre'[p].at \in {"create", "done"}
          /\ \A q \in Prefetchers \ {p} : pre'[q] = pre[q]
      BY <2>1, Zenon DEF FetchShape
    <2>4. FetchShape'
      BY <1>1, <2>1, <2>2, Zenon DEF PrefetchFile, FetchShape, Steps
    <2>5. FileInv'
      <3>1. GrowInv'
        BY <1>1, <2>2, <2>3, Zenon DEF PrefetchFile, FetchShape, FileInv, GrowInv
      <3>2. \A q \in Prefetchers, f \in WalNames : Wrote(q, f) => Wrote(q, f)'
        BY <1>1, <2>3, Zenon DEF PrefetchFile, Wrote
      <3>3. NameInv'
        BY <1>1, <3>2, Zenon DEF PrefetchFile, FetchShape, FileInv, NameInv
      <3> QED  BY <3>1, <3>3, Zenon DEF FileInv
    <2>6. taken # None /\ size[taken] = Full => taken # p
      BY <1>1, Zenon DEF PrefetchFile, FetchShape, FileInv, GrowInv, NameInv, Wrote
    <2>7. ForkInv' /\ TakenInv'
      BY <1>1, <2>3, <2>6, Zenon DEF PrefetchFile, FetchShape, ForkInv, TakenInv
    <2> QED  BY <2>4, <2>5, <2>7, Zenon
  <1>2. CASE CreateRunning(p)
    <2>1. pre[p].file \in WalNames
      BY <1>2, Zenon DEF CreateRunning, FileInv, GrowInv, NameInv, Wrote
    <2>2. /\ pre'[p].file = pre[p].file /\ \A q \in Prefetchers \ {p} : pre'[q] = pre[q]
          /\ pre'[p].at = IF running[pre[p].file] = None THEN "open" ELSE "rename"
          /\ running' = IF running[pre[p].file] = None THEN [running EXCEPT ![pre[p].file] = p] ELSE running
      BY <1>2 DEF CreateRunning, FetchShape
    <2>3. FetchShape'
      <3>1. pre' = [pre EXCEPT ![p].at = IF running[pre[p].file] = None THEN "open" ELSE "rename"]
        BY <1>2, Zenon DEF CreateRunning
      <3>2. pre' \in [Prefetchers -> [at : Steps, file : Nat]]
        BY <3>1 DEF FetchShape, Steps
      <3> QED  BY <1>2, <2>1, <2>2, <3>2, Zenon DEF CreateRunning, FetchShape
    <2>4. FileInv'
      <3>1. GrowInv'
        BY <1>2, <2>1, <2>2 DEF CreateRunning, FetchShape, FileInv, GrowInv
      <3>2. \A q \in Prefetchers, f \in WalNames : Wrote(q, f) => Wrote(q, f)'
        BY <1>2, <2>2, Zenon DEF CreateRunning, Wrote
      <3>3. Wrote(p, pre[p].file)'
        BY <2>2, Zenon DEF Wrote
      <3>4. NameInv'
        BY <1>2, <2>2, <3>2, <3>3 DEF CreateRunning, FetchShape, FileInv, NameInv
      <3> QED  BY <3>1, <3>4, Zenon DEF FileInv
    <2>5. ForkInv' /\ TakenInv'
      BY <1>2, <2>2, Zenon DEF CreateRunning, FetchShape, ForkInv, TakenInv
    <2> QED  BY <2>3, <2>4, <2>5, Zenon
  <1>3. CASE OpenArchive(p)
    <2>1. pre[p].file \in WalNames
      BY <1>3, Zenon DEF OpenArchive, FileInv, GrowInv, NameInv, Wrote
    <2>2. /\ pre'[p].file = pre[p].file /\ \A q \in Prefetchers \ {p} : pre'[q] = pre[q]
          /\ pre'[p].at = IF pre[p].file <= Last THEN "copy" ELSE "rename"
          /\ running' = IF pre[p].file <= Last THEN running ELSE [running EXCEPT ![pre[p].file] = None]
      BY <1>3 DEF OpenArchive, FetchShape
    <2>3. FetchShape'
      <3>1. pre' = [pre EXCEPT ![p].at = IF pre[p].file <= Last THEN "copy" ELSE "rename"]
        BY <1>3, Zenon DEF OpenArchive
      <3>2. pre' \in [Prefetchers -> [at : Steps, file : Nat]]
        BY <3>1 DEF FetchShape, Steps
      <3> QED  BY <1>3, <2>1, <2>2, <3>2, Zenon DEF OpenArchive, FetchShape
    <2>4. ForkInv' /\ TakenInv'
      BY <1>3, <2>2, Zenon DEF OpenArchive, FetchShape, ForkInv, TakenInv
    <2>5. FileInv'
      <3>1. GrowInv'
        BY <1>3, <2>1, <2>2 DEF OpenArchive, FetchShape, FileInv, GrowInv
      <3>2. \A q \in Prefetchers, f \in WalNames : Wrote(q, f) => Wrote(q, f)'
        BY <1>3, <2>2, Zenon DEF OpenArchive, Wrote
      <3>3. NameInv'
        BY <1>3, <2>2, <3>2 DEF OpenArchive, FetchShape, FileInv, NameInv
      <3> QED  BY <3>1, <3>3, Zenon DEF FileInv
    <2> QED  BY <2>3, <2>4, <2>5, Zenon
  <1>4. CASE FastCopy(p)
    <2>1. size[p] < Full /\ size[p] + 1 \in 0 .. Full
      BY <1>4 DEF FastCopy, FetchShape, FileInv, GrowInv, NameInv, Wrote
    <2>2. FetchShape'
      BY <1>4, <2>1 DEF FastCopy, FetchShape, Steps
    <2>3. FileInv'
      BY <1>4, <2>1 DEF FastCopy, FetchShape, FileInv, GrowInv, NameInv, Wrote
    <2>4. ForkInv' /\ TakenInv'
      <3>1. /\ \A q \in Prefetchers : size[q] = Full => size'[q] = Full /\ pre'[q].file = pre[q].file
            /\ at = "rename" => prefetched[wanted] \in Prefetchers
        BY <1>4, <2>1 DEF FastCopy, FetchShape, TakenInv, WalNames
      <3> QED  BY <1>4, <3>1, Zenon DEF FastCopy, FetchShape, ForkInv, TakenInv
    <2> QED  BY <2>2, <2>3, <2>4, Zenon
  <1>5. CASE CopyFails(p)
    BY <1>5 DEF CopyFails, FetchShape, FileInv, GrowInv, NameInv, Wrote,
        ForkInv, TakenInv, Steps
  <1>6. CASE RenameRunning(p)
    <2>1. pre[p].file \in WalNames
      BY <1>6, Zenon DEF RenameRunning, FileInv, GrowInv, NameInv, Wrote
    <2>2. /\ pre'[p].file = pre[p].file /\ \A q \in Prefetchers \ {p} : pre'[q] = pre[q]
          /\ pre[p].at = "rename" /\ pre'[p].at = "done"
      BY <1>6, Zenon DEF RenameRunning, FetchShape
    <2>3. FetchShape'
      BY <1>6, <2>1 DEF RenameRunning, FetchShape, Steps
    <2>4. FileInv'
      <3>1. GrowInv'
        BY <1>6, <2>1, <2>2 DEF RenameRunning, FetchShape, FileInv, GrowInv
      <3>2. \A q \in Prefetchers, f \in WalNames : Wrote(q, f) => Wrote(q, f)'
        BY <2>2, Zenon DEF Wrote
      <3>3. NameInv'
        BY <1>6, <2>1, <3>2, Zenon DEF RenameRunning, FetchShape, FileInv, NameInv
      <3> QED  BY <3>1, <3>3, Zenon DEF FileInv
    <2>5. ForkInv' /\ TakenInv'
      <3>1. at = "rename" => wanted \in WalNames
        BY DEF FetchShape, WalNames
      <3>2. at = "rename" => prefetched'[wanted] = prefetched[wanted]
        BY <1>6, <2>1, <3>1, Zenon DEF RenameRunning, FetchShape, TakenInv
      <3> QED  BY <1>6, <2>2, <3>2 DEF RenameRunning, FetchShape, ForkInv, TakenInv
    <2> QED  BY <2>3, <2>4, <2>5, Zenon
  <1>7. CASE PrefetchDies(p)
    BY <1>7 DEF PrefetchDies, FetchShape, FileInv, GrowInv, NameInv, Wrote,
        ForkInv, TakenInv, Steps
  <1> QED  BY <1>1, <1>2, <1>3, <1>4, <1>5, <1>6, <1>7, Zenon

\* What a prefetcher cleans up is older than the segment in work.
LEMMA CleanupStep ==
    ASSUME FetchInv, NEW w \in WalNames, CleanupPrefetchDirectory(w)
    PROVE  FetchInv'
  <1> USE FetchAssumption DEF FetchInv, walfetch
  <1>1. PICK f \in WalNames :
          /\ f < w
          /\ \/ prefetched' = [prefetched EXCEPT ![f] = None] /\ UNCHANGED running
             \/ running' = [running EXCEPT ![f] = None] /\ UNCHANGED prefetched
    BY Zenon DEF CleanupPrefetchDirectory
  <1>2. f # wanted
    BY <1>1 DEF CleanupPrefetchDirectory, ForkInv, FetchShape, WalNames
  <1>3. \A g \in WalNames :
          /\ running'[g] \in {running[g], None} /\ prefetched'[g] \in {prefetched[g], None}
          /\ g # f => prefetched'[g] = prefetched[g]
    BY <1>1, Zenon DEF FetchShape
  <1>4. FetchShape'
    BY <1>1, Zenon DEF CleanupPrefetchDirectory, FetchShape
  <1>5. FileInv'
    <2>1. GrowInv'
      BY Zenon DEF CleanupPrefetchDirectory, FileInv, GrowInv
    <2>2. \A q \in Prefetchers, g \in WalNames : Wrote(q, g) => Wrote(q, g)'
      BY Zenon DEF CleanupPrefetchDirectory, Wrote
    <2>3. NameInv'
      BY <1>3, <2>2, Zenon DEF FetchShape, FileInv, NameInv
    <2> QED  BY <2>1, <2>3, Zenon DEF FileInv
  <1>6. ForkInv' /\ TakenInv'
    <2>1. at = "rename" => wanted \in WalNames
      BY DEF FetchShape, WalNames
    <2> QED  BY <1>2, <1>3, <2>1, Zenon DEF CleanupPrefetchDirectory, ForkInv, TakenInv
  <1> QED  BY <1>4, <1>5, <1>6, Zenon

\* The invariant of wal-fetch and its prefetchers, while recovery goes forward.
THEOREM FetchInvariant ==
    ASSUME "goesback" \notin Unusual
    PROVE  FetchSpec => []FetchInv
  <1>1. FetchInv /\ [FetchNext]_fetchVars => FetchInv'
    <2> SUFFICES ASSUME FetchInv, [FetchNext]_fetchVars PROVE FetchInv'
      OBVIOUS
    <2>1. CASE Fetch
      BY <2>1, FetchStep, Zenon
    <2>2. CASE Prefetch
      BY <2>2, PrefetcherStep, CleanupStep, Zenon DEF Prefetch
    <2>3. CASE UNCHANGED fetchVars
      BY <2>3, Zenon
         DEF fetchVars, walfetch, FetchInv, FetchShape, FileInv, GrowInv, NameInv, Wrote, ForkInv, TakenInv
    <2> QED  BY <2>1, <2>2, <2>3, Zenon DEF FetchNext
  <1> QED  BY <1>1, FetchInvInit, PTL DEF FetchSpec

\* FetchExact for every archive, segment size, number of prefetchers and of failures:
\* wal-fetch never reports success over a file that is short or of another segment
\* (HandleWALFetch, prefetchFile).  Recovery that goes back is excluded, since then the
\* cleanup of a later wal-prefetch may swap the file between Stat and Rename.
THEOREM FetchIsExact ==
    ASSUME "goesback" \notin Unusual
    PROVE  FetchSpec => []FetchExact
  <1>1. FetchInv => FetchExact
    BY Zenon DEF FetchInv, TakenInv, FetchExact
  <1> QED  BY <1>1, FetchInvariant, PTL
=============================================================================
