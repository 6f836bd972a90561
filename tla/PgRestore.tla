------------------------------ MODULE PgRestore ------------------------------
(***************************************************************************)
(* backup-fetch of PostgreSQL: a full backup or a chain of delta backups   *)
(* is unpacked into an empty data directory, oldest first (the default) or *)
(* newest first (--reverse-unpack), in the latter case also passing over   *)
(* tars that are no longer needed (--skip-redundant-tars).  catchup-fetch  *)
(* unpacks one delta, made against an LSN, over the files of a replica.    *)
(*                                                                         *)
(* The backups are the ones backup-push makes of a database: a file is     *)
(* stored whole, skipped when its modification time is that of the base    *)
(* backup, or, when it is a paged file of the base, stored as an increment *)
(* of the pages written since the base began.  A page is the LSN of its    *)
(* last change, 0 when it is new (all zeros); any other file is one page   *)
(* with the version of its content.                                        *)
(***************************************************************************)
EXTENDS Integers, Sequences, FiniteSets, SequencesExt

CONSTANTS
    PagedFiles,     \* relation files, by name (base/1/2 ...)
    OtherFiles,     \* other files
    Histories,      \* histories of the database: what each backup of a chain read
    Masks,          \* sets of files a mask selects
    Modes,          \* of "old", "new", "skip", "catchup", "catchupnew"
    MaxConcurrency, \* download concurrency
    Circumstances   \* unusual circumstances that may arise, see README

Files == PagedFiles \cup OtherFiles

\* UtilityFilePaths: stored beside the data files, without a description.
PgControl == "pg_control"
UtilityFiles == {PgControl, "backup_label"}

ASSUME RestoreAssumption ==
    /\ MaxConcurrency \in Nat \ {0}
    /\ Modes \subseteq {"old", "new", "skip", "catchup", "catchupnew"}
    /\ Circumstances \subseteq {"late", "retry", "newpages", "zeroed", "resized"}

VARIABLES
    history,        \* what the backups read: a sequence of file -> pages
    mode, mask,     \* the command line
    pc,
    current,        \* the backup being unpacked
    want,           \* filesToUnwrap
    missing,        \* missingBlocks: file -> count
    disk,           \* the data directory: file -> pages
    round,          \* currentRun: the tars of this round
    run,            \* those not tried yet
    failed,         \* tars that failed in this round
    concurrency,
    result          \* UnwrapResult

vars == <<history, mode, mask, pc, current, want, missing, disk, round, run,
          failed, concurrency, result>>

\* useNewUnwrapImplementation, createNewIncrementalFiles
NewUnwrap == mode \in {"new", "skip", "catchupnew"}
Catchup == mode \in {"catchup", "catchupnew"}

\* Backup k starts at LSN 2k; what changed while it was read has LSN 2k too.
StartLsn(k) == 2 * k

-----------------------------------------------------------------------------
(* What backup-push stored *)

IsIncremental(k) == k > 1

isPagedFile(f, pages) == f \in PagedFiles /\ pages # <<>>

\* Mutant: a page written at the very LSN of the base does not count as changed.
SelectNewValidPageStrict(page, lsn) == page = 0 \/ page > lsn

\* SelectNewValidPage: a new page, or one changed since the base began.
SelectNewValidPage(page, lsn) == page = 0 \/ page >= lsn

\* FullScanInitialize and the header: the size and the selected blocks.
ReadIncrementalFile(pages, lsn) ==
    LET blocks == SelectSeq([i \in DOMAIN pages |-> i], LAMBDA i : SelectNewValidPage(pages[i], lsn))
    IN  [fileSize |-> Len(pages), diffMap |-> blocks, pages |-> [i \in DOMAIN blocks |-> pages[blocks[i]]]]

WholeFile(pages) == [fileSize |-> Len(pages), diffMap |-> <<>>, pages |-> pages]

\* addToBundle: the description and the content of file f of backup k.  A
\* utility file is the backup's own.  catchup-push knows the LSN of the base,
\* but none of its files, and forces increments.
addToBundle(k, f) ==
    IF f \in UtilityFiles
    THEN [IsSkipped |-> FALSE, IsIncremented |-> FALSE, data |-> WholeFile(<<k>>)] ELSE
    LET pages == history[k][f]
        wasInBase == IsIncremental(k) /\ ~Catchup /\ f \in DOMAIN history[k - 1]
        skipped == wasInBase /\ history[k - 1][f] = pages
        incremented == (wasInBase \/ Catchup) /\ ~skipped /\ isPagedFile(f, pages)
    IN  [IsSkipped |-> skipped, IsIncremented |-> incremented,
         data |-> IF incremented THEN ReadIncrementalFile(pages, StartLsn(k - 1)) ELSE WholeFile(pages)]

SentinelFiles(k) == DOMAIN history[k]

\* The composer put every stored file into a tar of its own, named like it.
GetTarNames(k) == {f \in SentinelFiles(k) : ~addToBundle(k, f).IsSkipped} \cup UtilityFiles

-----------------------------------------------------------------------------
(* Which files and which tars *)

GetFilesToUnwrap(k, fileMask) == (SentinelFiles(k) \cup UtilityFiles) \cap fileMask

\* What the base has to provide: the files that this backup lacks a whole of.
GetBaseFilesToUnwrap(k, files) ==
    {f \in files \cap SentinelFiles(k) : addToBundle(k, f).IsSkipped \/ addToBundle(k, f).IsIncremented}

shouldUnwrapTar(tar, files) == tar \in files

getTarsToExtract(k, files, skipRedundantTars) ==
    {t \in GetTarNames(k) \ {PgControl} : ~skipRedundantTars \/ shouldUnwrapTar(t, files)}

\* The recursion of the old order goes down to the full backup first.
WantOld[k \in 1 .. 4] ==
    IF k = Len(history) THEN GetFilesToUnwrap(k, mask)
    ELSE IF k < Len(history) THEN GetBaseFilesToUnwrap(k + 1, WantOld[k + 1]) ELSE {}

-----------------------------------------------------------------------------
(* Writing files.  `upto` pages of the stream arrive before it breaks.       *)

Put(f, x, v) == [y \in DOMAIN f \cup {x} |-> IF y = x THEN v ELSE f[y]]
Without(f, x) == [y \in DOMAIN f \ {x} |-> f[y]]

Resize(pages, n) == [i \in 1 .. n |-> IF i <= Len(pages) THEN pages[i] ELSE 0]

\* Truncate to the new size, then write the pages of the increment in place.
ApplyFileIncrement(pages, inc, upto) ==
    LET sized == Resize(pages, inc.fileSize)
        at(i) == {j \in 1 .. upto : inc.diffMap[j] = i}
    IN  [i \in DOMAIN sized |-> IF at(i) = {} THEN sized[i] ELSE inc.pages[CHOOSE j \in at(i) : TRUE]]

checkIfMissingPage(pages, i) == pages[i] = 0

\* writePage: block i of the file, when the stream has it.
writePage(pages, i, arrived, content, overwrite) ==
    IF arrived /\ (overwrite \/ checkIfMissingPage(pages, i)) THEN content ELSE pages[i]

\* The pages of the increment within the file's size.
WritePagesFromIncrement(pages, inc, upto, overwrite) ==
    [i \in DOMAIN pages |->
        LET at == {j \in 1 .. upto : inc.diffMap[j] = i}
        IN  writePage(pages, i, at # {}, IF at = {} THEN 0 ELSE inc.pages[CHOOSE j \in at : TRUE], overwrite)]

restoredBlockCount(pages, inc, overwrite) ==
    Cardinality({i \in DOMAIN pages \cap Range(inc.diffMap) : overwrite \/ checkIfMissingPage(pages, i)})

\* Pages of the increment, zeros in place of the others; the write stops where
\* the stream does.
CreateFileFromIncrement(inc, upto) ==
    LET stop == IF upto < Len(inc.diffMap) THEN inc.diffMap[upto + 1] - 1 ELSE inc.fileSize
        at(i) == {j \in 1 .. upto : inc.diffMap[j] = i}
    IN  [i \in 1 .. stop |-> IF at(i) = {} THEN 0 ELSE inc.pages[CHOOSE j \in at(i) : TRUE]]

RestoreMissingPages(pages, base, upto) ==
    [i \in DOMAIN pages |-> writePage(pages, i, i <= upto, IF i <= upto THEN base[i] ELSE 0, FALSE)]

\* The number of pages a tar streams for its file.
Complete(k, f) == Len(addToBundle(k, f).data.pages)

\* A broken copy removes the file.
writeLocalFile(k, f, upto) ==
    IF upto < Complete(k, f) THEN Without(disk, f) ELSE Put(disk, f, addToBundle(k, f).data.pages)

unwrapRegularFileOld(k, f, upto) ==
    LET d == addToBundle(k, f)
    IN  IF d.IsIncremented
        THEN Put(disk, f, ApplyFileIncrement(IF f \in DOMAIN disk THEN disk[f] ELSE <<>>, d.data, upto))
        ELSE writeLocalFile(k, f, upto)

UnwrapNewFile(k, f, upto) ==
    IF addToBundle(k, f).IsIncremented
    THEN Put(disk, f, CreateFileFromIncrement(addToBundle(k, f).data, upto))
    ELSE writeLocalFile(k, f, upto)

\* Of a delta or full backup, older than what is there: only missing pages.
UnwrapExistingFile(k, f, upto) ==
    LET d == addToBundle(k, f)
    IN  IF d.IsIncremented THEN Put(disk, f, WritePagesFromIncrement(disk[f], d.data, upto, FALSE))
        ELSE IF isPagedFile(f, disk[f]) THEN Put(disk, f, RestoreMissingPages(disk[f], d.data.pages, upto))
        ELSE disk

\* Of a catchup backup, newer than what is there.
UnwrapExistingFileCatchup(k, f, upto) ==
    LET d == addToBundle(k, f)
    IN  IF d.IsIncremented THEN Put(disk, f, WritePagesFromIncrement(disk[f], d.data, upto, TRUE))
        ELSE writeLocalFile(k, f, upto)

unwrapRegularFileNew(k, f, upto) ==
    IF f \notin DOMAIN disk THEN UnwrapNewFile(k, f, upto)
    ELSE IF Catchup THEN UnwrapExistingFileCatchup(k, f, upto) ELSE UnwrapExistingFile(k, f, upto)

Interpret(k, f, upto) ==
    IF f \notin want THEN disk
    ELSE IF NewUnwrap THEN unwrapRegularFileNew(k, f, upto) ELSE unwrapRegularFileOld(k, f, upto)

AddFileUnwrapResult(k, f) ==
    LET d == addToBundle(k, f)
    IN  IF ~NewUnwrap \/ f \notin want THEN result
        ELSE IF d.IsIncremented /\ f \notin DOMAIN disk
        THEN [result EXCEPT !.created = Put(@, f, d.data.fileSize - Len(d.data.diffMap))]
        ELSE IF d.IsIncremented
        THEN [result EXCEPT !.written = Put(@, f, restoredBlockCount(disk[f], d.data, Catchup))]
        ELSE IF f \in DOMAIN disk /\ ~Catchup /\ ~isPagedFile(f, disk[f]) THEN result
        ELSE [result EXCEPT !.completed = @ \cup {f}]

NoResult == [completed |-> {}, created |-> <<>>, written |-> <<>>]

-----------------------------------------------------------------------------
(* SkipRedundantFiles: what the older backups need not provide               *)

\* processCreatedPageFiles
ProcessCreated(files) ==
    LET seen == DOMAIN result.created \cap files
    IN  [want |-> files \ {f \in seen : result.created[f] = 0},
         missing |-> [f \in DOMAIN missing \cup {g \in seen : result.created[g] # 0} |->
                        IF f \in seen THEN result.created[f] ELSE missing[f]]]

\* processWrittenIncrementFiles
ProcessWritten(c) ==
    LET seen == DOMAIN result.written \cap c.want \cap DOMAIN c.missing
        left(f) == c.missing[f] - result.written[f]
    IN  [want |-> c.want \ {f \in seen : left(f) <= 0},
         missing |-> [f \in DOMAIN c.missing |->
                        IF f \in seen /\ left(f) > 0 THEN left(f) ELSE c.missing[f]]]

SkipRedundantFiles(files) ==
    LET c == ProcessWritten(ProcessCreated(files))
    IN  [c EXCEPT !.want = @ \ result.completed]

-----------------------------------------------------------------------------
(* ExtractAll *)

ExtractAll(tars) == round' = tars /\ run' = tars /\ failed' = {} /\ concurrency' = MaxConcurrency

\* A backup is begun: its tars but pg_control make the first run.
UnwrapBackup(k, files) ==
    /\ current' = k /\ want' = files
    /\ ExtractAll(getTarsToExtract(k, files, mode = "skip"))
    /\ result' = NoResult
    /\ pc' = "extract"

\* Applying an increment opens the file the base left.
CanUnwrap(t) ==
    mode = "old" /\ t \in want /\ addToBundle(current, t).IsIncremented => t \in DOMAIN disk

extractOne(t) ==
    /\ pc \in {"extract", "control"} /\ t \in run
    /\ CanUnwrap(t)
    /\ disk' = Interpret(current, t, Complete(current, t))
    /\ result' = AddFileUnwrapResult(current, t)
    /\ run' = run \ {t}
    /\ UNCHANGED <<history, mode, mask, pc, current, want, missing, round, failed, concurrency>>

\* The local file is being created from an increment.
Creating(t) == NewUnwrap /\ t \in want /\ t \notin DOMAIN disk /\ addToBundle(current, t).IsIncremented

\* The download or the unpacking of a tar breaks before the file, or within it.
\* The failure of the decompressing goroutine is recorded after its pipe is closed.
FailedExtract(t) ==
    /\ pc \in {"extract", "control"} /\ t \in run
    /\ run' = run \ {t}
    /\ \/ /\ failed' \in {failed \cup {t}} \cup (IF "late" \in Circumstances THEN {failed} ELSE {})
          /\ UNCHANGED disk
       \/ /\ CanUnwrap(t) /\ (Creating(t) => "retry" \in Circumstances)
          /\ failed' = failed \cup {t}
          /\ \E upto \in 0 .. Complete(current, t) - 1 : disk' = Interpret(current, t, upto)
    /\ UNCHANGED <<history, mode, mask, pc, current, want, missing, round, concurrency, result>>

\* Mutant: a round that got nowhere is repeated too.
RetryFailedForever ==
    /\ pc \in {"extract", "control"} /\ run = {} /\ failed # {}
    /\ round' = failed /\ run' = failed /\ failed' = {}
    /\ concurrency' = IF concurrency > 1 THEN concurrency \div 2 ELSE 1
    /\ UNCHANGED <<pc, history, mode, mask, current, want, missing, disk, result>>

\* The end of a round with failures: again with half the concurrency; with none
\* left to halve, a round must extract something.
RetryFailed ==
    /\ pc \in {"extract", "control"} /\ run = {} /\ failed # {}
    /\ IF concurrency = 1 /\ failed = round
       THEN pc' = "failed" /\ UNCHANGED <<round, run, failed, concurrency>>
       ELSE /\ round' = failed /\ run' = failed /\ failed' = {}
            /\ concurrency' = IF concurrency > 1 THEN concurrency \div 2 ELSE 1
            /\ UNCHANGED pc
    /\ UNCHANGED <<history, mode, mask, current, want, missing, disk, result>>

\* The data tars are extracted: pg_control is next.  A backup of which the new
\* order needs nothing is passed over.
ExtractPgControl ==
    /\ pc = "extract" /\ run = {} /\ failed = {} /\ round # {}
    /\ ExtractAll({PgControl}) /\ pc' = "control"
    /\ UNCHANGED <<history, mode, mask, current, want, missing, disk, result>>

Unwrapped == run = {} /\ failed = {} /\ (pc = "control" \/ (pc = "extract" /\ round = {}))

Finish == pc' = "done" /\ UNCHANGED <<current, want, missing, round, run, failed, concurrency, result>>

\* deltaFetchRecursionOld: from the full backup on.
deltaFetchRecursionOld ==
    /\ mode = "old" /\ Unwrapped
    /\ IF current = Len(history) THEN Finish
       ELSE UnwrapBackup(current + 1, WantOld[current + 1]) /\ UNCHANGED missing
    /\ UNCHANGED <<history, mode, mask, disk>>

\* deltaFetchRecursionNew: from the requested backup down.
deltaFetchRecursionNew ==
    /\ mode \in {"new", "skip"} /\ Unwrapped
    /\ LET base == GetBaseFilesToUnwrap(current, want)
           c == IF mode = "skip" THEN SkipRedundantFiles(base) ELSE [want |-> base, missing |-> missing]
       IN  IF ~IsIncremental(current) THEN Finish
           ELSE UnwrapBackup(current - 1, c.want) /\ missing' = c.missing
    /\ UNCHANGED <<history, mode, mask, disk>>

\* HandleCatchupFetch: the one backup.
HandleCatchupFetch ==
    /\ Catchup /\ Unwrapped
    /\ Finish
    /\ UNCHANGED <<history, mode, mask, disk>>

-----------------------------------------------------------------------------
(* Which histories: a page never returns to zeros, no page is new where tars *)
(* are skipped, and the files that the new unwrap of a catchup backup meets  *)
(* keep their size, unless the circumstances say so.  A catchup is one delta *)
(* over the files of the replica.                                            *)

Usual(h, m) ==
    /\ m \in {"catchup", "catchupnew"} => Len(h) = 2
    /\ \/ "resized" \in Circumstances \/ m # "catchupnew"
       \/ \A f \in DOMAIN h[1] \cap DOMAIN h[2] : Len(h[1][f]) = Len(h[2][f])
    /\ \/ "newpages" \in Circumstances \/ m # "skip"
       \/ \A k \in DOMAIN h : \A f \in DOMAIN h[k] : \A i \in DOMAIN h[k][f] : h[k][f][i] # 0
    /\ \/ "zeroed" \in Circumstances
       \/ \A k \in DOMAIN h : \A j \in 1 .. k - 1 : \A f \in DOMAIN h[k] \cap DOMAIN h[j] :
            \A i \in DOMAIN h[k][f] \cap DOMAIN h[j][f] : h[k][f][i] = 0 => h[j][f][i] = 0

\* GetPgFetcherOld and GetPgFetcherNew on an empty directory, or
\* HandleCatchupFetch on that of the replica.
Init ==
    /\ mode \in Modes
    /\ history \in {h \in Histories : Usual(h, mode)}
    /\ mask \in Masks
    /\ pc = "extract"
    /\ current = IF mode = "old" THEN 1 ELSE Len(history)
    /\ want = IF mode = "old" THEN WantOld[1] ELSE GetFilesToUnwrap(current, mask)
    /\ missing = <<>>
    /\ disk = IF Catchup THEN history[1] ELSE <<>>
    /\ run = getTarsToExtract(current, want, mode = "skip") /\ round = run
    /\ failed = {} /\ concurrency = MaxConcurrency /\ result = NoResult

Terminating == pc \in {"done", "failed"} /\ UNCHANGED vars

Step ==
    \/ \E t \in Files \cup UtilityFiles : extractOne(t) \/ FailedExtract(t)
    \/ RetryFailed \/ ExtractPgControl
    \/ deltaFetchRecursionOld \/ deltaFetchRecursionNew \/ HandleCatchupFetch

Next == Step \/ Terminating

\* The fetcher goes on until it is done or has failed.
Spec == Init /\ [][Next]_vars /\ WF_vars(Step)

-----------------------------------------------------------------------------
Target == history[Len(history)]

\* A restore that reports success leaves the files of the requested backup, as
\* that backup read them, whatever the chain, the order of unpacking, the tars
\* passed over and the downloads retried: pages are merged from all backups of
\* the chain, and the old order lets the newest write last, the new one first
\* (deltaFetchRecursionOld, deltaFetchRecursionNew, SkipRedundantFiles).  A
\* catchup leaves the files of the primary on the replica (HandleCatchupFetch).
RestoreExact ==
    LET asked == (DOMAIN Target \cup UtilityFiles) \cap mask
    IN  pc = "done" =>
            /\ asked \subseteq DOMAIN disk /\ (~Catchup => DOMAIN disk = asked)
            /\ \A f \in asked : disk[f] = IF f \in UtilityFiles THEN <<Len(history)>> ELSE Target[f]

\* ExtractAll retries failed tars with half the concurrency and gives up only
\* when a round extracts nothing: however often downloads fail, backup-fetch ends.
RestoreEnds == <>(pc \in {"done", "failed"})

\* The comment on SkipRedundantFiles: "exclude files that no longer need any
\* additional information (completed ones)".  A file that an older backup of the
\* chain could still provide pages of is excluded only when it is complete.
ExcludedAreComplete ==
    mode = "skip" /\ pc = "extract" /\ current < Len(history) =>
        \A f \in DOMAIN disk \cap DOMAIN Target :
            f \in WantOld[current] \ want => disk[f] = Target[f]

\* The comment on getTarsToExtract: pg_control is extracted "at the end, as to
\* prevent server startup with incomplete backup restoration".
PgControlAtTheEnd ==
    PgControl \in DOMAIN disk =>
        \A f \in DOMAIN Target \cap mask : f \in DOMAIN disk /\ disk[f] = Target[f]
=============================================================================
