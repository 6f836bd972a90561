------------------------------- MODULE WalFetch -------------------------------
(***************************************************************************)
(* wal-fetch, the restore_command of a recovering PostgreSQL, and the      *)
(* wal-prefetch processes it leaves behind.  They meet in two directories: *)
(* a prefetcher downloads a segment into running/ and renames it into      *)
(* prefetch/, and wal-fetch takes it from there, waits while it grows, or  *)
(* downloads the segment itself.                                           *)
(*                                                                         *)
(* A file is the prefetcher that writes it (its inode): the length written *)
(* so far is kept per prefetcher, so a renamed file still grows.           *)
(***************************************************************************)
EXTENDS Integers, FiniteSets

CONSTANTS
    Last,           \* the archive holds segments 1 .. Last
    Full,           \* WalSegmentSize, in blocks
    BadMagic,       \* archived segments that do not begin as a WAL file does
    Prefetchers,    \* bound: calls of prefetchFile
    Concurrency,    \* GetMaxDownloadConcurrency
    MaxStall,       \* maxSizeStallTerations
    MaxFailures,    \* bound: broken downloads
    Unusual,        \* unusual circumstances that may arise, see README
    None            \* no file

ASSUME FetchAssumption ==
    /\ None \notin Prefetchers
    /\ Last \in Nat \ {0} /\ Full \in Nat \ {0} /\ BadMagic \subseteq 1 .. Last
    /\ Concurrency \in Nat \ {0} /\ MaxStall \in Nat \ {0} /\ MaxFailures \in Nat
    /\ Unusual \subseteq {"goesback"}

WalNames == 1 .. Last + Concurrency

VARIABLES
    running,        \* segment -> the file in running/
    prefetched,     \* segment -> the file in prefetch/
    size,           \* prefetcher -> length of its file
    pre,            \* prefetcher -> [at, file]
    forked,         \* segments whose fetch forked a wal-prefetch
    wanted,         \* the segment the server asks for
    at,             \* where wal-fetch is
    seenSize, sizeStall, cleanup,
    location,       \* length of the file at location, -1 if there is none
    taken,          \* the prefetcher whose file location is
    failures

walfetch == <<at, seenSize, sizeStall, cleanup, location, taken>>
fetchVars == <<running, prefetched, size, pre, forked, wanted, walfetch, failures>>

Missing == -1

-----------------------------------------------------------------------------
(* wal-prefetch *)

\* A goroutine of HandleWALPrefetch begins with one of the next segments: unless
\* someone is at it.
PrefetchFile(p) ==
    /\ pre[p].at = "new"
    /\ \E w \in forked, n \in 1 .. Concurrency :
        pre' = [pre EXCEPT ![p] =
            [at |-> IF running[w + n] = None /\ prefetched[w + n] = None THEN "create" ELSE "done", file |-> w + n]]
    /\ UNCHANGED <<running, prefetched, size, forked, wanted, walfetch, failures>>

\* DownloadFileTo creates the file exclusively; where that fails the error is only
\* printed.
CreateRunning(p) ==
    /\ pre[p].at = "create"
    /\ LET f == pre[p].file
       IN  IF running[f] = None
           THEN /\ running' = [running EXCEPT ![f] = p]
                /\ pre' = [pre EXCEPT ![p].at = "open"]
           ELSE pre' = [pre EXCEPT ![p].at = "rename"] /\ UNCHANGED running
    /\ UNCHANGED <<prefetched, size, forked, wanted, walfetch, failures>>

\* DownloadAndDecompressStorageFile finds the segment, or else the file of that name
\* is removed.
OpenArchive(p) ==
    /\ pre[p].at = "open"
    /\ IF pre[p].file <= Last
       THEN pre' = [pre EXCEPT ![p].at = "copy"] /\ UNCHANGED running
       ELSE /\ pre' = [pre EXCEPT ![p].at = "rename"]
            /\ running' = [running EXCEPT ![pre[p].file] = None]
    /\ UNCHANGED <<prefetched, size, forked, wanted, walfetch, failures>>

\* FastCopy appends a block.
FastCopy(p) ==
    /\ pre[p].at = "copy"
    /\ size' = [size EXCEPT ![p] = @ + 1]
    /\ pre' = [pre EXCEPT ![p].at = IF size'[p] = Full THEN "rename" ELSE "copy"]
    /\ UNCHANGED <<running, prefetched, forked, wanted, walfetch, failures>>

\* A download that breaks off leaves what it wrote, and goes on likewise.
CopyFails(p) ==
    /\ pre[p].at = "copy" /\ failures < MaxFailures
    /\ failures' = failures + 1
    /\ pre' = [pre EXCEPT ![p].at = "rename"]
    /\ UNCHANGED <<running, prefetched, size, forked, wanted, walfetch>>

\* The end of prefetchFile: the file of that name is moved, whoever wrote it.
RenameRunning(p) ==
    /\ pre[p].at = "rename"
    /\ LET f == pre[p].file
       IN  /\ prefetched' = IF running[f] # None /\ prefetched[f] = None
                            THEN [prefetched EXCEPT ![f] = running[f]] ELSE prefetched
           /\ running' = [running EXCEPT ![f] = None]
    /\ pre' = [pre EXCEPT ![p].at = "done"]
    /\ UNCHANGED <<size, forked, wanted, walfetch, failures>>

\* The process is killed, or hangs for good.
PrefetchDies(p) ==
    /\ pre[p].at \in {"create", "open", "copy", "rename"} /\ failures < MaxFailures
    /\ failures' = failures + 1
    /\ pre' = [pre EXCEPT ![p].at = "done"]
    /\ UNCHANGED <<running, prefetched, size, forked, wanted, walfetch>>

\* CleanupPrefetchDirectories removes, one by one, what is older than the segment
\* whose fetch forked the process.
CleanupPrefetchDirectory(w) ==
    /\ w \in forked
    /\ \E f \in WalNames :
        /\ f < w
        /\ \/ prefetched[f] # None /\ prefetched' = [prefetched EXCEPT ![f] = None] /\ UNCHANGED running
           \/ running[f] # None /\ running' = [running EXCEPT ![f] = None] /\ UNCHANGED prefetched
    /\ UNCHANGED <<size, pre, forked, wanted, walfetch, failures>>

-----------------------------------------------------------------------------
(* wal-fetch *)

\* The server removes what is at location and runs the command.
HandleWALFetch ==
    /\ at = "idle" /\ wanted <= Last
    /\ at' = "prefetched" /\ location' = Missing /\ taken' = None
    /\ seenSize' = Missing /\ sizeStall' = 0 /\ cleanup' = FALSE
    /\ UNCHANGED <<running, prefetched, size, pre, forked, wanted, failures>>

\* Mutant: a prefetched file is taken as it is.
StatPrefetchedAnySize ==
    /\ at = "prefetched"
    /\ at' = IF prefetched[wanted] = None THEN "running" ELSE "rename"
    /\ UNCHANGED <<running, prefetched, size, pre, forked, wanted, seenSize, sizeStall, cleanup, location, taken, failures>>

\* A prefetched file of the wrong size is of no use.
StatPrefetched ==
    /\ at = "prefetched"
    /\ at' = IF prefetched[wanted] = None THEN "running"
             ELSE IF size[prefetched[wanted]] # Full THEN "download" ELSE "rename"
    /\ UNCHANGED <<running, prefetched, size, pre, forked, wanted, seenSize, sizeStall, cleanup, location, taken, failures>>

\* The rename fails, and the command with it, if the file is gone.
RenamePrefetched ==
    /\ at = "rename"
    /\ IF prefetched[wanted] = None
       THEN at' = "failed" /\ UNCHANGED <<prefetched, location, taken>>
       ELSE /\ taken' = prefetched[wanted]
            /\ location' = size[prefetched[wanted]]
            /\ prefetched' = [prefetched EXCEPT ![wanted] = None]
            /\ at' = "magic"
    /\ UNCHANGED <<running, size, pre, forked, wanted, seenSize, sizeStall, cleanup, failures>>

checkWALFileMagic ==
    /\ at = "magic"
    /\ at' = IF wanted \in BadMagic THEN "download" ELSE "return"
    /\ location' = IF wanted \in BadMagic THEN Missing ELSE location
    /\ UNCHANGED <<running, prefetched, size, pre, forked, wanted, seenSize, sizeStall, cleanup, taken, failures>>

\* Mutant: a file that is there is waited for.
StatRunningPatient ==
    /\ at = "running"
    /\ at' = IF running[wanted] = None THEN "download" ELSE "prefetched"
    /\ UNCHANGED <<running, prefetched, size, pre, forked, wanted, seenSize, sizeStall, cleanup, location, taken, failures>>

\* While the file in running/ grows it is waited for.
StatRunning ==
    /\ at = "running"
    /\ LET f == running[wanted]
           stalled == f # None /\ size[f] <= seenSize
           givesUp == stalled /\ sizeStall + 1 >= MaxStall
       IN  /\ at' = IF f = None \/ givesUp THEN "download" ELSE "prefetched"
           /\ cleanup' = givesUp
           /\ sizeStall' = IF stalled THEN sizeStall + 1 ELSE 0
           /\ seenSize' = IF f = None \/ stalled THEN seenSize ELSE size[f]
    /\ UNCHANGED <<running, prefetched, size, pre, forked, wanted, location, taken, failures>>

\* DownloadFileTo location: the whole segment, or the command fails with what it
\* wrote left there.
DownloadFileTo ==
    /\ at = "download"
    /\ \/ location' = Full /\ at' = "return" /\ UNCHANGED failures
       \/ /\ failures < MaxFailures /\ failures' = failures + 1
          /\ location' \in 0 .. Full - 1 /\ at' = "failed"
    /\ taken' = None
    /\ UNCHANGED <<running, prefetched, size, pre, forked, wanted, seenSize, sizeStall, cleanup>>

\* The deferred calls: remove a stalled download, fork wal-prefetch.  FatalOnError
\* ends the process without them.
Return ==
    /\ at = "return"
    /\ running' = IF cleanup THEN [running EXCEPT ![wanted] = None] ELSE running
    /\ prefetched' = IF cleanup THEN [prefetched EXCEPT ![wanted] = None] ELSE prefetched
    /\ forked' = IF Concurrency = 1 THEN forked ELSE forked \cup {wanted}
    /\ at' = "restored"
    /\ UNCHANGED <<size, pre, wanted, seenSize, sizeStall, cleanup, location, taken, failures>>

\* The server replays the segment and asks for the next one; after a failure it asks
\* again.
NextSegment ==
    /\ at \in {"restored", "failed"}
    /\ wanted' \in {IF at = "restored" THEN wanted + 1 ELSE wanted}
                    \cup (IF "goesback" \in Unusual THEN 1 .. wanted ELSE {})
    /\ at' = "idle"
    /\ UNCHANGED <<running, prefetched, size, pre, forked, seenSize, sizeStall, cleanup, location, taken, failures>>

\* The server asks for the whole archive, or for nothing.
FetchInit ==
    /\ running = [f \in WalNames |-> None] /\ prefetched = [f \in WalNames |-> None]
    /\ size = [p \in Prefetchers |-> 0]
    /\ pre = [p \in Prefetchers |-> [at |-> "new", file |-> 0]]
    /\ forked = {} /\ wanted \in {1, Last + 1}
    /\ at = "idle" /\ seenSize = Missing /\ sizeStall = 0 /\ cleanup = FALSE
    /\ location = Missing /\ taken = None /\ failures = 0

Fetch ==
    \/ HandleWALFetch \/ StatPrefetched \/ RenamePrefetched \/ checkWALFileMagic \/ StatRunning
    \/ DownloadFileTo \/ Return \/ NextSegment

Prefetch ==
    \/ \E p \in Prefetchers :
        \/ PrefetchFile(p) \/ CreateRunning(p) \/ OpenArchive(p) \/ FastCopy(p) \/ CopyFails(p)
        \/ RenameRunning(p) \/ PrefetchDies(p)
    \/ \E w \in WalNames : CleanupPrefetchDirectory(w)

FetchNext == Fetch \/ Prefetch

\* wal-fetch is run; wal-prefetch gets on or not.
FetchFairness == WF_fetchVars(Fetch)

FetchSpec == FetchInit /\ [][FetchNext]_fetchVars /\ FetchFairness

-----------------------------------------------------------------------------
\* When wal-fetch reports success the whole segment is at location: whatever the
\* prefetchers that met over its name did before, half-written files they moved
\* among them, and whatever they still do to the file (HandleWALFetch, prefetchFile).
FetchExact ==
    at \in {"return", "restored"} =>
        IF taken = None THEN location = Full
        ELSE location = Full /\ size[taken] = Full /\ pre[taken].file = wanted

\* Recovery gets through: every segment the archive holds is restored in the end,
\* also when a prefetcher died over a file that stays in running/ and no process
\* will ever finish (the stall count of HandleWALFetch).
RecoveryAdvances == <>(wanted > Last)
=============================================================================
