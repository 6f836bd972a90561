---------------------------- MODULE BackupUpload ----------------------------
(***************************************************************************)
(* uploadBackup of a PostgreSQL backup-push: the walk over the data        *)
(* directory, the two tarball composers with their packer goroutines, the  *)
(* end of the tarball queue, pg_control and the label files, and the       *)
(* sentinel that makes the backup visible.                                 *)
(*                                                                         *)
(* The regular composer packs a file as soon as the walk meets it.  The    *)
(* rating composer first lets addFileWorkers rate all files, then packs    *)
(* them in collections of similar rating.                                  *)
(***************************************************************************)
EXTENDS TarBallQueue

CONSTANTS
    Files,              \* regular files of the data directory
    Headers,            \* directories, links, excluded directories
    Unchanged,          \* files with the modification time of the base backup
    Rating,             \* file -> update rating
    TarSizeThreshold,   \* in files: every file has size 1
    Replica,            \* the backup is taken from a standby
    MaxErrors           \* composer -> bound on the number of files that cannot be read

ASSUME UploadAssumption ==
    /\ Files \cap Headers = {}
    /\ Unchanged \subseteq Files
    /\ Rating \in [Files -> Nat]
    /\ TarSizeThreshold \in Nat
    /\ Replica \in BOOLEAN
    /\ MaxErrors \in [{"regular", "rating"} -> Nat]

VARIABLES
    composer,       \* "regular" or "rating", from the configuration
    main,           \* where the main goroutine is
    toWalk,         \* files and headers the walk has not met yet
    errors,         \* failed files so far; the first one cancels the errgroup
    packing,        \* tarballs held by a packer -> files it still has to pack
    contents,       \* tarball -> what was written to it
    tarFileSets,    \* tarball -> names listed for it
    bundleFiles,    \* file -> "absent", "added" or "skipped"
    gone,           \* files that had vanished when they were opened
    addFileQueue,   \* the channel of files to be rated
    addFileWorkers, \* number of addFileWorkers still running
    collected,      \* filesToCompose and headersToCompose
    collections,    \* collections not yet handed to a packer
    taken,          \* number of tarballs FinishQueue has taken out
    closing,        \* the tarball FinishQueue awaits, or NoTar
    parts,          \* parts that did not go through the tarball queue
    timeline,       \* "same", or "changed" between the start and the stop of the backup
    sentinel        \* the backup is visible

packVars == <<packing, contents, tarFileSets, bundleFiles, gone>>
ratingVars == <<composer, addFileQueue, addFileWorkers, collected, collections>>
finishVars == <<taken, closing, parts, timeline, sentinel>>
vars == <<queueVars, main, toWalk, errors, packVars, ratingVars, finishVars>>

Items == Files \cup Headers
Failed == errors > 0
Holders == DOMAIN packing

\* The packers without the one that holds t.
Release(t) == [u \in Holders \ {t} |-> packing[u]]

\* A packer that holds t and has to pack fs.
Hand(t, fs) == [u \in Holders \cup {t} |-> IF u = t THEN fs ELSE packing[u]]

-----------------------------------------------------------------------------
(* Packer goroutines *)

\* PackFileIntoTar of f: packed, skipped for lack of a bitmap in the delta map, or
\* ignored because it was deleted.
PackFile(t, f, outcome) ==
    /\ contents' = [contents EXCEPT ![t] = IF outcome = "added" THEN @ \cup {f} ELSE @]
    /\ bundleFiles' = [bundleFiles EXCEPT ![f] = outcome]
    /\ gone' = IF outcome = "absent" THEN gone \cup {f} ELSE gone

\* The size of a tarball; headers do not count.
Size(t) == Cardinality(contents'[t] \cap Files)

\* A packer packs one file.  The regular one then puts a small tarball back
\* (CheckSizeAndEnqueueBack).
PackFileIntoTar(t) ==
    /\ main # "dead"
    /\ t \in Holders
    /\ \E f \in packing[t], outcome \in {"added", "skipped", "absent"} :
         /\ PackFile(t, f, outcome)
         /\ IF composer = "regular" /\ Size(t) <= TarSizeThreshold
              THEN EnqueueBack(t) /\ packing' = Release(t)
              ELSE UNCHANGED queueVars /\ packing' = Hand(t, packing[t] \ {f})
    /\ UNCHANGED <<main, toWalk, errors, tarFileSets, ratingVars, finishVars>>

\* It fails, before or after the file was recorded, or CloseTarball fails in
\* FinishTarBall, which gives the mutex back: the regular packer ends and keeps its
\* tarball, the rating packer panics.
PackFileError(t) ==
    /\ main # "dead"
    /\ t \in Holders /\ errors < MaxErrors[composer]
    /\ \/ \E f \in packing[t], recorded \in {"absent", "added"} :
            bundleFiles' = [bundleFiles EXCEPT ![f] = recorded]
       \/ packing[t] = {} /\ mutex = NoTar /\ UNCHANGED bundleFiles
    /\ errors' = errors + 1
    /\ packing' = Release(t)
    /\ main' = IF composer = "regular" THEN main ELSE "dead"
    /\ UNCHANGED <<queueVars, toWalk, contents, tarFileSets, gone, ratingVars, finishVars>>

\* FinishTarBall by the packer of t, in its three steps.
FinishTarBall(t) ==
    /\ main # "dead"
    /\ t \in Holders /\ packing[t] = {}
    /\ \/ t # mutex /\ FinishTarBallClose(t) /\ UNCHANGED packing
       \/ t = mutex /\ FinishTarBallAwait /\ UNCHANGED packing
       \/ FinishTarBallRefill(t) /\ packing' = Release(t)
    /\ UNCHANGED <<main, toWalk, errors, contents, tarFileSets, bundleFiles, gone, ratingVars,
                   finishVars>>

-----------------------------------------------------------------------------
(* The walk: HandleWalkedFSObject and addToBundle *)

\* A file with the modification time of the base backup is only listed.
SkipFile(f) ==
    /\ main = "walk" /\ f \in toWalk \cap Unchanged
    /\ toWalk' = toWalk \ {f}
    /\ bundleFiles' = [bundleFiles EXCEPT ![f] = "skipped"]
    /\ UNCHANGED <<queueVars, main, errors, packing, contents, tarFileSets, gone, ratingVars,
                   finishVars>>

\* AddFile of the regular composer takes a tarball and starts a packer, or returns
\* silently when the errgroup is cancelled.
AddFile(f) ==
    /\ composer = "regular"
    /\ main = "walk" /\ f \in (toWalk \cap Files) \ Unchanged
    /\ toWalk' = toWalk \ {f}
    /\ \/ Failed /\ UNCHANGED <<queueVars, packing, tarFileSets>>
       \/ \E t \in Tarballs :
            /\ Deque(t)
            /\ packing' = Hand(t, {f})
            /\ tarFileSets' = [tarFileSets EXCEPT ![t] = @ \cup {f}]
    /\ UNCHANGED <<main, errors, contents, bundleFiles, gone, ratingVars, finishVars>>

\* AddHeader of the regular composer writes the header and puts the tarball back.
\* When the errgroup is cancelled it waits for the packers and ends the walk.
AddHeader(h) ==
    /\ composer = "regular"
    /\ main = "walk" /\ h \in toWalk \cap Headers
    /\ toWalk' = toWalk \ {h}
    /\ \/ Failed /\ main' = "pack" /\ UNCHANGED <<queueVars, packVars>>
       \/ /\ fillQueue # <<>>
          /\ LET t == Head(fillQueue) IN
             /\ upload' = SetUp(t)
             /\ fillQueue' = Append(Tail(fillQueue), t)
             /\ tarFileSets' = [tarFileSets EXCEPT ![t] = @ \cup {h}]
             /\ contents' = [contents EXCEPT ![t] = @ \cup {h}]
          /\ bundleFiles' = [bundleFiles EXCEPT ![h] = "added"]
          /\ UNCHANGED <<main, uploadQueue, made, mutex, packing, gone>>
    /\ UNCHANGED <<errors, ratingVars, finishVars>>

\* AddFile of the rating composer: a send on a channel of ParallelTarballs places.
AddFileToQueue(f) ==
    /\ composer = "rating"
    /\ main = "walk" /\ f \in (toWalk \cap Files) \ Unchanged
    /\ Len(addFileQueue) < ParallelTarballs
    /\ addFileQueue' = Append(addFileQueue, f)
    /\ toWalk' = toWalk \ {f}
    /\ UNCHANGED <<queueVars, main, errors, packVars, composer, addFileWorkers, collected,
                   collections, finishVars>>

\* AddHeader of the rating composer.
CollectHeader(h) ==
    /\ composer = "rating"
    /\ main = "walk" /\ h \in toWalk \cap Headers
    /\ toWalk' = toWalk \ {h}
    /\ collected' = collected \cup {h}
    /\ bundleFiles' = [bundleFiles EXCEPT ![h] = "added"]
    /\ UNCHANGED <<queueVars, main, errors, packing, contents, tarFileSets, gone, composer,
                   addFileQueue, addFileWorkers, collections, finishVars>>

\* addFileWorker rates a file, or ends with the error of getExpectedFileSize.
AddFileWorker ==
    /\ main # "dead"
    /\ addFileWorkers > 0 /\ addFileQueue # <<>>
    /\ addFileQueue' = Tail(addFileQueue)
    /\ \/ /\ collected' = collected \cup {Head(addFileQueue)}
          /\ UNCHANGED <<errors, addFileWorkers>>
       \/ /\ errors < MaxErrors[composer]
          /\ errors' = errors + 1
          /\ addFileWorkers' = addFileWorkers - 1
          /\ UNCHANGED collected
    /\ UNCHANGED <<queueVars, main, toWalk, packVars, composer, collections, finishVars>>

EndWalk ==
    /\ main = "walk" /\ toWalk = {}
    /\ main' = "pack"
    /\ UNCHANGED <<queueVars, toWalk, errors, packVars, ratingVars, finishVars>>

-----------------------------------------------------------------------------
(* PackTarballs *)

\* The regular composer waits for its packers; an error of one of them is fatal.
AwaitPackers ==
    /\ composer = "regular"
    /\ main = "pack" /\ Holders = {}
    /\ main' = IF Failed THEN "dead" ELSE "finish"
    /\ UNCHANGED <<queueVars, toWalk, errors, packVars, ratingVars, finishVars>>

\* The rating composer waits for its workers; an error of one of them is fatal.
AwaitWorkers ==
    /\ composer = "rating"
    /\ main = "pack"
    /\ addFileQueue = <<>> \/ addFileWorkers = 0
    /\ main' = IF Failed THEN "dead" ELSE "compose"
    /\ collections' = IF Failed THEN collections ELSE <<{}>>
    /\ UNCHANGED <<queueVars, toWalk, errors, packVars, composer, addFileQueue, addFileWorkers,
                   collected, finishVars>>

Composed == UNION {collections[i] : i \in DOMAIN collections}
Uncomposed == (collected \cap Files) \ Composed

\* A turn of composeFiles: the next file in the order of sortFiles, which leaves files
\* of one rating in any order.  A new collection is begun when the last is too big or
\* the rating leaves zero.
ComposeFile(f) ==
    /\ main = "compose"
    /\ f \in Uncomposed /\ \A g \in Uncomposed : Rating[f] <= Rating[g]
    /\ LET n == Len(collections)
           last == collections[n]
       IN  collections' =
             IF Cardinality(last) > TarSizeThreshold \/ (Rating[f] > 0 /\ \A g \in last : Rating[g] = 0)
               THEN Append(collections, {f})
               ELSE [collections EXCEPT ![n] = @ \cup {f}]
    /\ UNCHANGED <<queueVars, main, toWalk, errors, packVars, composer, addFileQueue,
                   addFileWorkers, collected, finishVars>>

\* writeHeaders puts all headers into one tarball.
WriteHeaders ==
    /\ main = "compose" /\ Uncomposed = {}
    /\ fillQueue # <<>>
    /\ LET t == Head(fillQueue) IN
       /\ upload' = SetUp(t)
       /\ fillQueue' = Append(Tail(fillQueue), t)
       /\ tarFileSets' = [tarFileSets EXCEPT ![t] = @ \cup (collected \cap Headers)]
       /\ contents' = [contents EXCEPT ![t] = @ \cup (collected \cap Headers)]
    /\ main' = "start"
    /\ UNCHANGED <<uploadQueue, made, mutex, toWalk, errors, packing, bundleFiles, gone,
                   ratingVars, finishVars>>

\* It hands each collection and a tarball to a packer, and does not wait for them.
StartPackers ==
    /\ main = "start"
    /\ IF collections = <<>>
         THEN main' = "finish" /\ UNCHANGED <<queueVars, packing, tarFileSets, collections>>
         ELSE \E t \in Tarballs :
                /\ Deque(t)
                /\ packing' = Hand(t, Head(collections))
                /\ tarFileSets' = [tarFileSets EXCEPT ![t] = @ \cup Head(collections)]
                /\ collections' = Tail(collections)
                /\ UNCHANGED main
    /\ UNCHANGED <<toWalk, errors, contents, bundleFiles, gone, composer, addFileQueue,
                   addFileWorkers, collected, finishVars>>

-----------------------------------------------------------------------------
(* The end of uploadBackup *)

\* FinishQueue takes out exactly ParallelTarballs tarballs, closes and awaits each
\* that was written to, then awaits the upload queue.
FinishQueue ==
    /\ main = "finish"
    /\ \/ /\ closing = NoTar /\ taken < ParallelTarballs
          /\ \E t \in Tarballs :
               /\ FinishQueueTake(t)
               /\ closing' = IF upload[t] = "unset" THEN NoTar ELSE t
          /\ taken' = taken + 1
          /\ UNCHANGED main
       \/ /\ closing # NoTar /\ upload[closing] = "stored"
          /\ closing' = NoTar
          /\ UNCHANGED <<queueVars, taken, main>>
       \/ /\ closing = NoTar /\ taken = ParallelTarballs
          /\ \/ FinishQueueDrain /\ UNCHANGED main
             \/ uploadQueue = <<>> /\ main' = "pgcontrol" /\ UNCHANGED queueVars
          /\ UNCHANGED <<closing, taken>>
    /\ UNCHANGED <<toWalk, errors, packVars, ratingVars, parts, timeline, sentinel>>

UploadPgControl ==
    /\ main = "pgcontrol"
    /\ UploadSeparatePart
    /\ parts' = parts \cup {made'}
    /\ main' = "label"
    /\ UNCHANGED <<toWalk, errors, packVars, ratingVars, taken, closing, timeline, sentinel>>

\* checkTimelineChanged: a timeline that cannot be read counts as changed.
CheckTimelineChanged(unreadable) == Replica /\ (unreadable \/ timeline = "changed")

\* pg_stop_backup, the label files where this PostgreSQL has them, and
\* checkTimelineChanged.
UploadLabelFiles ==
    /\ main = "label"
    /\ \/ UploadSeparatePart /\ parts' = parts \cup {made'}
       \/ UNCHANGED <<queueVars, parts>>
    /\ \E unreadable \in BOOLEAN :
         main' = IF CheckTimelineChanged(unreadable) THEN "failover" ELSE "await"
    /\ UNCHANGED <<toWalk, errors, packVars, ratingVars, taken, closing, timeline, sentinel>>

\* Mutant: the uploads of these parts are not awaited.
AwaitNothing ==
    /\ main \in {"await", "failover"}
    /\ main' = IF main = "await" THEN "sentinel" ELSE "dead"
    /\ UNCHANGED <<queueVars, toWalk, errors, packVars, ratingVars, finishVars>>

\* Uploader.Finish waits for the parts that did not go through the queue; a changed
\* timeline is fatal.
UploaderFinish ==
    /\ main \in {"await", "failover"}
    /\ \A t \in parts : upload[t] = "stored"
    /\ main' = IF main = "await" THEN "sentinel" ELSE "dead"
    /\ UNCHANGED <<queueVars, toWalk, errors, packVars, ratingVars, finishVars>>

UploadSentinel ==
    /\ main = "sentinel"
    /\ sentinel' = TRUE
    /\ main' = "done"
    /\ UNCHANGED <<queueVars, toWalk, errors, packVars, ratingVars, taken, closing, parts, timeline>>

-----------------------------------------------------------------------------
(* Uploads and the environment *)

BackgroundUpload(t) ==
    /\ main # "dead"
    /\ FinishUpload(t)
    /\ UNCHANGED <<main, toWalk, errors, packVars, ratingVars, finishVars>>

\* The upload goroutine ends the process when PutObject fails.
UploadFails(t) ==
    /\ main # "dead"
    /\ upload[t] \in {"open", "closed"}
    /\ main' = "dead"
    /\ UNCHANGED <<queueVars, toWalk, errors, packVars, ratingVars, finishVars>>

\* Another error of the main goroutine: the walk, writeHeaders, CloseTarball in
\* FinishQueue, pg_control, pg_stop_backup or the upload of the sentinel.
FatalOnError ==
    /\ main \in {"walk", "compose", "finish", "pgcontrol", "label", "sentinel"}
    /\ main' = "dead"
    /\ UNCHANGED <<queueVars, toWalk, errors, packVars, ratingVars, finishVars>>

\* The standby is promoted.  After the backup has stopped it does not matter.
Promote ==
    /\ Replica /\ timeline = "same"
    /\ main \notin {"failover", "await", "sentinel", "done", "dead"}
    /\ timeline' = "changed"
    /\ UNCHANGED <<queueVars, main, toWalk, errors, packVars, ratingVars, taken, closing,
                   parts, sentinel>>

Terminated == main \in {"done", "dead"} /\ UNCHANGED vars

Init ==
    /\ composer \in {"regular", "rating"}
    /\ StartQueue
    /\ main = "walk"
    /\ toWalk = Items
    /\ errors = 0
    /\ packing = [t \in {} |-> {}]
    /\ contents = [t \in Tarballs |-> {}]
    /\ tarFileSets = [t \in Tarballs |-> {}]
    /\ bundleFiles = [f \in Items |-> "absent"]
    /\ gone = {}
    /\ addFileQueue = <<>>
    /\ addFileWorkers = IF composer = "rating" THEN ParallelTarballs ELSE 0
    /\ collected = {}
    /\ collections = <<>>
    /\ taken = 0
    /\ closing = NoTar
    /\ parts = {}
    /\ timeline = "same"
    /\ sentinel = FALSE

Walk ==
    \E i \in Items : SkipFile(i) \/ AddFile(i) \/ AddHeader(i) \/ AddFileToQueue(i)
                      \/ CollectHeader(i)

Packer(t) == PackFileIntoTar(t) \/ PackFileError(t) \/ FinishTarBall(t)

Main ==
    \/ Walk \/ EndWalk \/ AwaitPackers
    \/ AwaitWorkers \/ (\E f \in Files : ComposeFile(f)) \/ WriteHeaders \/ StartPackers
    \/ FinishQueue \/ UploadPgControl \/ UploadLabelFiles \/ UploaderFinish
    \/ UploadSentinel

Next ==
    \/ Main
    \/ \E t \in Tarballs : Packer(t) \/ BackgroundUpload(t) \/ UploadFails(t)
    \/ AddFileWorker
    \/ FatalOnError
    \/ Promote
    \/ Terminated

\* Goroutines are scheduled fairly and uploads end.
Fairness ==
    /\ WF_vars(Main)
    /\ WF_vars(AddFileWorker)
    /\ \A t \in Tarballs : WF_vars(Packer(t)) /\ WF_vars(BackgroundUpload(t))

Spec == Init /\ [][Next]_vars /\ Fairness

-----------------------------------------------------------------------------
(* Properties *)

\* A visible backup is complete: each file the walk met is recorded, or had
\* vanished; a recorded file is in a part that the TarFileSets name for it; and no
\* upload is outstanding; and a standby was not promoted while its backup ran.  No
\* error, cancelled AddFile, packer at work or unfinished upload gets past
\* PackTarballs, FinishQueue and Uploader.Finish, and no promotion past
\* checkTimelineChanged.
BackupComplete ==
    sentinel =>
        /\ \A i \in Items \ gone : bundleFiles[i] # "absent"
        /\ \A i \in Items : bundleFiles[i] = "added" =>
             \E t \in Tarballs : i \in contents[t] \cap tarFileSets[t] /\ upload[t] = "stored"
        /\ \A t \in Tarballs : upload[t] \in {"unset", "stored"}
        /\ ~(Replica /\ timeline = "changed")

\* "UploadPgControl should only be called after the rest of the backup is
\* successfully uploaded": when main gets there no packer is at work and every part
\* is stored.
PgControlLast ==
    main = "pgcontrol" =>
        /\ Holders = {}
        /\ \A t \in Tarballs : upload[t] \in {"unset", "stored"}

\* Each of the ParallelTarballs tarballs is in the fill queue, with a packer, taken
\* out by FinishQueue or lost to a failed packer of the regular composer.  So
\* EnqueueBack and FinishTarBall, which sends while it holds the mutex, find room,
\* and FinishQueue gets "exactly this count" only when all packers have ended.
TarballsConserved ==
    LET lost == IF composer = "regular" THEN errors ELSE 0
    IN  main # "dead" =>
          Len(fillQueue) + Cardinality(Holders) + taken + lost = ParallelTarballs

\* backup-push comes to an end: neither the channels, the mutex, nor a failed packer
\* or addFileWorker leave the walk, a packer or FinishQueue waiting for ever.
Termination == <>(main \in {"done", "dead"})
=============================================================================
