---------------------------- MODULE TarBallQueue ----------------------------
(***************************************************************************)
(* The queue of tarballs of a backup-push and the background uploads.      *)
(*                                                                         *)
(* ParallelTarballs tarballs circulate: a packer takes one out of the fill *)
(* queue, writes files to it, and puts it back or, when it is big enough,  *)
(* closes it and puts a fresh one in its place.  Closed tarballs wait in   *)
(* the upload queue until their upload is known to be finished.  Both      *)
(* queues are bounded Go channels, and FinishTarBall runs under a mutex.   *)
(***************************************************************************)
EXTENDS Integers, Sequences, FiniteSets

CONSTANTS
    ParallelTarballs,   \* WALG_UPLOAD_DISK_CONCURRENCY
    MaxUploadQueue,     \* WALG_UPLOAD_QUEUE
    MaxTarballs         \* bound on the number of tarballs ever made

ASSUME QueueAssumption ==
    /\ ParallelTarballs \in Nat \ {0}
    /\ MaxUploadQueue \in Nat
    /\ MaxTarballs \in Nat /\ MaxTarballs >= ParallelTarballs

VARIABLES
    fillQueue,      \* tarsToFillQueue
    uploadQueue,    \* tarballs closed by FinishTarBall, not awaited yet
    made,           \* number of tarballs made so far; a tarball is its number
    upload,         \* tarball -> "unset": SetUp not called; "open": the upload goroutine
                    \* reads from the pipe; "closed": the pipe has ended; "stored":
                    \* PutObject has returned
    mutex           \* the tarball whose FinishTarBall holds the mutex, or 0

queueVars == <<fillQueue, uploadQueue, made, upload, mutex>>

Tarballs == 1 .. MaxTarballs
NoTar == 0

\* StartQueue has put the first tarballs into the fill queue.
StartQueue ==
    /\ fillQueue = [i \in 1 .. ParallelTarballs |-> i]
    /\ uploadQueue = <<>>
    /\ made = ParallelTarballs
    /\ upload = [t \in Tarballs |-> "unset"]
    /\ mutex = NoTar

-----------------------------------------------------------------------------
(* Operations of packers *)

\* The upload states after SetUp(t), which starts the upload only once.
SetUp(t) == [upload EXCEPT ![t] = IF @ = "unset" THEN "open" ELSE @]

\* Deque: t is the tarball received.
Deque(t) ==
    /\ fillQueue # <<>>
    /\ t = Head(fillQueue)
    /\ fillQueue' = Tail(fillQueue)
    /\ upload' = SetUp(t)
    /\ UNCHANGED <<uploadQueue, made, mutex>>

\* EnqueueBack: a send on a channel of ParallelTarballs places.
EnqueueBack(t) ==
    /\ Len(fillQueue) < ParallelTarballs
    /\ fillQueue' = Append(fillQueue, t)
    /\ UNCHANGED <<uploadQueue, made, upload, mutex>>

\* FinishTarBall up to the send on the upload queue.
FinishTarBallClose(t) ==
    /\ mutex = NoTar
    /\ Len(uploadQueue) < ParallelTarballs + MaxUploadQueue
    /\ mutex' = t
    /\ upload' = [upload EXCEPT ![t] = "closed"]
    /\ uploadQueue' = Append(uploadQueue, t)
    /\ UNCHANGED <<fillQueue, made>>

\* One turn of its loop: AwaitUploads of the oldest closed tarball.
FinishTarBallAwait ==
    /\ mutex # NoTar
    /\ Len(uploadQueue) > MaxUploadQueue
    /\ upload[Head(uploadQueue)] = "stored"
    /\ uploadQueue' = Tail(uploadQueue)
    /\ UNCHANGED <<fillQueue, made, upload, mutex>>

\* Mutant: no fresh tarball takes the place of the closed one.
FinishTarBallNoRefill(t) ==
    /\ mutex = t
    /\ Len(uploadQueue) <= MaxUploadQueue
    /\ mutex' = NoTar
    /\ UNCHANGED <<fillQueue, made, uploadQueue, upload>>

\* Its end: a fresh tarball takes the place of t.
FinishTarBallRefill(t) ==
    /\ mutex = t
    /\ Len(uploadQueue) <= MaxUploadQueue
    /\ Len(fillQueue) < ParallelTarballs
    /\ made < MaxTarballs
    /\ made' = made + 1
    /\ fillQueue' = Append(fillQueue, made + 1)
    /\ mutex' = NoTar
    /\ UNCHANGED <<uploadQueue, upload>>

-----------------------------------------------------------------------------
(* Operations of the main goroutine *)

\* FinishQueue takes a tarball out; one that was written to is closed.
FinishQueueTake(t) ==
    /\ fillQueue # <<>>
    /\ t = Head(fillQueue)
    /\ fillQueue' = Tail(fillQueue)
    /\ upload' = [upload EXCEPT ![t] = IF @ = "open" THEN "closed" ELSE @]
    /\ UNCHANGED <<uploadQueue, made, mutex>>

\* Mutant: the upload queue is emptied without waiting for its uploads.
FinishQueueDrainNoWait ==
    /\ uploadQueue # <<>>
    /\ uploadQueue' = Tail(uploadQueue)
    /\ UNCHANGED <<fillQueue, made, upload, mutex>>

\* FinishQueue awaits what FinishTarBall has left in the upload queue.
FinishQueueDrain ==
    /\ uploadQueue # <<>>
    /\ upload[Head(uploadQueue)] = "stored"
    /\ uploadQueue' = Tail(uploadQueue)
    /\ UNCHANGED <<fillQueue, made, upload, mutex>>

\* NewTarBall(false), SetUp, PackFileTo and CloseTarball of a part that does not
\* go through the queue.
UploadSeparatePart ==
    /\ made < MaxTarballs
    /\ made' = made + 1
    /\ upload' = [upload EXCEPT ![made + 1] = "closed"]
    /\ UNCHANGED <<fillQueue, uploadQueue, mutex>>

\* The upload goroutine of startUpload: PutObject has returned without error.
FinishUpload(t) ==
    /\ upload[t] = "closed"
    /\ upload' = [upload EXCEPT ![t] = "stored"]
    /\ UNCHANGED <<fillQueue, uploadQueue, made, mutex>>
=============================================================================
