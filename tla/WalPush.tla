------------------------------ MODULE WalPush ------------------------------
(***************************************************************************)
(* wal-push: the archiver of PostgreSQL runs HandleWALPush for the oldest  *)
(* .ready segment, again and again until it succeeds, and then makes the   *)
(* status file .done, which allows PostgreSQL to remove the segment.  Each *)
(* process uploads its own segment and, beside it, runs a BgUploader.  It  *)
(* can end in an error or be killed at any point; the marks and the        *)
(* archive outlive it.                                                     *)
(***************************************************************************)
EXTENDS BgUploader

VARIABLE push   \* HandleWALPush: where it is and for which segment

vars == <<storeVars, errors, bgVars, push>>

Main == "main"
IdlePush == [pc |-> "idle", wal |-> NoWal]

\* The goroutines end with their process.
ProcessExits ==
    /\ push' = IdlePush
    /\ scanner' = IdleScanner
    /\ started' = {}
    /\ received' = NoWal
    /\ queued' = FALSE
    /\ cancelled' = FALSE
    /\ worker' = [s \in Segments |-> "none"]
    /\ numUploaded' = 0
    /\ stop' = [c \in Callers |-> "no"]

Goto(pc) == push' = [push EXCEPT !.pc = pc]

-----------------------------------------------------------------------------
(* PostgreSQL *)

\* A segment is complete.
SegmentReady(s) ==
    /\ status[s] = "open" /\ \A r \in 1 .. s - 1 : status[r] # "open"
    /\ status' = [status EXCEPT ![s] = "ready"]
    /\ UNCHANGED <<marked, archive, errors, bgVars, push>>

\* The archiver takes the oldest ready segment; HandleWALPush starts the background
\* uploader unless it finds a mark.
ArchiveCommand(s) ==
    /\ push.pc = "idle"
    /\ status[s] = "ready" /\ \A r \in 1 .. s - 1 : status[r] # "ready"
    /\ IF s \in marked
         THEN push' = [pc |-> "unmark", wal |-> s] /\ UNCHANGED bgVars
         ELSE push' = [pc |-> "check", wal |-> s] /\ StartBgUploader(s)
    /\ UNCHANGED <<storeVars, errors>>

\* Exit code 0.
CommandSucceeds ==
    /\ push.pc = "ok"
    /\ status' = [status EXCEPT ![push.wal] = "done"]
    /\ ProcessExits
    /\ UNCHANGED <<marked, archive, errors>>

\* A fatal error, or the process or the archiver is killed.
Crash ==
    /\ push.pc # "idle" /\ errors < MaxErrors
    /\ errors' = errors + 1
    /\ ProcessExits
    /\ UNCHANGED storeVars

-----------------------------------------------------------------------------
(* HandleWALPush *)

\* UnmarkWalFile; its error is only logged.
UnmarkWalFile ==
    /\ push.pc = "unmark"
    /\ \/ marked' = marked \ {push.wal} /\ UNCHANGED errors
       \/ errors < MaxErrors /\ errors' = errors + 1 /\ UNCHANGED marked
    /\ Goto("lastmeta")
    /\ UNCHANGED <<status, archive, bgVars>>

\* uploadWALFile: the check, which may be fatal, and the upload.
MainCheck ==
    /\ push.pc = "check"
    /\ CASE CheckWALOverwrite(push.wal) = "put" -> Goto("put") /\ UNCHANGED bgVars
         [] CheckWALOverwrite(push.wal) = "skip" -> Goto("meta") /\ UNCHANGED bgVars
         [] OTHER -> ProcessExits
    /\ UNCHANGED <<storeVars, errors>>

MainPut ==
    /\ push.pc = "put"
    /\ archive' = [archive EXCEPT ![push.wal] = "same"]
    /\ Goto("meta")
    /\ UNCHANGED <<status, marked, errors, bgVars>>

UploadLocalWalMetadata ==
    /\ push.pc \in {"meta", "lastmeta"}
    /\ Goto(IF push.pc = "meta" THEN "stop" ELSE "ok")
    /\ UNCHANGED <<storeVars, errors, bgVars>>

MainStop ==
    /\ push.pc = "stop"
    /\ Stop(Main)
    /\ push' = IF stop'[Main] = "returned" THEN [push EXCEPT !.pc = "flush"] ELSE push

\* FlushFiles of the DeltaFileManager.
FlushFiles ==
    /\ push.pc = "flush"
    /\ Goto("ok")
    /\ UNCHANGED <<storeVars, errors, bgVars>>

HandleWALPush ==
    \/ UnmarkWalFile \/ MainCheck \/ MainPut \/ UploadLocalWalMetadata \/ MainStop \/ FlushFiles

-----------------------------------------------------------------------------

\* The archive may hold files of an earlier run, or of another cluster.
Init ==
    /\ status = [s \in Segments |-> "open"]
    /\ marked = {}
    /\ archive \in [Segments -> {"absent", "same", "other"}]
    /\ errors = 0
    /\ scanner = IdleScanner
    /\ started = {}
    /\ received = NoWal
    /\ queued = FALSE
    /\ cancelled = FALSE
    /\ worker = [s \in Segments |-> "none"]
    /\ numUploaded = 0
    /\ stop = [c \in Callers |-> "no"]
    /\ push = IdlePush

BgUploaderStep == BgStep /\ UNCHANGED push

\* Everything is archived.
AllDone ==
    /\ push.pc = "idle" /\ \A s \in Segments : status[s] = "done"
    /\ UNCHANGED vars

Next ==
    \/ \E s \in Segments : SegmentReady(s) \/ ArchiveCommand(s)
    \/ CommandSucceeds
    \/ Crash
    \/ HandleWALPush
    \/ BgUploaderStep
    \/ AllDone

\* The archiver retries, the goroutines of wal-push are scheduled and uploads end.
Fairness ==
    /\ WF_vars(CommandSucceeds \/ \E s \in Segments : ArchiveCommand(s))
    /\ WF_vars(HandleWALPush)
    /\ WF_vars(Processor /\ UNCHANGED push)
    /\ \A s \in Segments : WF_vars(Worker(s) /\ UNCHANGED push)

Spec == Init /\ [][Next]_vars /\ Fairness

-----------------------------------------------------------------------------
(* Properties *)

\* The types of the variables.  The scanner looks for at most MaxNumUploaded segments
\* by name.
TypeOK ==
    /\ status \in [Segments -> {"open", "ready", "done"}]
    /\ marked \subseteq Segments
    /\ archive \in [Segments -> {"absent", "same", "other"}]
    /\ errors \in 0 .. MaxErrors
    /\ scanner.pc \in {"off", "next", "read", "list"}
    /\ scanner.at \in Segments \cup {NoWal}
    /\ scanner.sent \in 0 .. MaxNumUploaded
    /\ scanner.list \in Seq(Segments)
    /\ started \subseteq Segments
    /\ received \in Segments \cup {NoWal}
    /\ queued \in BOOLEAN /\ cancelled \in BOOLEAN
    /\ worker \in [Segments -> Holding \cup {"none", "count", "counted", "failed"}]
    /\ numUploaded \in Nat
    /\ stop \in [Callers -> {"no", "cancelled", "waiting", "returned"}]
    /\ push \in [pc : {"idle", "unmark", "check", "put", "meta", "lastmeta", "stop", "flush", "ok"},
                 wal : Segments \cup {NoWal}]

\* PostgreSQL may remove a segment only when the archive holds its content, whatever
\* crashed between upload, mark, rename and exit code, and whoever uploaded it.
DoneIsArchived == \A s \in Segments : status[s] = "done" => archive[s] = "same"

\* With WALG_PREVENT_WAL_OVERWRITE no upload, in the foreground or the background,
\* replaces a file with other content.
NoOverwrite ==
    [][PreventWalOverwrite =>
         \A s \in Segments : archive[s] = "other" => archive'[s] = "other"]_vars

\* No segment is uploaded by HandleWALPush and a background goroutine at once.
OneUploader == push.pc # "idle" => push.wal \notin Running

\* When Stop has returned no background upload runs or can begin: FlushFiles sees
\* the delta records of all of them, and the process does not cut one short.
StopDrains == push.pc \in {"flush", "ok"} => Running = {} /\ ~ENABLED AcquireWorker

\* Each ready segment becomes done, unless it or an older one cannot be archived
\* because the archive holds other content under its name.
EventuallyDone ==
    \A s \in Segments :
        status[s] = "ready" ~>
            (status[s] = "done" \/ \E r \in 1 .. s : PreventWalOverwrite /\ archive[r] = "other")
=============================================================================
