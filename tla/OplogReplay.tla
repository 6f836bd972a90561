----------------------------- MODULE OplogReplay -----------------------------
(***************************************************************************)
(* oplog-replay: StorageFetcher downloads a sequence of archives, finds    *)
(* the first record and sends the records up to the last over a channel;   *)
(* DBApplier applies each to the database, keeping the records of a        *)
(* transaction until it is committed.  Both run under one error group: the *)
(* first error cancels the context of the other.                           *)
(***************************************************************************)
EXTENDS MongoArchives

VARIABLE replay

\* What DBApplier tells apart in a record: "i" stands for one that changes data,
\* "n" and "config" are skipped, "part", "commit" and "abort" belong to a transaction.
Kinds == {"i", "n", "config", "part", "commit", "abort"}

\* fpc, apc: where the fetcher and the applier are; path: archives to download; buf:
\* records left of the last one; op: in the fetcher's hand; aop: in the applier's; txn:
\* the transaction's records; stream: those of them still to apply; db: records applied.
NoReplay == [fpc |-> "off", apc |-> "off", from |-> ZeroTS, until |-> ZeroTS, path |-> <<>>,
             buf |-> <<>>, found |-> FALSE, op |-> ZeroTS, aop |-> ZeroTS, txn |-> <<>>,
             stream |-> <<>>, db |-> <<>>, kind |-> <<>>, done |-> FALSE, err |-> FALSE,
             signalled |-> FALSE, result |-> "none"]

\* runOplogReplay: the archives are listed and the sequence is chosen once.
RunOplogReplay(stored, since, until, kind) ==
    /\ replay.fpc = "off"
    /\ LET seq == SequenceBetweenTS(ListOplogArchives(stored), since, until)
           args == [NoReplay EXCEPT !.from = since, !.until = until, !.kind = kind]
       IN  replay' = IF seq.err = "nil"
                     THEN [args EXCEPT !.fpc = "download", !.apc = "recv", !.path = seq.path]
                     ELSE [NoReplay EXCEPT !.fpc = "end", !.apc = "end", !.result = "error"]

--------------------------------------------------------------------------
(* StorageFetcher.FetchBetween *)

\* The error is sent, its receiver cancels the context, and the channel is closed.
FetchError == [replay EXCEPT !.fpc = "end", !.err = TRUE, !.done = TRUE]

\* After the last archive: the restore point was not reached.
DownloadOplogArchive(stored) ==
    /\ replay.fpc = "download"
    /\ replay' = IF replay.path = <<>> \/ Head(replay.path) \notin stored THEN FetchError
                 ELSE [replay EXCEPT !.fpc = "read", !.buf = Head(replay.path).ops,
                                     !.path = Tail(replay.path)]

\* Mutant: the record that is found as the first is not sent.
ReadOpSinceExcluded ==
    /\ replay.fpc = "read"
    /\ LET op == Head(replay.buf)
           rest == [replay EXCEPT !.buf = Tail(replay.buf)]
       IN  replay' =
            IF replay.buf = <<>>
            THEN IF replay.found THEN [replay EXCEPT !.fpc = "download"] ELSE FetchError
            ELSE IF ~ replay.found THEN [rest EXCEPT !.found = (op = replay.from)]
            ELSE IF op >= replay.until THEN [rest EXCEPT !.fpc = "end"]
            ELSE [rest EXCEPT !.found = TRUE, !.op = op, !.fpc = "send"]

ReadOp ==
    /\ replay.fpc = "read"
    /\ LET op == Head(replay.buf)
           rest == [replay EXCEPT !.buf = Tail(replay.buf)]
       IN  replay' =
            IF replay.buf = <<>>
            THEN IF replay.found THEN [replay EXCEPT !.fpc = "download"] ELSE FetchError
            ELSE IF ~ replay.found /\ op # replay.from THEN rest
            ELSE IF op >= replay.until THEN [rest EXCEPT !.fpc = "end"]
            ELSE [rest EXCEPT !.found = TRUE, !.op = op, !.fpc = "send"]

\* Mutant: the fetcher looks at the context only when the applier receives.
FetchBetweenDeaf ==
    /\ replay.fpc = "send" /\ replay.done /\ replay.apc = "recv"
    /\ replay' = [replay EXCEPT !.fpc = "end"]

FetchBetweenCancelled ==
    /\ replay.fpc = "send" /\ replay.done
    /\ replay' = [replay EXCEPT !.fpc = "end"]

DownloadFails ==
    /\ replay.fpc = "download"
    /\ replay' = FetchError

\* A damaged archive.  The error of the read is sent and the loop goes on to decode
\* nothing; no one receives the second error.
ReadFails ==
    /\ replay.fpc = "read"
    /\ replay' = [FetchError EXCEPT !.fpc = "stuck"]

--------------------------------------------------------------------------
(* GenericApplier.Apply and DBApplier *)

ReceiveRecord ==
    /\ replay.fpc = "send" /\ replay.apc = "recv"
    /\ replay' = [replay EXCEPT !.fpc = "read", !.apc = "apply", !.aop = replay.op]

ShouldSkip(kind) == kind \in {"n", "config"}

\* A record of a transaction is added to the buffer; a commit turns the buffer into a
\* stream, an abort purges it first. (The abort record itself is added under the id of
\* the transaction that is over, and nothing reads it.)
HandleTxnOp(kind) ==
    CASE kind = "part"   -> [replay EXCEPT !.apc = "recv", !.txn = Append(@, replay.aop)]
      [] kind = "abort"  -> [replay EXCEPT !.apc = "recv", !.txn = <<>>]
      [] kind = "commit" -> [replay EXCEPT !.apc = "txn", !.txn = <<>>,
                                           !.stream = Append(replay.txn, replay.aop)]

\* DBApplier.Apply.
ApplyRecord ==
    /\ replay.apc = "apply"
    /\ LET kind == replay.kind[replay.aop]
       IN  replay' = IF ShouldSkip(kind) THEN [replay EXCEPT !.apc = "recv"]
                     ELSE IF kind \in {"part", "abort", "commit"} THEN HandleTxnOp(kind)
                     ELSE [replay EXCEPT !.apc = "recv", !.db = Append(@, replay.aop)]

\* applyTxn, one record of the stream.
ApplyTxnOp ==
    /\ replay.apc = "txn"
    /\ replay' = IF replay.stream = <<>> THEN [replay EXCEPT !.apc = "recv"]
                 ELSE [replay EXCEPT !.db = Append(@, Head(replay.stream)),
                                     !.stream = Tail(@)]

\* The context is done: applyTxn leaves its loop without an error.
ApplyTxnCancelled ==
    /\ replay.apc = "txn" /\ replay.done
    /\ replay' = [replay EXCEPT !.apc = "recv", !.stream = <<>>]

\* The database refuses the operation, or the context was cancelled during the call.
ApplyFails ==
    /\ \/ replay.apc = "apply" /\ ~ ShouldSkip(replay.kind[replay.aop])
       \/ replay.apc = "txn" /\ replay.stream # <<>>
    /\ replay' = [replay EXCEPT !.apc = "end", !.err = TRUE, !.done = TRUE]

ApplierEnds ==
    /\ replay.apc = "recv" /\ replay.fpc = "end"
    /\ replay' = [replay EXCEPT !.apc = "end"]

--------------------------------------------------------------------------

HandleOplogReplayReturns ==
    /\ replay.fpc = "end" /\ replay.apc = "end" /\ replay.result = "none"
    /\ replay' = [replay EXCEPT !.result = IF replay.err THEN "error" ELSE "nil"]

ReplaySignal ==
    /\ replay.apc # "off" /\ replay.result = "none" /\ ~ replay.signalled
    /\ replay' = [replay EXCEPT !.done = TRUE, !.signalled = TRUE]

ReplayFault == DownloadFails \/ ReadFails \/ ApplyFails \/ ReplaySignal

ReplayStep(stored) ==
    \/ DownloadOplogArchive(stored) \/ ReadOp \/ FetchBetweenCancelled
    \/ ReceiveRecord \/ ApplyRecord \/ ApplyTxnOp \/ ApplyTxnCancelled \/ ApplierEnds
    \/ HandleOplogReplayReturns

--------------------------------------------------------------------------
(* What a replay promises. *)

\* The record at which the record at ts takes effect, 0 if it never does: its own
\* position, or the commit of its transaction when no abort comes first.
TakesEffectAt(range, kind, ts) ==
    LET outcome == {t \in range : t > ts /\ kind[t] \in {"commit", "abort"}}
    IN  CASE kind[ts] \in {"i", "commit"} -> ts
          [] kind[ts] = "part" /\ outcome # {} /\ kind[Min(outcome)] = "commit" -> Min(outcome)
          [] OTHER -> ZeroTS

ExpectedDB(range, kind) ==
    SetToSortSeq({t \in range : TakesEffectAt(range, kind, t) # ZeroTS},
        LAMBDA a, b : LET ea == TakesEffectAt(range, kind, a)
                          eb == TakesEffectAt(range, kind, b)
                      IN  ea < eb \/ (ea = eb /\ a < b))

\* Two archives that meet may both hold the record where they meet; applying it twice
\* in a row changes nothing.
WithoutRepeats(seq) ==
    FoldLeft(LAMBDA acc, x : IF acc # <<>> /\ Last(acc) = x THEN acc ELSE Append(acc, x), <<>>, seq)
==============================================================================
