--------------------------- MODULE StreamingBackup ---------------------------
(***************************************************************************)
(* A remote backup: StreamingBaseBackup receives a tar of each tablespace  *)
(* from the server, the data directory last, and TarballStreamer writes    *)
(* them again as tars of limited size, with files renamed, listed, and     *)
(* pg_control in a tar of its own besides.                                 *)
(*                                                                         *)
(* A tar is a sequence of units: the header of a file, then the units of   *)
(* its data.  A unit is <<t, i, k>>: unit k of file i of tablespace t, the *)
(* header for k = 0.  A tar that was closed ends with End.                 *)
(***************************************************************************)
EXTENDS Integers, Sequences, SequencesExt

CONSTANTS
    Inputs,         \* sequences of tablespaces, each a sequence of files [size, dir, control]
    MaxTarSize,     \* WALG_TAR_SIZE_THRESHOLD, in units
    InputBuf,       \* ioBufSize
    MaxCopyData,    \* most units in a message
    MaxRead         \* most units the uploader reads at a time

ASSUME StreamAssumption ==
    /\ MaxTarSize \in Nat /\ InputBuf \in Nat \ {0} /\ MaxCopyData \in Nat \ {0} /\ MaxRead \in Nat \ {0}
    /\ \A input \in Inputs : \A t \in DOMAIN input : \A i \in DOMAIN input[t] :
        input[t][i].size \in Nat /\ (input[t][i].dir => input[t][i].size = 0)

VARIABLES
    input,      \* member of Inputs
    streamPc,   \* where Read of the TarballStreamer is
    bb,         \* StreamingBaseBackup: [tbsPointer, tbsStreaming, buffer, sent]
    streamer,   \* TarballStreamer
    parts,      \* the tars uploaded, the last one in work
    meta        \* [control: the tar of pg_control, sentinel: it was uploaded]

streamVars == <<input, streamPc, bb, streamer, parts, meta>>

End == <<0, 0, 0>>
None == [id |-> End, remapped |-> FALSE]

Units(t, i) == [k \in 1 .. input[t][i].size + 1 |-> <<t, i, k - 1>>]
TablespaceTar(t) == FlattenSeq([i \in DOMAIN input[t] |-> Units(t, i)])
File(id) == input[id[1]][id[2]]

-----------------------------------------------------------------------------
(* StreamingBaseBackup *)

Start == [tbsPointer |-> 0, tbsStreaming |-> FALSE, buffer |-> <<>>, sent |-> 0]

\* nextTbs: files of the data directory may go to the extra tar, the names of all
\* others get the tablespace's path.
nextTbs ==
    LET tbs == bb.tbsPointer + 1
    IN  /\ bb' = [bb EXCEPT !.tbsStreaming = TRUE, !.tbsPointer = tbs, !.sent = 0]
        /\ streamer' = [streamer EXCEPT !.Tee = tbs = Len(input), !.Remaps = tbs < Len(input)]

\* streamFromPostgres, when its buffer was read: on to the next tablespace, some data,
\* or the end of a tablespace.
streamFromPostgres ==
    /\ streamPc \in {"header", "data"} /\ bb.buffer = <<>>
    /\ IF ~bb.tbsStreaming
       THEN IF bb.tbsPointer = Len(input)
            THEN streamPc' = "eof" /\ UNCHANGED <<bb, streamer>>
            ELSE nextTbs /\ UNCHANGED streamPc
       ELSE /\ LET tar == TablespaceTar(bb.tbsPointer)
               IN  IF bb.sent = Len(tar) THEN bb' = [bb EXCEPT !.tbsStreaming = FALSE]
                   ELSE \E n \in 1 .. MaxCopyData :
                        /\ bb.sent + n <= Len(tar)
                        /\ bb' = [bb EXCEPT !.buffer = SubSeq(tar, bb.sent + 1, bb.sent + n), !.sent = @ + n]
            /\ UNCHANGED <<streamPc, streamer>>
    /\ UNCHANGED <<input, parts, meta>>

\* Nothing buffered, nothing streaming, no tablespace left.
AllStreamed == bb.buffer = <<>> /\ ~bb.tbsStreaming /\ bb.tbsPointer = Len(input)

-----------------------------------------------------------------------------
(* TarballStreamer *)

NewTarballStreamer ==
    [curHeader |-> None, fileReadIndex |-> 0, open |-> FALSE, tarFileReadIndex |-> 0, outputIo |-> <<>>,
     Tee |-> FALSE, teeing |-> FALSE, TeeIo |-> <<>>, Remaps |-> FALSE, Files |-> {}]

\* A unit as it is written: the name in a header is that of the file in the data
\* directory once the tablespace's path is put before it.
remap(id) == [id |-> id, remapped |-> streamer.Remaps]

\* Read: what is in the output buffer goes first.
pipeFileData ==
    /\ streamPc = "read"
    /\ streamPc' = IF streamer.outputIo # <<>> THEN "out" ELSE "file"
    /\ UNCHANGED <<input, bb, streamer, parts, meta>>

\* Mutant: the header of the file that did not fit is not written to the next tar.
NextInputFileNoHeader ==
    /\ streamPc = "file"
    /\ LET header == streamer.curHeader
           known == header # None
       IN  /\ streamer' = [streamer EXCEPT
                    !.open = TRUE,
                    !.tarFileReadIndex = IF streamer.open THEN @ ELSE 0,
                    !.curHeader = IF known /\ File(header.id).dir THEN None ELSE @]
           /\ streamPc' = IF ~known THEN "header" ELSE IF File(header.id).dir THEN "out" ELSE "data"
    /\ UNCHANGED <<input, bb, parts, meta>>

\* NextInputFile, to the point where it needs the next header: a new tar begins with
\* the file that did not fit into the one before.
NextInputFile ==
    /\ streamPc = "file"
    /\ LET header == streamer.curHeader
           known == header # None
       IN  /\ streamer' = [streamer EXCEPT
                    !.open = TRUE,
                    !.tarFileReadIndex = IF streamer.open THEN @ ELSE 0,
                    !.outputIo = IF ~streamer.open /\ known THEN Append(@, header) ELSE @,
                    !.curHeader = IF known /\ File(header.id).dir THEN None ELSE @]
           /\ streamPc' = IF ~known THEN "header" ELSE IF File(header.id).dir THEN "out" ELSE "data"
    /\ UNCHANGED <<input, bb, parts, meta>>

\* addFile
addFile(header) ==
    LET file == File(header.id)
        control == streamer.Tee /\ file.control
    IN  [streamer EXCEPT
            !.curHeader = IF file.dir THEN None ELSE header,
            !.fileReadIndex = 0,
            !.outputIo = Append(@, header),
            !.teeing = control,
            !.TeeIo = IF control THEN Append(@, header) ELSE @,
            !.Files = IF file.dir THEN @ ELSE @ \cup {header.id},
            !.tarFileReadIndex = @ + file.size]

\* NextInputFile, the next header: a file that would make the tar too large ends it.
NextHeader ==
    /\ streamPc = "header" /\ bb.buffer # <<>>
    /\ LET header == remap(Head(bb.buffer))
           file == File(header.id)
       IN  IF \/ streamer.tarFileReadIndex = 0 /\ file.size >= MaxTarSize
              \/ streamer.tarFileReadIndex + file.size < MaxTarSize
           THEN /\ streamer' = addFile(header)
                /\ streamPc' = IF file.dir THEN "out" ELSE "data"
           ELSE /\ streamer' = [streamer EXCEPT !.curHeader = header, !.fileReadIndex = 0]
                /\ streamPc' = "split"
    /\ bb' = [bb EXCEPT !.buffer = Tail(@)]
    /\ UNCHANGED <<input, parts, meta>>

\* readFileData and the rest of pipeFileData: a piece of the file, to the output and
\* the tee.
readFileData ==
    /\ streamPc = "data"
    /\ LET header == streamer.curHeader
           left == File(header.id).size - streamer.fileReadIndex
       IN  \E n \in 0 .. InputBuf :
            /\ n <= Len(bb.buffer) /\ n <= left
            /\ n = InputBuf \/ n = Len(bb.buffer) \/ n = left
            /\ n = 0 => left = 0
            /\ LET data == [k \in 1 .. n |-> remap(bb.buffer[k])]
               IN  streamer' = [streamer EXCEPT
                        !.fileReadIndex = @ + n,
                        !.outputIo = @ \o data,
                        !.TeeIo = IF streamer.teeing THEN @ \o data ELSE @,
                        !.curHeader = IF n = left THEN None ELSE @]
            /\ bb' = [bb EXCEPT !.buffer = SubSeq(@, n + 1, Len(@))]
    /\ streamPc' = "out"
    /\ UNCHANGED <<input, parts, meta>>

AddToPart(data) == [parts EXCEPT ![Len(parts)] = @ \o data]

\* Read returns what its caller has room for.
Read ==
    /\ streamPc = "out" /\ streamer.outputIo # <<>>
    /\ \E n \in 1 .. MaxRead :
        /\ n <= Len(streamer.outputIo)
        /\ parts' = AddToPart(SubSeq(streamer.outputIo, 1, n))
        /\ streamer' = [streamer EXCEPT !.outputIo = SubSeq(@, n + 1, Len(@))]
    /\ streamPc' = "read"
    /\ UNCHANGED <<input, bb, meta>>

\* Upload: on to the next tar, or all was streamed, or the upload failed.
NextPart(closed) ==
    \/ parts' = closed /\ streamPc' = "failed"
    \/ /\ parts' = IF AllStreamed THEN closed ELSE Append(closed, <<>>)
       /\ streamPc' = IF AllStreamed THEN "tee" ELSE "read"

\* Read at the end of an output tar.
ReadSplit ==
    /\ streamPc = "split"
    /\ streamer' = [streamer EXCEPT !.open = FALSE, !.outputIo = <<>>, !.tarFileReadIndex = 0]
    /\ NextPart(AddToPart(<<remap(End)>>))
    /\ UNCHANGED <<input, bb, meta>>

\* Read at the end of the input: the tar is not closed.
ReadEOF ==
    /\ streamPc = "eof"
    /\ NextPart(parts)
    /\ UNCHANGED <<input, bb, streamer, meta>>

\* Upload, the extra tar.
UploadTee ==
    /\ streamPc = "tee"
    /\ \/ meta' = [meta EXCEPT !.control = IF streamer.Tee THEN streamer.TeeIo ELSE @] /\ streamPc' = "finish"
       \/ streamPc' = "failed" /\ UNCHANGED meta
    /\ UNCHANGED <<input, bb, streamer, parts>>

\* Finish: the server ends the backup, or says why it cannot.
Finish ==
    /\ streamPc = "finish"
    /\ streamPc' \in {"metadata", "failed"}
    /\ UNCHANGED <<input, bb, streamer, parts, meta>>

\* createAndPushRemoteBackup, when runRemoteBackup returned.
uploadMetadata ==
    /\ streamPc = "metadata"
    /\ \/ meta' = [meta EXCEPT !.sentinel = TRUE] /\ streamPc' = "uploaded"
       \/ streamPc' = "failed" /\ UNCHANGED meta
    /\ UNCHANGED <<input, bb, streamer, parts>>

StreamInit ==
    /\ input \in Inputs
    /\ streamPc = "read" /\ bb = Start /\ streamer = NewTarballStreamer /\ parts = <<<<>>>>
    /\ meta = [control |-> <<>>, sentinel |-> FALSE]

StreamNext ==
    \/ streamFromPostgres \/ pipeFileData \/ NextInputFile \/ NextHeader \/ readFileData
    \/ Read \/ ReadSplit \/ ReadEOF \/ UploadTee \/ Finish \/ uploadMetadata

StreamSpec == StreamInit /\ [][StreamNext]_streamVars

-----------------------------------------------------------------------------
InFile(u) == <<u.id[1], u.id[2]>>

\* What the tars of a backup with a sentinel hold together is what the server sent, in its order, the files of a
\* tablespace under its path; no file is in two tars and each tar but the last is
\* closed, wherever the messages, the buffers and the tars end (TarballStreamer.Read,
\* NextInputFile, StreamingBaseBackup.Upload).
TarsExact ==
    meta.sentinel =>
        LET all == FlattenSeq(parts)
            sent == FlattenSeq([t \in DOMAIN input |-> TablespaceTar(t)])
            kept == SelectSeq(all, LAMBDA u : u.id # End)
        IN  /\ [k \in DOMAIN kept |-> kept[k].id] = sent
            /\ \A k \in DOMAIN kept : kept[k].remapped = (kept[k].id[1] < Len(input))
            /\ \A p \in 1 .. Len(parts) - 1 : parts[p] # <<>> /\ Last(parts[p]).id = End
            /\ \A p, q \in DOMAIN parts : p # q =>
                {InFile(u) : u \in Range(parts[p])} \cap {InFile(u) : u \in Range(parts[q])} \subseteq {<<0, 0>>}

\* The streamer lists every file that it wrote (tarball_streamer.go, "maintains a list
\* of files with their info"; what is not on the list of a backup is not restored).
FilesListed ==
    meta.sentinel =>
        \A u \in Range(FlattenSeq(parts)) :
            u.id # End /\ u.id[3] = 0 => File(u.id).dir \/ u.id \in streamer.Files
=============================================================================
