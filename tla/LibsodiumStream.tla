--------------------------- MODULE LibsodiumStream ---------------------------
(***************************************************************************)
(* internal/crypto/libsodium: an object is encrypted in chunks of          *)
(* ChunkSize, the last one shorter and tagged final, and decrypted again   *)
(* from reads of whole chunks.  Plain data are 1, 2 ... length; a chunk    *)
(* is its data and its tag, and takes Abytes more than its data.           *)
(***************************************************************************)
EXTENDS Integers, Sequences

CONSTANTS
    ChunkSize, Abytes,
    MaxLength,      \* most data in an object
    MaxPiece,       \* most data in a call of Write or Read
    Damage          \* what may befall the object: "empty", "truncated"; see README

ASSUME SodiumAssumption ==
    /\ ChunkSize \in Nat \ {0} /\ Abytes \in Nat \ {0} /\ MaxLength \in Nat /\ MaxPiece \in Nat \ {0}
    /\ Damage \subseteq {"empty", "truncated"}

VARIABLES
    length,
    sodiumPc,       \* "write", "read", "eof" or "error"
    header,         \* onceHeader: the header was written
    in, written,    \* the Writer's buffer, and the data it was given
    object,         \* the chunks in the storage
    out, decrypted  \* the Reader's buffer, and the data it returned

sodiumVars == <<length, sodiumPc, header, in, written, object, out, decrypted>>

Smaller(a, b) == IF a < b THEN a ELSE b

\* writeNextChunk
writeNextChunk(data, last) == Append(object, [data |-> data, final |-> last])

\* Mutant: the chunk is encrypted when more data come than it can hold.
WriteLate ==
    /\ sodiumPc = "write" /\ written < length
    /\ \E n \in 1 .. MaxPiece :
        LET room == IF Len(in) = ChunkSize THEN ChunkSize ELSE ChunkSize - Len(in)
            count == Smaller(Smaller(n, length - written), room)
            data == [k \in 1 .. count |-> written + k]
        IN  /\ written' = written + count
            /\ object' = IF Len(in) = ChunkSize THEN writeNextChunk(in, FALSE) ELSE object
            /\ in' = IF Len(in) = ChunkSize THEN data ELSE in \o data
    /\ header' = TRUE
    /\ UNCHANGED <<length, sodiumPc, out, decrypted>>

\* Write, once round its loop: a full buffer is encrypted at once.
Write ==
    /\ sodiumPc = "write" /\ written < length
    /\ \E n \in 1 .. MaxPiece :
        LET count == Smaller(Smaller(n, length - written), ChunkSize - Len(in))
            data == in \o [k \in 1 .. count |-> written + k]
        IN  /\ written' = written + count
            /\ object' = IF Len(data) = ChunkSize THEN writeNextChunk(data, FALSE) ELSE object
            /\ in' = IF Len(data) = ChunkSize THEN <<>> ELSE data
    /\ header' = TRUE
    /\ UNCHANGED <<length, sodiumPc, out, decrypted>>

\* Close, and the object may lose its end.
Close ==
    /\ sodiumPc = "write" /\ written = length
    /\ LET closed == writeNextChunk(in, TRUE)
       IN  object' \in {closed} \cup {SubSeq(closed, 1, n) : n \in IF "truncated" \in Damage THEN 0 .. Len(object) ELSE {}}
    /\ in' = <<>>
    /\ sodiumPc' = IF header THEN "read" ELSE "error"
    /\ UNCHANGED <<length, header, written, out, decrypted>>

\* readNextChunk: a chunk that is not final must be whole, the final one must not be.
readNextChunk ==
    /\ sodiumPc = "read" /\ out = <<>>
    /\ IF object = <<>> THEN sodiumPc' = "eof" /\ UNCHANGED <<object, out>>
       ELSE LET chunk == Head(object)
                n == Len(chunk.data) + Abytes
                whole == n = ChunkSize + Abytes
            IN  /\ object' = Tail(object)
                /\ IF (chunk.final /\ whole) \/ (~whole /\ Len(object) > 1)
                   THEN sodiumPc' = "error" /\ UNCHANGED out
                   ELSE out' = chunk.data /\ UNCHANGED sodiumPc
    /\ UNCHANGED <<length, header, in, written, decrypted>>

\* Read
ReadDecrypted ==
    /\ sodiumPc = "read" /\ out # <<>>
    /\ \E n \in 1 .. MaxPiece :
        LET count == Smaller(n, Len(out))
        IN  /\ decrypted' = decrypted \o SubSeq(out, 1, count)
            /\ out' = SubSeq(out, count + 1, Len(out))
    /\ UNCHANGED <<length, sodiumPc, header, in, written, object>>

SodiumInit ==
    /\ length \in (IF "empty" \in Damage THEN 0 ELSE 1) .. MaxLength
    /\ sodiumPc = "write" /\ header = FALSE /\ in = <<>> /\ written = 0
    /\ object = <<>> /\ out = <<>> /\ decrypted = <<>>

SodiumNext == Write \/ Close \/ readNextChunk \/ ReadDecrypted

SodiumSpec == SodiumInit /\ [][SodiumNext]_sodiumVars

\* What is decrypted is what was encrypted, to its end, whatever the sizes of the
\* reads and writes and wherever the data end in a chunk (Writer.Write, Writer.Close,
\* Reader.Read, Reader.readNextChunk).
DecryptsExact ==
    /\ sodiumPc # "error"
    /\ sodiumPc = "eof" => decrypted = [k \in 1 .. length |-> k]
=============================================================================
