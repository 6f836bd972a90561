---------------------------- MODULE OplogArchive ----------------------------
(***************************************************************************)
(* An archive of the MongoDB oplog in storage.  A timestamp is a natural   *)
(* number, ordered as LessTS orders the pairs of the code.  An archive is  *)
(* a record of what its name holds, and of the timestamps of its records.  *)
(***************************************************************************)
EXTENDS Integers, Sequences, FiniteSetsExt

ZeroTS == 0
NoArchive == [start |-> ZeroTS, end |-> ZeroTS, type |-> "none", ops |-> <<>>]

NewArchive(start, end, type, ops) ==
    [start |-> start, end |-> end, type |-> type, ops |-> ops]

Filename(a) == <<a.type, a.start, a.end>>

\* An upload replaces an archive of the same name.
Upload(storage, a) == {b \in storage : Filename(b) # Filename(a)} \cup {a}

LastKnownArchiveTS(storage) == Max({a.end : a \in storage} \cup {ZeroTS})
=============================================================================
