----------------------------- MODULE AtomicBlob -----------------------------
(***************************************************************************)
(* What the proxy promises of a blob: its durable content changes only to  *)
(* a content that a client asked for, in one step, and a request that is   *)
(* answered with success has made its content the durable one.             *)
(***************************************************************************)
EXTENDS Integers, Sequences

CONSTANT Absent     \* the content of a blob that does not exist

VARIABLES
    content,    \* what a server started now would serve
    asked       \* contents asked for since the last answer of success, in order

Ask == content' = content /\ asked' # <<>> /\ asked = SubSeq(asked', 1, Len(asked') - 1)

Commit == (\E i \in DOMAIN asked : content' = asked[i]) /\ UNCHANGED asked

Answer == asked # <<>> /\ content = asked[Len(asked)] /\ asked' = <<>> /\ UNCHANGED content

Delete == content' = Absent /\ asked' = <<>>

Init == asked = <<>>

Next == Ask \/ Commit \/ Answer \/ Delete

Spec == Init /\ [][Next]_<<content, asked>>
=============================================================================
