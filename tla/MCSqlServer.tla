----------------------------- MODULE MCSqlServer -----------------------------
(* The proxy and the commands, each on its own: a behaviour is of one of them. *)
EXTENDS BlobServer, SqlServerBackups

CONSTANTS block1, block2, block3

VARIABLE part

\* Payloads 1 and 2 are uploaded; 11, 12 and 13 are there from the start.
MCSizeOf == (1 :> 2) @@ (2 :> 1) @@ (11 :> 2) @@ (12 :> 1) @@ (13 :> 2)
MCFirstContents == <<<<block1, 11>>, <<block2, 12>>, <<block3, 13>>>>

Symmetric == Permutations(Clients) \cup Permutations(DBs) \cup Permutations(Procs)

MCInit ==
    /\ part \in {"proxy", "commands"}
    /\ Init /\ BackupsInit
    /\ part = "commands" => disk = NoIndex

MCNext ==
    \/ part = "proxy" /\ Next /\ UNCHANGED <<backupVars, part>>
    \/ part = "commands" /\ BackupsNext /\ UNCHANGED <<blobVars, part>>

MCSpec == MCInit /\ [][MCNext]_<<blobVars, backupVars, part>>
=============================================================================
