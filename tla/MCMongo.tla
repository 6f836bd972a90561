------------------------------ MODULE MCMongo ------------------------------
(***************************************************************************)
(* A behaviour is either of oplog-push on each node of a replica set whose *)
(* primary moves, or of a replica set of one node with its backups, purges *)
(* and replays.                                                            *)
(***************************************************************************)
EXTENDS MongoPitr

VARIABLE part

\* A transaction that is committed, one that is aborted, and records that are skipped.
MCContents == {<<"i", "part", "commit">>, <<"part", "i", "abort">>, <<"n", "i", "config">>}

\* The node of the replica set of one node.
Solo == CHOOSE n \in Nodes : TRUE

PushOnly(A) == part = "push" /\ A /\ UNCHANGED <<adminVars, replay, part>>

PitrOnly(A) ==
    /\ part = "pitr" /\ A
    /\ primary' = Solo /\ \A n \in Nodes \ {Solo} : UNCHANGED (proc[n])
    /\ UNCHANGED part

MCInit ==
    /\ part \in {"push", "pitr"}
    /\ PushInit /\ AdminInit
    /\ part = "pitr" => Init

MCNext == PushOnly(PushNext) \/ PitrOnly(Next)

MCSpec ==
    /\ MCInit /\ [][MCNext]_<<vars, part>>
    /\ \A n \in Nodes : WF_<<vars, part>>(PushOnly(PushStep(n)))
    /\ WF_<<vars, part>>(PitrOnly(Archiver(Solo)))
    /\ WF_<<vars, part>>(PitrOnly(Replayer))

\* NothingLostSilently of the replica set whose primary moves: where archives are
\* also purged, a record may leave the archives before a look at them.
NothingLost == part = "push" => NothingLostSilently
=============================================================================
