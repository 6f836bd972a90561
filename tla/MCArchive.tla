------------------------------ MODULE MCArchive ------------------------------
(***************************************************************************)
(* Three programs that move WAL and backups between a server and storage,  *)
(* each on its own: wal-receive, wal-fetch with its prefetchers, and copy. *)
(* A behaviour is of one of them; the others stay in one initial state,    *)
(* and fairness is asked for the one that runs.                            *)
(***************************************************************************)
EXTENDS WalReceive, WalFetch, CopyBackups, TLC

VARIABLE part

MCObjects == {<<"base", "b1", 1>>, <<"base", "b1", 2>>, <<"base", "b2", 1>>, <<"wal", "w", 1>>, <<"wal", "w", 2>>}
MCFinishLsn == [b \in Backups |-> IF b = "b1" THEN 4 ELSE 5]

MCInit ==
    /\ part \in {"receive", "fetch", "copy"}
    /\ part = "receive" \/ walEnd = 0
    /\ wanted = IF part = "fetch" THEN 1 ELSE Last + 1
    /\ ReceiveInit /\ FetchInit /\ CopyInit

MCNext ==
    \/ part = "receive" /\ ReceiveNext /\ UNCHANGED <<fetchVars, copyVars, part>>
    \/ part = "fetch" /\ FetchNext /\ UNCHANGED <<receiveVars, copyVars, part>>
    \/ part = "copy" /\ CopyNext /\ UNCHANGED <<receiveVars, fetchVars, part>>

MCSpec ==
    /\ MCInit /\ [][MCNext]_<<receiveVars, fetchVars, copyVars, part>>
    /\ WF_receiveVars(part = "receive" /\ Receiver)
    /\ WF_receiveVars(part = "receive" /\ Crash /\ receivePc = "failed")
    /\ FetchFairness
    /\ WF_copyVars(part = "copy" /\ CopyNext)
=============================================================================
