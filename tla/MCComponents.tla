---------------------------- MODULE MCComponents ----------------------------
(***************************************************************************)
(* Components that share nothing but storage, each on its own: a behaviour *)
(* is of one of them, and the others stay in one initial state.            *)
(***************************************************************************)
EXTENDS MySqlBinlogs, WalVerify, WalDelta, MCStream, LibsodiumStream, StreamBackups, GpBackups

CONSTANTS Lengths, MaxPattern

VARIABLE part

\* Records of these lengths, repeated with a period of at most MaxPattern.
MCPatterns == UNION {[1 .. n -> Lengths] : n \in 1 .. MaxPattern}

MCInit ==
    /\ part \in {"binlogs", "verify", "delta", "streaming", "sodium", "streams", "greenplum"}
    /\ part = "verify" \/ (switchpoints = <<>> /\ archive = {} /\ backups = {} /\ start = WalSegment(1, 2))
    /\ part = "delta" \/ pattern = <<0>>
    /\ part = "streaming" \/ input = CHOOSE i \in Inputs : TRUE
    /\ part = "sodium" \/ length = 1
    /\ part = "streams" \/ db = "fdb"
    /\ part = "greenplum" \/ primary = [c \in Contents |-> CHOOSE h \in Hosts : TRUE]
    /\ BinlogInit /\ VerifyInit /\ DeltaInit /\ StreamInit /\ SodiumInit /\ StreamBackupsInit /\ GpInit

all == <<binlogVars, verifyVars, deltaVars, streamVars, sodiumVars, streamBackupsVars, gpVars>>

MCNext ==
    /\ UNCHANGED part
    /\ part # "binlogs" => UNCHANGED binlogVars
    /\ part # "verify" => UNCHANGED verifyVars
    /\ part # "delta" => UNCHANGED deltaVars
    /\ part # "streaming" => UNCHANGED streamVars
    /\ part # "sodium" => UNCHANGED sodiumVars
    /\ part # "streams" => UNCHANGED streamBackupsVars
    /\ part # "greenplum" => UNCHANGED gpVars
    /\ \/ part = "binlogs" /\ BinlogNext
       \/ part = "verify" /\ VerifyNext
       \/ part = "delta" /\ DeltaNext
       \/ part = "streaming" /\ StreamNext
       \/ part = "sodium" /\ SodiumNext
       \/ part = "streams" /\ StreamBackupsNext
       \/ part = "greenplum" /\ GpNext

MCSpec == MCInit /\ [][MCNext]_<<all, part>>
=============================================================================
