------------------------------ MODULE MCStream ------------------------------
(* Base backups of one tablespace and a data directory that ends with        *)
(* pg_control, the files of a few sizes.                                     *)
EXTENDS StreamingBackup

CONSTANTS Sizes, MaxFiles

Dir == [size |-> 0, dir |-> TRUE, control |-> FALSE]
Plain == {[size |-> n, dir |-> FALSE, control |-> FALSE] : n \in Sizes}
Control == [size |-> 1, dir |-> FALSE, control |-> TRUE]

MCInputs == {<<t, Append(d, Control)>> : t \in SeqOf(Plain, 1), d \in SeqOf(Plain \cup {Dir}, MaxFiles)}
=============================================================================
