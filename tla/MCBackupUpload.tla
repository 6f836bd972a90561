--------------------------- MODULE MCBackupUpload ---------------------------
(***************************************************************************)
(* Instances of BackupUpload for TLC.                                      *)
(***************************************************************************)
EXTENDS BackupUpload

CONSTANTS a, b, c, d, h

\* Two files of rating zero and two that were updated.
MCRating == [f \in Files |-> IF f \in {a, b} THEN 0 ELSE 1]

\* The rating composer dies with its second error.
MCMaxErrors == [k \in {"regular", "rating"} |-> IF k = "regular" THEN 2 ELSE 1]
=============================================================================
