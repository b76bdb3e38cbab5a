--------------------------- MODULE MCSourceWatch ---------------------------
(* A source of the AEMET's pace and one that syncs half as often. *)
EXTENDS SourceWatch

MCWatched == {"aemet", "effis"}
MCInterval == [s \in MCWatched |-> IF s = "aemet" THEN 1 ELSE 2]
=============================================================================
