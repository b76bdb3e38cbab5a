------------------------------ MODULE MCOutbox ------------------------------
(***************************************************************************)
(* Two processes and two events: e1 with the two handlers of               *)
(* BATCH_INGESTED, e2 of a type whose handlers nobody imported.            *)
(***************************************************************************)
EXTENDS Outbox, TLC

CONSTANTS e1, e2, w1, w2, export_geoparquet, match_notifications

MCHandlersOf == (e1 :> <<export_geoparquet, match_notifications>>) @@ (e2 :> <<>>)
MCBackoff == <<{1}, {1}>>
=============================================================================
