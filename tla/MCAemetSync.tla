---------------------------- MODULE MCAemetSync ----------------------------
(***************************************************************************)
(* Three identifiers: an alert x, an update y of it, and a cancel c.  The  *)
(* bulletins carry x alone, in two versions, x replaced by y, x and y      *)
(* together, the cancel, and nothing.                                      *)
(***************************************************************************)
EXTENDS AemetSync, TLC

CONSTANTS x, y, c, v1, v2

Cap(type, sent, expires, content, references) ==
    [msg_type |-> type, risk |-> TRUE, sent |-> sent, expires |-> expires,
     content |-> content, references |-> references]

Alert == Cap("Alert", 0, 3, v1, {})
Shortened == Cap("Alert", 0, 2, v2, {})
Update == Cap("Update", 1, 4, v1, {x})
Cancel == [Cap("Cancel", 1, 0, v1, {x, y}) EXCEPT !.risk = FALSE]

MCBulletins ==
    {<<>>, x :> Alert, x :> Shortened, y :> Update,
     (x :> Alert) @@ (y :> Update), c :> Cancel}
=============================================================================
