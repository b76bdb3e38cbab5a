---------------------------- MODULE HazardStore ----------------------------
(***************************************************************************)
(* The rows of one source in hazard_events and what HazardEventRepo does   *)
(* to them (hazards/repos/hazard_event.py).  A table is a function from    *)
(* the external_ids present to rows.  written is the mark by which the     *)
(* later readers of a batch find its rows: now() of the transaction, in    *)
(* created_at for an insert and in updated_at for an update or a close.    *)
(* Geometry, attributes and content_hash are one value, content.           *)
(***************************************************************************)
EXTENDS Integers

CONSTANTS
    Ids,        \* external_id
    Contents,   \* what content_hash tells apart
    NULL        \* ends_at of an event that is open

ASSUME HazardStoreAssumption == NULL \notin Int

Instants == Nat

Record == [ends_at : Instants \cup {NULL}, content : Contents]

Row == [ends_at : Instants \cup {NULL}, content : Contents, written : Instants]

IsTableOf(Rows, f) ==
    /\ f = [id \in DOMAIN f |-> f[id]]
    /\ DOMAIN f \subseteq Ids
    /\ \A id \in DOMAIN f : f[id] \in Rows

(***************************************************************************)
(* upsert_batch: the ids the statement returns, and the table after it.    *)
(***************************************************************************)
\* Mutant: the WHERE compares the content alone.
DistinctContent(row, rec) == row.content # rec.content

Distinct(row, rec) == row.content # rec.content \/ row.ends_at # rec.ends_at

Upserted(rows, batch) ==
    {id \in DOMAIN batch : id \in DOMAIN rows => Distinct(rows[id], batch[id])}

Upsert(rows, batch, mark) ==
    [id \in DOMAIN rows \cup DOMAIN batch |->
        IF id \in Upserted(rows, batch)
        THEN [ends_at |-> batch[id].ends_at, content |-> batch[id].content, written |-> mark]
        ELSE rows[id]]

(***************************************************************************)
(* close_events, for an instant per id: only the rows still open then.     *)
(***************************************************************************)
\* Mutant: no condition on ends_at.
OpenAtAlways(row, at) == TRUE

OpenAt(row, at) == row.ends_at = NULL \/ row.ends_at > at

Closed(rows, ended) ==
    {id \in DOMAIN rows \cap DOMAIN ended : OpenAt(rows[id], ended[id])}

\* Mutant: a close of an identifier the table does not have inserts it.
CloseEventsInserting(rows, ended, mark) ==
    [id \in DOMAIN rows \cup DOMAIN ended |->
        IF id \notin DOMAIN rows THEN [ends_at |-> ended[id], written |-> mark]
        ELSE IF id \in Closed(rows, ended)
        THEN [rows[id] EXCEPT !.ends_at = ended[id], !.written = mark]
        ELSE rows[id]]

CloseEvents(rows, ended, mark) ==
    [id \in DOMAIN rows |->
        IF id \in Closed(rows, ended)
        THEN [rows[id] EXCEPT !.ends_at = ended[id], !.written = mark]
        ELSE rows[id]]
=============================================================================
