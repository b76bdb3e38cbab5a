----------------------------- MODULE EffisSync -----------------------------
(***************************************************************************)
(* effis_sync and ign_sync: a catalogue reconciled with the table          *)
(* (hazards/use_cases/sync_effis.py, sync_ign.py).  EFFIS serves hotspots, *)
(* which are instants, and burnt areas, which stay open while the layer    *)
(* serves them; the two layers are fetched one after the other.  IGN       *)
(* serves instants only: it is the case Lasting = {}, where no step closes *)
(* a row and nothing reads the cursor.                                     *)
(***************************************************************************)
EXTENDS HazardStore

CONSTANTS
    Lasting,     \* the ids of burnt areas; the others are instants
    Catalogues,  \* what the source may serve, functions from ids to records
    MaxTime,     \* bound: the instants of one behaviour
    MaxFaults    \* bound: failed and aborted syncs in one behaviour

Served == [observed_at : Instants, content : Contents]

ASSUME EffisSyncAssumption ==
    /\ Lasting \subseteq Ids
    /\ MaxTime \in Nat
    /\ MaxFaults \in Nat
    /\ \A c \in Catalogues : IsTableOf(Served, c)
    /\ NULL \notin Catalogues

VARIABLES
    now,           \* the clock
    catalogue,     \* what the source serves
    rows,          \* hazard_events of the source
    cursor,        \* source_sync_state.cursor["burnt_area_ids"]
    failures,      \* source_sync_state.consecutive_failures
    announced,     \* batch_at of the outbox events
    pc,            \* where the sync is
    hotspots,      \* the instants fetched
    burnt_areas,   \* the burnt areas fetched
    batch_at,      \* now() of the sync's transaction
    faults,        \* failed and aborted syncs so far
    reconciled     \* history: what the last committed sync had fetched, or <<>>

stored == <<rows, cursor, failures, announced, reconciled>>
fetched == <<hotspots, burnt_areas>>
vars == <<now, catalogue, stored, pc, fetched, batch_at, faults>>

Empty == [id \in {} |-> NULL]

\* Mutant: the layer name of the request is ignored.
OnlyIgnored(ids, c) == c

Only(ids, c) == [id \in DOMAIN c \cap ids |-> c[id]]

TypeOK ==
    /\ now \in 0 .. MaxTime
    /\ catalogue \in Catalogues
    /\ IsTableOf(Row, rows)
    /\ cursor \in SUBSET Lasting
    /\ failures \in 0 .. MaxFaults
    /\ announced \in SUBSET (0 .. MaxTime)
    /\ pc \in {"idle", "hotspots", "fetched", "transaction"}
    /\ IsTableOf(Served, hotspots) /\ DOMAIN hotspots \cap Lasting = {}
    /\ IsTableOf(Served, burnt_areas) /\ DOMAIN burnt_areas \subseteq Lasting
    /\ batch_at \in 0 .. now
    /\ faults \in 0 .. MaxFaults
    /\ failures <= faults

Init ==
    /\ now = 0
    /\ catalogue \in Catalogues
    /\ rows = Empty
    /\ cursor = {}
    /\ failures = 0
    /\ announced = {}
    /\ pc = "idle"
    /\ hotspots = Empty
    /\ burnt_areas = Empty
    /\ batch_at = 0
    /\ faults = 0
    /\ reconciled = <<>>

(***************************************************************************)
(* What a sync makes of the records it fetched.                            *)
(***************************************************************************)
\* Mutant: ends_at is the observation for burnt areas as well.
ToRowsInstant(c) ==
    [id \in DOMAIN c |-> [ends_at |-> c[id].observed_at, content |-> c[id].content]]

ToRows(c) ==
    [id \in DOMAIN c |-> [ends_at |-> IF id \in Lasting THEN NULL ELSE c[id].observed_at,
                          content |-> c[id].content]]

Batch ==
    ToRows([id \in DOMAIN hotspots \cup DOMAIN burnt_areas |->
                IF id \in Lasting THEN burnt_areas[id] ELSE hotspots[id]])

\* Mutant: nothing is closed, as before the lifecycle of burnt areas existed.
VanishedNone == [id \in {} |-> batch_at]

Vanished == [id \in cursor \ DOMAIN burnt_areas |-> batch_at]

AfterUpsert == Upsert(rows, Batch, batch_at)

Reconciled == CloseEvents(AfterUpsert, Vanished, batch_at)

\* Mutant: inserted + updated alone.
ChangedByUpsert == Upserted(rows, Batch) # {}

\* Mutant: an event for every batch.
ChangedAlways == TRUE

Changed == Upserted(rows, Batch) # {} \/ Closed(AfterUpsert, Vanished) # {}

(***************************************************************************)
(* The source.                                                             *)
(***************************************************************************)
Serve(c) ==
    /\ catalogue' = c
    /\ UNCHANGED <<now, stored, pc, fetched, batch_at, faults>>

(***************************************************************************)
(* The sync.                                                               *)
(***************************************************************************)
FetchHotspots ==
    /\ pc = "idle"
    /\ pc' = "hotspots"
    /\ hotspots' = Only(Ids \ Lasting, catalogue)
    /\ UNCHANGED <<now, catalogue, stored, burnt_areas, batch_at, faults>>

FetchBurntAreas ==
    /\ pc = "hotspots"
    /\ pc' = "fetched"
    /\ burnt_areas' = Only(Lasting, catalogue)
    /\ UNCHANGED <<now, catalogue, stored, hotspots, batch_at, faults>>

BeginTransaction ==
    /\ pc = "fetched"
    /\ pc' = "transaction"
    /\ batch_at' = now
    /\ UNCHANGED <<now, catalogue, stored, fetched, faults>>

Leave ==
    /\ pc' = "idle"
    /\ hotspots' = Empty
    /\ burnt_areas' = Empty

Commit ==
    /\ pc = "transaction"
    /\ rows' = Reconciled
    /\ cursor' = DOMAIN burnt_areas
    /\ failures' = 0
    /\ announced' = IF Changed THEN announced \cup {batch_at} ELSE announced
    /\ reconciled' = fetched
    /\ Leave
    /\ UNCHANGED <<now, catalogue, batch_at, faults>>

(***************************************************************************)
(* EffisError or IgnError, counted in a session of its own; and a timeout, *)
(* a crash or a database error, which leave no trace.                      *)
(***************************************************************************)
Fault == faults < MaxFaults /\ faults' = faults + 1

FetchFails ==
    /\ pc \in {"idle", "hotspots"}
    /\ failures' = failures + 1
    /\ Leave
    /\ Fault
    /\ UNCHANGED <<now, catalogue, rows, cursor, announced, reconciled, batch_at>>

Abort ==
    /\ pc # "idle"
    /\ Leave
    /\ Fault
    /\ UNCHANGED <<now, catalogue, stored, batch_at>>

Tick ==
    /\ now < MaxTime
    /\ now' = now + 1
    /\ UNCHANGED <<catalogue, stored, pc, fetched, batch_at, faults>>

(* For IGN, FetchHotspots is fetch_earthquakes and FetchBurntAreas brings nothing. *)
SyncStep == FetchHotspots \/ FetchBurntAreas \/ BeginTransaction \/ Commit

Next ==
    \/ \E c \in Catalogues : Serve(c)
    \/ SyncStep
    \/ FetchFails \/ Abort
    \/ Tick

Spec == Init /\ [][Next]_vars

(* The job runs again and again: JobWorker!JobsKeepRunning. *)
FairSpec == Spec /\ WF_vars(SyncStep)
-----------------------------------------------------------------------------
(***************************************************************************)
(* Properties                                                              *)
(***************************************************************************)

IsOpen(id) == id \in DOMAIN rows /\ rows[id].ends_at = NULL

(***************************************************************************)
(* The open events of the table are exactly the burnt areas that the last  *)
(* sync saw served: a fire that left the layer is closed, one that came    *)
(* back is open again, a hotspot never is (sync_effis.py 41-83, ADR-0016). *)
(***************************************************************************)
OpenIsServed == {id \in Ids : IsOpen(id)} = cursor

(***************************************************************************)
(* Every row can be found by the batch_at of a published event, also one a *)
(* batch did no more to than close (sync_effis.py 53-63).                  *)
(***************************************************************************)
EveryChangeAnnounced ==
    \A id \in DOMAIN rows : rows[id].written \in announced

(***************************************************************************)
(* A poll that fetches what the last one fetched writes no row and         *)
(* publishes nothing, whatever time passed or failed between them          *)
(* (ADR-0008).                                                             *)
(***************************************************************************)
NoChangePollIsNoOp ==
    [][pc = "transaction" /\ fetched = reconciled => UNCHANGED <<rows, announced>>]_vars

(***************************************************************************)
(* A fire served from some moment on is open in the end, and one no longer *)
(* served is closed, through failed and aborted syncs.                     *)
(***************************************************************************)
LayerIsTracked ==
    \A id \in Lasting :
        /\ <>[](id \in DOMAIN catalogue) => <>[]IsOpen(id)
        /\ <>[](id \notin DOMAIN catalogue) => <>[](~ IsOpen(id))
=============================================================================
