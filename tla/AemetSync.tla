----------------------------- MODULE AemetSync -----------------------------
(***************************************************************************)
(* aemet_sync: the AEMET bulletin reconciled with the table (jobs/handlers *)
(* /aemet_sync.py, hazards/use_cases/sync_aemet.py).  The source issues    *)
(* bulletins when it likes; a sync fetches one with no transaction open,   *)
(* and writes everything that follows from it in one transaction: rows,    *)
(* closes, cursor and outbox event.  JobWorkerProofs!ValidatedLeaseExcludes *)
(* is why one sync runs at a time.                                         *)
(***************************************************************************)
EXTENDS HazardStore

CONSTANTS
    Bulletins,  \* the bulletins AEMET may issue, functions from identifiers
                \* to CAP messages
    MaxTime,    \* bound: the instants of one behaviour
    MaxFailures \* bound: consecutive failures counted

Message == [msg_type : {"Alert", "Update", "Cancel"},
            risk : BOOLEAN,            \* a level over verde, polygon and window
            sent : Instants,
            expires : Instants,
            content : Contents,
            references : SUBSET Ids]

ASSUME AemetSyncAssumption ==
    /\ MaxTime \in Nat
    /\ MaxFailures \in Nat
    /\ \A b \in Bulletins : IsTableOf(Message, b)
    /\ NULL \notin Bulletins

VARIABLES
    now,         \* the clock
    bulletin,    \* what AEMET serves, or NULL
    rows,        \* hazard_events of the source
    cursor,      \* source_sync_state.cursor["identifiers"]
    failures,    \* source_sync_state.consecutive_failures
    announced,   \* batch_at of the outbox events
    pc,          \* where the sync is
    fetched,     \* warnings, what the sync fetched, or NULL
    batch_at,    \* now() of the sync's transaction
    reconciled   \* history: the bulletin of the last committed sync, or NULL

syncVars == <<pc, fetched, batch_at>>
stored == <<rows, cursor, failures, announced, reconciled>>
vars == <<now, bulletin, stored, syncVars>>

TypeOK ==
    /\ now \in 0 .. MaxTime
    /\ bulletin \in Bulletins \cup {NULL}
    /\ IsTableOf(Row, rows)
    /\ cursor \in SUBSET Ids
    /\ failures \in 0 .. MaxFailures
    /\ announced \in SUBSET (0 .. MaxTime)
    /\ pc \in {"idle", "fetched", "transaction"}
    /\ fetched \in Bulletins \cup {NULL}
    /\ batch_at \in 0 .. MaxTime
    /\ reconciled \in Bulletins \cup {NULL}
    /\ pc # "idle" => fetched \in Bulletins
    /\ batch_at <= now

Init ==
    /\ now = 0
    /\ bulletin = NULL
    /\ rows = [id \in {} |-> NULL]
    /\ cursor = {}
    /\ failures = 0
    /\ announced = {}
    /\ pc = "idle"
    /\ fetched = NULL
    /\ batch_at = 0
    /\ reconciled = NULL

(***************************************************************************)
(* What a sync makes of the warnings it fetched.                           *)
(***************************************************************************)
Ingestible(w) ==
    {id \in DOMAIN w : w[id].msg_type \in {"Alert", "Update"} /\ w[id].risk}

ToRows(w) ==
    [id \in Ingestible(w) |-> [ends_at |-> w[id].expires, content |-> w[id].content]]

Superseding(w, id) ==
    {m \in DOMAIN w : w[m].msg_type \in {"Update", "Cancel"} /\ id \in w[m].references}

(* One UPDATE per sent, in any order: the earliest sent remains. *)
EarliestSent(w, id) ==
    CHOOSE t \in {w[m].sent : m \in Superseding(w, id)} :
        \A m \in Superseding(w, id) : t <= w[m].sent

Superseded(w) ==
    [id \in {id \in Ids : Superseding(w, id) # {}} |-> EarliestSent(w, id)]

\* Mutant: the closes at the Python clock instead of the mark of the batch.
VanishedNow(w) == [id \in cursor \ Ingestible(w) |-> now]

Vanished(w) == [id \in cursor \ Ingestible(w) |-> batch_at]

AfterUpsert(w) == Upsert(rows, ToRows(w), batch_at)

AfterSuperseded(w) == CloseEvents(AfterUpsert(w), Superseded(w), batch_at)

\* Mutant: the referenced warnings are closed before the batch is written.
ReconciledReopening(w) ==
    CloseEvents(
        Upsert(CloseEvents(rows, Superseded(w), batch_at), ToRows(w), batch_at),
        Vanished(w), batch_at)

Reconciled(w) == CloseEvents(AfterSuperseded(w), Vanished(w), batch_at)

\* Mutant: inserted + updated alone, as when the event was first introduced.
ChangedByUpsert(w) == Upserted(rows, ToRows(w)) # {}

Changed(w) ==
    \/ Upserted(rows, ToRows(w)) # {}
    \/ Closed(AfterUpsert(w), Superseded(w)) # {}
    \/ Closed(AfterSuperseded(w), Vanished(w)) # {}

\* Mutant: the cursor of the warnings just inserted.
CursorOfInserted(w) == Ingestible(w) \ DOMAIN rows

Cursor(w) == Ingestible(w)

(***************************************************************************)
(* The source.  sent is of its clock, not of ours.                         *)
(***************************************************************************)
Issue(b) ==
    /\ bulletin' = b
    /\ UNCHANGED <<now, stored, syncVars>>

(***************************************************************************)
(* The sync.                                                               *)
(***************************************************************************)
Fetch ==
    /\ pc = "idle"
    /\ bulletin # NULL
    /\ pc' = "fetched"
    /\ fetched' = bulletin
    /\ UNCHANGED <<now, bulletin, stored, batch_at>>

(* AemetError, transient or not: counted in a session of its own. *)
FetchFails ==
    /\ pc = "idle"
    /\ failures < MaxFailures
    /\ failures' = failures + 1
    /\ UNCHANGED <<now, bulletin, rows, cursor, announced, reconciled, syncVars>>

(* transaction_now opens the transaction. *)
BeginTransaction ==
    /\ pc = "fetched"
    /\ pc' = "transaction"
    /\ batch_at' = now
    /\ UNCHANGED <<now, bulletin, stored, fetched>>

Commit ==
    /\ pc = "transaction"
    /\ rows' = Reconciled(fetched)
    /\ cursor' = Cursor(fetched)
    /\ failures' = 0
    /\ announced' = IF Changed(fetched) THEN announced \cup {batch_at} ELSE announced
    /\ reconciled' = fetched
    /\ pc' = "idle"
    /\ fetched' = NULL
    /\ UNCHANGED <<now, bulletin, batch_at>>

(* A timeout, a crash or a database error: no trace but in the job's row. *)
Abort ==
    /\ pc # "idle"
    /\ pc' = "idle"
    /\ fetched' = NULL
    /\ UNCHANGED <<now, bulletin, stored, batch_at>>

Tick ==
    /\ now < MaxTime
    /\ now' = now + 1
    /\ UNCHANGED <<bulletin, stored, syncVars>>

Next ==
    \/ \E b \in Bulletins : Issue(b)
    \/ Fetch \/ FetchFails \/ BeginTransaction \/ Commit \/ Abort
    \/ Tick

Spec == Init /\ [][Next]_vars
-----------------------------------------------------------------------------
(***************************************************************************)
(* Properties                                                              *)
(***************************************************************************)

(***************************************************************************)
(* A warning still in force is one the last bulletin carried: withdrawn    *)
(* ones are over, with or without a Cancel (sync_aemet.py 88-112).         *)
(***************************************************************************)
InForceIsServed ==
    \A id \in DOMAIN rows : OpenAt(rows[id], now) => id \in cursor

(***************************************************************************)
(* A warning and the message that supersedes it are never in force         *)
(* together, also when the bulletin still carries both (ADR-0010).         *)
(***************************************************************************)
SupersededIsOver ==
    reconciled # NULL =>
        \A m \in DOMAIN reconciled :
            reconciled[m].msg_type \in {"Update", "Cancel"} =>
                \A id \in reconciled[m].references \cap DOMAIN rows :
                    ~ OpenAt(rows[id], reconciled[m].sent)

(***************************************************************************)
(* Every row can be found by the batch_at of a published event: no change  *)
(* of the table stays unannounced, a close included (sync_aemet.py 56-66). *)
(***************************************************************************)
EveryChangeAnnounced ==
    \A id \in DOMAIN rows : rows[id].written \in announced

(***************************************************************************)
(* A warning that a batch withdraws is already over at the mark of that    *)
(* batch, whatever time passes before the commit (sync_aemet.py 102-112,   *)
(* ADR-0021).                                                              *)
(***************************************************************************)
WithdrawnIsOverInItsBatch ==
    [][\A id \in DOMAIN rows :
        (rows'[id] # rows[id] /\ id \notin cursor')
            => ~ OpenAt(rows'[id], rows'[id].written)]_vars

(***************************************************************************)
(* Only the source extends a window: the end of a warning moves later only *)
(* to the expires of a message just fetched, so that a warning that had    *)
(* expired keeps its window when it is closed (hazard_event.py 138-160).   *)
(***************************************************************************)
OnlySourceExtends ==
    [][\A id \in DOMAIN rows :
        rows'[id].ends_at > rows[id].ends_at
            => /\ id \in DOMAIN fetched
               /\ rows'[id].ends_at <= fetched[id].expires]_vars

(***************************************************************************)
(* A no-change poll is a true no-op: no disk writes, no events, no         *)
(* snapshot rewrite (docs/adr/0008, line 34).                             *)
(***************************************************************************)
NoChangePollIsNoOp ==
    [][fetched # NULL /\ fetched = reconciled =>
        UNCHANGED <<rows, announced>>]_vars
=============================================================================
