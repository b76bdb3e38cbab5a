-------------------------- MODULE EffisSyncProofs --------------------------
(***************************************************************************)
(* EffisSync for any ids and catalogues.  Beside what is open, the         *)
(* inductive invariant records what the last commit left in the table:     *)
(* exactly what it had fetched, which is why fetching the same again       *)
(* changes nothing.                                                        *)
(***************************************************************************)
EXTENDS EffisSync, TLAPS

(* The rows of the last commit are as it fetched them. *)
Settled ==
    reconciled # <<>> =>
        /\ cursor = DOMAIN reconciled[2]
        /\ \A id \in DOMAIN reconciled[2] :
            /\ id \in DOMAIN rows /\ id \in Lasting
            /\ rows[id].ends_at = NULL
            /\ rows[id].content = reconciled[2][id].content
        /\ \A id \in DOMAIN reconciled[1] :
            /\ id \in DOMAIN rows /\ id \notin Lasting
            /\ rows[id].ends_at = reconciled[1][id].observed_at
            /\ rows[id].content = reconciled[1][id].content

IInv ==
    /\ TypeOK
    /\ OpenIsServed
    /\ EveryChangeAnnounced
    /\ Settled

(***************************************************************************)
(* The batch of a sync.                                                    *)
(***************************************************************************)
LEMMA BatchFacts ==
    ASSUME TypeOK
    PROVE  /\ IsTableOf(Record, Batch)
           /\ DOMAIN Batch = DOMAIN hotspots \cup DOMAIN burnt_areas
           /\ \A id \in DOMAIN burnt_areas :
                  /\ id \in Lasting
                  /\ Batch[id].ends_at = NULL
                  /\ Batch[id].content = burnt_areas[id].content
           /\ \A id \in DOMAIN hotspots :
                  /\ id \notin Lasting
                  /\ Batch[id].ends_at = hotspots[id].observed_at
                  /\ Batch[id].ends_at # NULL
                  /\ Batch[id].content = hotspots[id].content
<1>1. /\ \A id \in DOMAIN hotspots : hotspots[id] \in Served /\ id \in Ids /\ id \notin Lasting
      /\ \A id \in DOMAIN burnt_areas : burnt_areas[id] \in Served /\ id \in Ids /\ id \in Lasting
  BY DEF TypeOK, IsTableOf
<1>2. /\ Batch = [id \in DOMAIN Batch |-> Batch[id]]
      /\ DOMAIN Batch = DOMAIN hotspots \cup DOMAIN burnt_areas
      /\ \A id \in DOMAIN Batch : Batch[id] =
            LET rec == IF id \in Lasting THEN burnt_areas[id] ELSE hotspots[id]
            IN  [ends_at |-> IF id \in Lasting THEN NULL ELSE rec.observed_at,
                 content |-> rec.content]
  BY DEF Batch, ToRows
<1>3. \A id \in DOMAIN burnt_areas : Batch[id] = [ends_at |-> NULL, content |-> burnt_areas[id].content]
  BY <1>1, <1>2
<1>4. \A id \in DOMAIN hotspots :
        Batch[id] = [ends_at |-> hotspots[id].observed_at, content |-> hotspots[id].content]
  BY <1>1, <1>2
<1>5. \A id \in DOMAIN burnt_areas :
        /\ Batch[id] \in Record
        /\ Batch[id].ends_at = NULL
        /\ Batch[id].content = burnt_areas[id].content
  <2>1. TAKE id \in DOMAIN burnt_areas
  <2>2. burnt_areas[id] \in Served
    BY <1>1
  <2>3. burnt_areas[id].content \in Contents
    BY <2>2 DEF Served
  <2>4. Batch[id] = [ends_at |-> NULL, content |-> burnt_areas[id].content]
    BY <1>3
  <2> QED
    BY <2>3, <2>4 DEF Record
<1>6. \A id \in DOMAIN hotspots :
        /\ Batch[id] \in Record
        /\ Batch[id].ends_at = hotspots[id].observed_at
        /\ Batch[id].ends_at # NULL
        /\ Batch[id].content = hotspots[id].content
  <2>1. TAKE id \in DOMAIN hotspots
  <2>2. hotspots[id] \in Served
    BY <1>1
  <2>3. hotspots[id].observed_at \in Nat /\ hotspots[id].observed_at # NULL
    BY <2>2, HazardStoreAssumption DEF Served, Instants
  <2>4. hotspots[id].content \in Contents /\ hotspots[id].observed_at \in Instants
    BY <2>2 DEF Served
  <2>5. Batch[id] = [ends_at |-> hotspots[id].observed_at, content |-> hotspots[id].content]
    BY <1>4
  <2> QED
    BY <2>3, <2>4, <2>5 DEF Record
<1>7. IsTableOf(Record, Batch)
  BY <1>1, <1>2, <1>5, <1>6 DEF IsTableOf
<1> QED
  BY <1>1, <1>2, <1>5, <1>6, <1>7

(***************************************************************************)
(* The two statements of a commit: the upsert writes the batch and touches *)
(* no other row, the close ends the burnt areas no longer served.          *)
(***************************************************************************)
LEMMA AfterUpsertFacts ==
    ASSUME TypeOK
    PROVE  /\ IsTableOf(Row, AfterUpsert)
           /\ DOMAIN AfterUpsert = DOMAIN rows \cup DOMAIN Batch
           /\ \A id \in DOMAIN Batch : /\ AfterUpsert[id].ends_at = Batch[id].ends_at
                                       /\ AfterUpsert[id].content = Batch[id].content
           /\ \A id \in Upserted(rows, Batch) : AfterUpsert[id].written = batch_at
           /\ \A id \in DOMAIN AfterUpsert \ Upserted(rows, Batch) :
                  id \in DOMAIN rows /\ AfterUpsert[id] = rows[id]
<1> DEFINE u == AfterUpsert
<1>1. /\ \A id \in DOMAIN rows : rows[id] \in Row /\ id \in Ids
      /\ \A id \in DOMAIN Batch : Batch[id] \in Record /\ id \in Ids
      /\ batch_at \in Instants
  BY BatchFacts DEF TypeOK, IsTableOf, Instants
<1>2. /\ u = [id \in DOMAIN u |-> u[id]]
      /\ DOMAIN u = DOMAIN rows \cup DOMAIN Batch
      /\ \A id \in DOMAIN u \ Upserted(rows, Batch) : u[id] = rows[id] /\ id \in DOMAIN rows
  BY DEF AfterUpsert, Upsert, Upserted
<1>3. ASSUME NEW id \in Upserted(rows, Batch)
      PROVE  /\ id \in DOMAIN Batch
             /\ u[id] \in Row
             /\ u[id].ends_at = Batch[id].ends_at /\ u[id].content = Batch[id].content
             /\ u[id].written = batch_at
  <2>1. id \in DOMAIN Batch
    BY DEF Upserted
  <2>2. u[id] = [ends_at |-> Batch[id].ends_at, content |-> Batch[id].content,
                 written |-> batch_at]
    BY <1>2, <2>1 DEF AfterUpsert, Upsert
  <2>3. Batch[id].ends_at \in Instants \cup {NULL} /\ Batch[id].content \in Contents
    BY <1>1, <2>1 DEF Record
  <2> HIDE DEF u
  <2> QED
    BY <1>1, <2>1, <2>2, <2>3 DEF Row
<1>4. \A id \in DOMAIN Batch \ Upserted(rows, Batch) :
          /\ rows[id].ends_at = Batch[id].ends_at
          /\ rows[id].content = Batch[id].content
  BY DEF Upserted, Distinct
<1> HIDE DEF u
<1>5. IsTableOf(Row, u)
  BY <1>1, <1>2, <1>3 DEF IsTableOf
<1>6. \A id \in DOMAIN Batch : u[id].ends_at = Batch[id].ends_at /\ u[id].content = Batch[id].content
  BY <1>2, <1>3, <1>4
<1> QED
  BY <1>2, <1>3, <1>5, <1>6 DEF u

LEMMA VanishedFacts ==
    ASSUME NEW u, IsTableOf(Row, u), batch_at \in Nat
    PROVE  LET r == CloseEvents(u, Vanished, batch_at)
           IN  /\ IsTableOf(Row, r)
               /\ DOMAIN r = DOMAIN u
               /\ \A id \in DOMAIN u \cap DOMAIN Vanished : r[id].ends_at # NULL
               /\ \A id \in Closed(u, Vanished) : r[id].written = batch_at
               /\ \A id \in DOMAIN u \ Closed(u, Vanished) : r[id] = u[id]
<1> DEFINE r == CloseEvents(u, Vanished, batch_at)
<1>1. /\ r = [id \in DOMAIN r |-> r[id]] /\ DOMAIN r = DOMAIN u
      /\ \A id \in DOMAIN u \ Closed(u, Vanished) : r[id] = u[id]
  BY DEF CloseEvents
<1>2. ASSUME NEW id \in Closed(u, Vanished)
      PROVE  /\ id \in DOMAIN u /\ r[id] \in Row
             /\ r[id].ends_at # NULL /\ r[id].written = batch_at
  <2>1. id \in DOMAIN u /\ id \in DOMAIN Vanished
    BY DEF Closed
  <2>2. Vanished[id] = batch_at
    BY <2>1 DEF Vanished
  <2>3. r[id] = [u[id] EXCEPT !.ends_at = batch_at, !.written = batch_at]
    BY <2>1, <2>2 DEF CloseEvents
  <2>4. u[id] \in Row /\ batch_at # NULL
    BY <2>1, HazardStoreAssumption DEF IsTableOf
  <2> HIDE DEF r
  <2> QED
    BY <2>1, <2>3, <2>4 DEF Row, Instants
<1>3. \A id \in (DOMAIN u \cap DOMAIN Vanished) \ Closed(u, Vanished) : u[id].ends_at # NULL
  BY DEF Closed, OpenAt
<1> HIDE DEF r
<1>4. IsTableOf(Row, r)
  BY <1>1, <1>2 DEF IsTableOf
<1> QED
  BY <1>1, <1>2, <1>3, <1>4 DEF r

(***************************************************************************)
(* The table after a commit.                                               *)
(***************************************************************************)
LEMMA ReconciledFacts ==
    ASSUME TypeOK
    PROVE  /\ IsTableOf(Row, Reconciled)
           /\ DOMAIN Reconciled = DOMAIN rows \cup DOMAIN hotspots \cup DOMAIN burnt_areas
           /\ \A id \in DOMAIN burnt_areas :
                  /\ Reconciled[id].ends_at = NULL
                  /\ Reconciled[id].content = burnt_areas[id].content
           /\ \A id \in DOMAIN hotspots :
                  /\ Reconciled[id].ends_at = hotspots[id].observed_at
                  /\ Reconciled[id].ends_at # NULL
                  /\ Reconciled[id].content = hotspots[id].content
           /\ \A id \in DOMAIN rows \cap (cursor \ DOMAIN burnt_areas) :
                  Reconciled[id].ends_at # NULL
           /\ \A id \in DOMAIN rows \ (cursor \cup DOMAIN hotspots \cup DOMAIN burnt_areas) :
                  Reconciled[id] = rows[id]
           /\ \A id \in DOMAIN Reconciled :
                  \/ id \in DOMAIN rows /\ Reconciled[id] = rows[id]
                  \/ Reconciled[id].written = batch_at /\ Changed
<1>1. /\ IsTableOf(Row, rows) /\ batch_at \in Instants
      /\ cursor \subseteq Lasting
      /\ IsTableOf(Record, Batch)
      /\ DOMAIN Batch = DOMAIN hotspots \cup DOMAIN burnt_areas
  BY BatchFacts DEF TypeOK, Instants
<1> DEFINE u == AfterUpsert
           r == Reconciled
<1>2. /\ IsTableOf(Row, u)
      /\ DOMAIN u = DOMAIN rows \cup DOMAIN Batch
      /\ \A id \in DOMAIN Batch : u[id].ends_at = Batch[id].ends_at /\ u[id].content = Batch[id].content
      /\ \A id \in Upserted(rows, Batch) : u[id].written = batch_at
      /\ \A id \in DOMAIN u \ Upserted(rows, Batch) : id \in DOMAIN rows /\ u[id] = rows[id]
  BY AfterUpsertFacts
<1>3. /\ DOMAIN Vanished = cursor \ DOMAIN burnt_areas
      /\ \A id \in DOMAIN Vanished : Vanished[id] = batch_at
  BY DEF Vanished
<1>4. /\ IsTableOf(Row, r)
      /\ DOMAIN r = DOMAIN u
      /\ \A id \in DOMAIN u \cap DOMAIN Vanished : r[id].ends_at # NULL
      /\ \A id \in Closed(u, Vanished) : r[id].written = batch_at
      /\ \A id \in DOMAIN u \ Closed(u, Vanished) : r[id] = u[id]
  <2>1. r = CloseEvents(u, Vanished, batch_at) /\ batch_at \in Nat
    BY <1>1 DEF Reconciled, Instants
  <2> HIDE DEF u, r
  <2> QED
    BY <1>2, <2>1, VanishedFacts
<1>5. \A id \in Closed(u, Vanished) : id \in DOMAIN u /\ id \in cursor /\ id \notin DOMAIN burnt_areas
  BY <1>3 DEF Closed
<1>6. \A id \in DOMAIN Batch : id \notin Closed(u, Vanished)
  BY <1>1, <1>5, BatchFacts
<1>7. ASSUME NEW id \in DOMAIN r
      PROVE  \/ id \in DOMAIN rows /\ r[id] = rows[id]
             \/ r[id].written = batch_at /\ Changed
  <2>1. CASE id \in Closed(u, Vanished)
    BY <1>4, <2>1 DEF Changed
  <2>2. CASE id \notin Closed(u, Vanished) /\ id \in Upserted(rows, Batch)
    BY <1>2, <1>4, <2>2 DEF Changed
  <2>3. CASE id \notin Closed(u, Vanished) /\ id \notin Upserted(rows, Batch)
    BY <1>2, <1>4, <2>3
  <2> QED
    BY <2>1, <2>2, <2>3
<1> HIDE DEF u, r
<1>8. \A id \in DOMAIN burnt_areas :
        /\ r[id].ends_at = NULL
        /\ r[id].content = burnt_areas[id].content
  <2>1. TAKE id \in DOMAIN burnt_areas
  <2>2. r[id] = u[id] /\ id \in DOMAIN Batch
    BY <1>1, <1>2, <1>4, <1>6
  <2> QED
    BY <1>2, <2>2, BatchFacts
<1>9. \A id \in DOMAIN hotspots :
        /\ r[id].ends_at = hotspots[id].observed_at
        /\ r[id].ends_at # NULL
        /\ r[id].content = hotspots[id].content
  <2>1. TAKE id \in DOMAIN hotspots
  <2>2. r[id] = u[id] /\ id \in DOMAIN Batch
    BY <1>1, <1>2, <1>4, <1>6
  <2> QED
    BY <1>2, <2>2, BatchFacts
<1>10. \A id \in DOMAIN rows \cap (cursor \ DOMAIN burnt_areas) : r[id].ends_at # NULL
  BY <1>2, <1>3, <1>4
<1>11. \A id \in DOMAIN rows \ (cursor \cup DOMAIN hotspots \cup DOMAIN burnt_areas) : r[id] = rows[id]
  <2>1. TAKE id \in DOMAIN rows \ (cursor \cup DOMAIN hotspots \cup DOMAIN burnt_areas)
  <2>2. id \notin DOMAIN Batch /\ id \notin Upserted(rows, Batch) /\ id \notin Closed(u, Vanished)
    BY <1>1, <1>5 DEF Upserted
  <2> QED
    BY <1>2, <1>4, <2>2
<1> QED
  BY <1>1, <1>2, <1>4, <1>7, <1>8, <1>9, <1>10, <1>11 DEF r

LEMMA InitEstablishes == Init => IInv
<1> SUFFICES ASSUME Init PROVE IInv
  OBVIOUS
<1>1. DOMAIN Empty = {} /\ Empty = [id \in DOMAIN Empty |-> Empty[id]]
  BY DEF Empty
<1>2. \A Rows : IsTableOf(Rows, Empty)
  BY <1>1 DEF IsTableOf
<1>3. 0 \in 0 .. MaxTime /\ 0 \in 0 .. MaxFaults /\ 0 \in 0 .. 0
  BY EffisSyncAssumption
<1>4. TypeOK
  BY <1>1, <1>2, <1>3 DEF Init, TypeOK
<1>5. OpenIsServed /\ EveryChangeAnnounced /\ Settled
  BY <1>1 DEF Init, OpenIsServed, IsOpen, EveryChangeAnnounced, Settled
<1> QED
  BY <1>4, <1>5 DEF IInv

LEMMA CommitPreserves == IInv /\ Commit => IInv'
<1> SUFFICES ASSUME IInv, Commit PROVE IInv'
  OBVIOUS
<1>1. /\ rows' = Reconciled
      /\ cursor' = DOMAIN burnt_areas
      /\ failures' = 0
      /\ announced' = IF Changed THEN announced \cup {batch_at} ELSE announced
      /\ reconciled' = <<hotspots, burnt_areas>>
      /\ pc' = "idle" /\ hotspots' = Empty /\ burnt_areas' = Empty
      /\ UNCHANGED <<now, catalogue, batch_at, faults>>
  BY DEF Commit, Leave, fetched
<1>2. TypeOK
  BY DEF IInv
<1>3. TypeOK'
  <2>1. DOMAIN Empty = {} /\ IsTableOf(Served, Empty)
    BY DEF Empty, IsTableOf
  <2>2. 0 \in 0 .. MaxFaults /\ 0 <= faults
    BY <1>2, EffisSyncAssumption DEF TypeOK
  <2>3. IsTableOf(Row, rows')
    BY <1>1, <1>2, ReconciledFacts
  <2>4. announced' \in SUBSET (0 .. MaxTime) /\ cursor' \in SUBSET Lasting
    <3>1. batch_at \in 0 .. MaxTime
      BY <1>2, EffisSyncAssumption DEF TypeOK
    <3> QED
      BY <1>1, <1>2, <3>1 DEF TypeOK
  <2>5. failures' \in 0 .. MaxFaults /\ failures' <= faults'
    BY <1>1, <2>2
  <2> QED
    BY <1>1, <1>2, <2>1, <2>3, <2>4, <2>5 DEF TypeOK
<1>4. OpenIsServed'
  <2> SUFFICES ASSUME NEW id \in Ids
               PROVE  (id \in DOMAIN rows' /\ rows'[id].ends_at = NULL) <=> id \in DOMAIN burnt_areas
    <3>1. DOMAIN burnt_areas \subseteq Ids
      BY <1>2 DEF TypeOK, IsTableOf
    <3> QED
      BY <1>1, <3>1 DEF OpenIsServed, IsOpen
  <2>1. DOMAIN rows' = DOMAIN rows \cup DOMAIN hotspots \cup DOMAIN burnt_areas
    BY <1>1, <1>2, ReconciledFacts
  <2>2. CASE id \in DOMAIN burnt_areas
    BY <1>1, <1>2, <2>1, <2>2, ReconciledFacts
  <2>3. CASE id \in DOMAIN hotspots
    <3>1. id \notin DOMAIN burnt_areas
      BY <1>2, <2>3 DEF TypeOK
    <3> QED
      BY <1>1, <1>2, <2>3, <3>1, ReconciledFacts
  <2>4. CASE id \in cursor \ DOMAIN burnt_areas
    <3>1. id \in DOMAIN rows
      BY <2>4 DEF IInv, OpenIsServed, IsOpen
    <3> QED
      BY <1>1, <1>2, <2>4, <3>1, ReconciledFacts
  <2>5. CASE id \notin cursor \cup DOMAIN hotspots \cup DOMAIN burnt_areas
    <3>1. ~ (id \in DOMAIN rows /\ rows[id].ends_at = NULL)
      BY <2>5 DEF IInv, OpenIsServed, IsOpen
    <3>2. id \in DOMAIN rows => rows'[id] = rows[id]
      BY <1>1, <1>2, <2>5, ReconciledFacts
    <3> QED
      BY <2>1, <2>5, <3>1, <3>2
  <2> QED
    BY <2>2, <2>3, <2>4, <2>5
<1>5. EveryChangeAnnounced'
  <2> SUFFICES ASSUME NEW id \in DOMAIN rows' PROVE rows'[id].written \in announced'
    BY DEF EveryChangeAnnounced
  <2>1. \/ id \in DOMAIN rows /\ rows'[id] = rows[id]
        \/ rows'[id].written = batch_at /\ Changed
    BY <1>1, <1>2, ReconciledFacts
  <2> QED
    BY <1>1, <2>1 DEF IInv, EveryChangeAnnounced
<1>6. Settled'
  <2>1. reconciled'[1] = hotspots /\ reconciled'[2] = burnt_areas
    BY <1>1
  <2>2. DOMAIN burnt_areas \subseteq Lasting /\ DOMAIN hotspots \cap Lasting = {}
    BY <1>2 DEF TypeOK
  <2> QED
    BY <1>1, <1>2, <2>1, <2>2, ReconciledFacts DEF Settled
<1> QED
  BY <1>3, <1>4, <1>5, <1>6 DEF IInv

LEMMA StepPreserves == IInv /\ [Next]_vars => IInv'
<1> SUFFICES ASSUME IInv, [Next]_vars PROVE IInv'
  OBVIOUS
<1>1. CASE Commit
  BY <1>1, CommitPreserves
<1>2. ASSUME UNCHANGED <<rows, cursor, announced, reconciled>>, TypeOK' PROVE IInv'
  BY <1>2 DEF IInv, OpenIsServed, IsOpen, EveryChangeAnnounced, Settled
<1>3. /\ TypeOK
      /\ now \in Int /\ failures \in Int /\ faults \in Int /\ MaxFaults \in Int /\ MaxTime \in Int
      /\ DOMAIN Empty = {} /\ IsTableOf(Served, Empty)
  BY EffisSyncAssumption DEF IInv, TypeOK, Empty, IsTableOf
<1>4. ASSUME NEW c \in Catalogues, Serve(c) PROVE IInv'
  BY <1>2, <1>3, <1>4 DEF Serve, stored, fetched, TypeOK
<1>5. ASSUME NEW ids
      PROVE  /\ IsTableOf(Served, Only(ids, catalogue))
             /\ DOMAIN Only(ids, catalogue) \subseteq ids
  <2>1. IsTableOf(Served, catalogue)
    BY <1>3, EffisSyncAssumption DEF TypeOK
  <2> QED
    BY <2>1 DEF Only, IsTableOf
<1>6. CASE FetchHotspots
  BY <1>2, <1>3, <1>5, <1>6 DEF FetchHotspots, stored, TypeOK
<1>7. CASE FetchBurntAreas
  BY <1>2, <1>3, <1>5, <1>7 DEF FetchBurntAreas, stored, TypeOK
<1>8. CASE BeginTransaction
  <2>1. now \in 0 .. now
    BY <1>3 DEF TypeOK
  <2> QED
    BY <1>2, <1>3, <1>8, <2>1 DEF BeginTransaction, stored, fetched, TypeOK
<1>9. CASE FetchFails
  <2>1. /\ failures' \in 0 .. MaxFaults /\ faults' \in 0 .. MaxFaults /\ failures' <= faults'
    BY <1>3, <1>9 DEF FetchFails, Fault, TypeOK
  <2> QED
    BY <1>2, <1>3, <1>9, <2>1 DEF FetchFails, Leave, TypeOK
<1>10. CASE Abort
  <2>1. faults' \in 0 .. MaxFaults /\ failures <= faults'
    BY <1>3, <1>10 DEF Abort, Fault, TypeOK
  <2> QED
    BY <1>2, <1>3, <1>10, <2>1 DEF Abort, Leave, stored, TypeOK
<1>11. CASE Tick
  <2>1. now' \in 0 .. MaxTime /\ batch_at \in 0 .. now'
    BY <1>3, <1>11 DEF Tick, TypeOK
  <2> QED
    BY <1>2, <1>3, <1>11, <2>1 DEF Tick, stored, fetched, TypeOK
<1>12. CASE UNCHANGED vars
  BY <1>2, <1>3, <1>12 DEF vars, stored, fetched, TypeOK
<1> QED
  BY <1>1, <1>4, <1>6, <1>7, <1>8, <1>9, <1>10, <1>11, <1>12 DEF Next, SyncStep

(***************************************************************************)
(* The inductive invariant of the reconciliation.                          *)
(***************************************************************************)
THEOREM Invariant == Spec => []IInv
  BY InitEstablishes, StepPreserves, PTL DEF Spec

(***************************************************************************)
(* Type correctness of the table, the cursor and the sync.                 *)
(***************************************************************************)
THEOREM TypeCorrect == Spec => []TypeOK
<1>1. IInv => TypeOK
  BY DEF IInv
<1> QED
  BY <1>1, Invariant, PTL

(***************************************************************************)
(* What is open is what was served, whatever the catalogue does and        *)
(* whichever syncs fail (sync_effis.py 41-83).                             *)
(***************************************************************************)
THEOREM OpenMeansServed == Spec => []OpenIsServed
<1>1. IInv => OpenIsServed
  BY DEF IInv
<1> QED
  BY <1>1, Invariant, PTL

(***************************************************************************)
(* No change of a row escapes the consumers of hazards.batch_ingested      *)
(* (sync_effis.py 53-63).                                                  *)
(***************************************************************************)
THEOREM NoSilentChange == Spec => []EveryChangeAnnounced
<1>1. IInv => EveryChangeAnnounced
  BY DEF IInv
<1> QED
  BY <1>1, Invariant, PTL

(***************************************************************************)
(* Fetching the same again writes nothing and publishes nothing            *)
(* (hazard_event.py 79-126, docs/adr/0008 line 34).                        *)
(***************************************************************************)
THEOREM SamePollIsNoOp == Spec => NoChangePollIsNoOp
<1> DEFINE NoOp == pc = "transaction" /\ fetched = reconciled => UNCHANGED <<rows, announced>>
<1>1. IInv /\ [Next]_vars => [NoOp]_vars
  <2> SUFFICES ASSUME IInv, Next, pc = "transaction", fetched = reconciled
               PROVE  UNCHANGED <<rows, announced>>
    BY Zenon
  <2>1. CASE Commit
    <3>1. /\ reconciled = <<hotspots, burnt_areas>>
          /\ reconciled[1] = hotspots /\ reconciled[2] = burnt_areas
      BY DEF fetched
    <3>2. reconciled # <<>>
      BY <3>1
    <3>3. /\ cursor = DOMAIN burnt_areas
          /\ \A id \in DOMAIN burnt_areas :
              /\ id \in DOMAIN rows
              /\ rows[id].ends_at = NULL
              /\ rows[id].content = burnt_areas[id].content
          /\ \A id \in DOMAIN hotspots :
              /\ id \in DOMAIN rows
              /\ rows[id].ends_at = hotspots[id].observed_at
              /\ rows[id].content = hotspots[id].content
      BY <3>1, <3>2 DEF IInv, Settled
    <3>4. TypeOK
      BY DEF IInv
    <3>5. \A id \in DOMAIN Batch : id \in DOMAIN rows /\ ~ Distinct(rows[id], Batch[id])
      BY <3>3, <3>4, BatchFacts DEF Distinct
    <3>6. Upserted(rows, Batch) = {}
      BY <3>5 DEF Upserted
    <3>7. DOMAIN Vanished = {}
      BY <3>3 DEF Vanished
    <3>8. Closed(AfterUpsert, Vanished) = {}
      BY <3>7 DEF Closed
    <3>9. ~ Changed
      BY <3>6, <3>8 DEF Changed
    <3>10. rows = [id \in DOMAIN rows |-> rows[id]]
      BY <3>4 DEF TypeOK, IsTableOf
    <3>11. /\ Reconciled = [id \in DOMAIN Reconciled |-> Reconciled[id]]
           /\ DOMAIN Reconciled = DOMAIN rows
           /\ \A id \in DOMAIN rows : Reconciled[id] = rows[id]
      BY <3>4, <3>5, <3>9, BatchFacts, ReconciledFacts DEF IsTableOf
    <3>12. Reconciled = rows
      BY <3>10, <3>11
    <3> QED
      BY <2>1, <3>9, <3>12 DEF Commit
  <2>2. CASE ~ Commit
    BY <2>2 DEF Next, SyncStep, Serve, FetchHotspots, FetchBurntAreas, BeginTransaction,
                FetchFails, Abort, Tick, stored
  <2> QED
    BY <2>1, <2>2
<1> QED
  BY <1>1, Invariant, PTL DEF Spec, NoChangePollIsNoOp
=============================================================================
