-------------------------- MODULE AemetSyncProofs --------------------------
(***************************************************************************)
(* AemetSync for any identifiers, bulletins and messages, and any clock of *)
(* the source.  WithdrawnIsOver, SupersededIsOver and EveryChangeAnnounced *)
(* are inductive together with the types: a commit establishes each of     *)
(* them anew from the bulletin, and between commits only time passes.      *)
(***************************************************************************)
EXTENDS AemetSync, WellFoundedInduction, TLAPS

(* What the cursor lacks was over at the mark of the last transaction. *)
WithdrawnIsOver ==
    \A id \in DOMAIN rows : OpenAt(rows[id], batch_at) => id \in cursor

IInv ==
    /\ TypeOK
    /\ WithdrawnIsOver
    /\ SupersededIsOver
    /\ EveryChangeAnnounced

(***************************************************************************)
(* An upsert keeps the table a table, adds the batch and touches no other  *)
(* row; what it leaves alone in the batch is already as the batch says.    *)
(***************************************************************************)
LEMMA UpsertFacts ==
    ASSUME NEW old, IsTableOf(Row, old), NEW batch, IsTableOf(Record, batch),
           NEW mark \in Instants
    PROVE  LET after == Upsert(old, batch, mark)
           IN  /\ IsTableOf(Row, after)
               /\ DOMAIN after = DOMAIN old \cup DOMAIN batch
               /\ \A id \in DOMAIN old \ DOMAIN batch : after[id] = old[id]
               /\ \A id \in DOMAIN batch : /\ after[id].ends_at = batch[id].ends_at
                                            /\ after[id].content = batch[id].content
               /\ \A id \in Upserted(old, batch) : after[id].written = mark
               /\ \A id \in DOMAIN after \ Upserted(old, batch) :
                      id \in DOMAIN old /\ after[id] = old[id]
<1> DEFINE after == Upsert(old, batch, mark)
<1>1. /\ after = [id \in DOMAIN after |-> after[id]]
      /\ DOMAIN after = DOMAIN old \cup DOMAIN batch
  BY DEF Upsert
<1>2. \A id \in DOMAIN after :
        after[id] = IF id \in Upserted(old, batch)
                    THEN [ends_at |-> batch[id].ends_at, content |-> batch[id].content,
                          written |-> mark]
                    ELSE old[id]
  BY <1>1 DEF Upsert
<1>3. \A id \in DOMAIN batch : batch[id] \in Record
  BY DEF IsTableOf
<1>4. \A id \in DOMAIN old : old[id] \in Row
  BY DEF IsTableOf
<1>5. Upserted(old, batch) \subseteq DOMAIN batch
  BY DEF Upserted
<1>6. \A id \in DOMAIN after \ Upserted(old, batch) :
        /\ id \in DOMAIN old
        /\ after[id] = old[id]
        /\ id \in DOMAIN batch => /\ old[id].ends_at = batch[id].ends_at
                                  /\ old[id].content = batch[id].content
  BY <1>1, <1>2 DEF Upserted, Distinct
<1>7. \A id \in Upserted(old, batch) :
        /\ after[id] = [ends_at |-> batch[id].ends_at, content |-> batch[id].content,
                        written |-> mark]
        /\ after[id].ends_at = batch[id].ends_at
        /\ after[id].content = batch[id].content
        /\ after[id].written = mark
  BY <1>1, <1>2, <1>5
<1>8. \A id \in DOMAIN after : after[id] \in Row
  <2>1. TAKE id \in DOMAIN after
  <2>2. CASE id \in Upserted(old, batch)
    <3>1. batch[id] \in Record /\ mark \in Instants
      BY <1>3, <1>5, <2>2
    <3>2. after[id] = [ends_at |-> batch[id].ends_at, content |-> batch[id].content,
                       written |-> mark]
      BY <1>7, <2>2
    <3> HIDE DEF after
    <3> QED
      BY <3>1, <3>2 DEF Record, Row
  <2>3. CASE id \notin Upserted(old, batch)
    BY <1>4, <1>6, <2>3
  <2> QED
    BY <2>2, <2>3
<1>9. DOMAIN after \subseteq Ids
  BY <1>1 DEF IsTableOf
<1>10. IsTableOf(Row, after)
  BY <1>1, <1>8, <1>9 DEF IsTableOf
<1> HIDE DEF after
<1>11. \A id \in DOMAIN batch : /\ after[id].ends_at = batch[id].ends_at
                                /\ after[id].content = batch[id].content
  BY <1>1, <1>6, <1>7
<1>12. \A id \in DOMAIN old \ DOMAIN batch : after[id] = old[id]
  BY <1>1, <1>5, <1>6
<1> QED
  BY <1>1, <1>6, <1>7, <1>10, <1>11, <1>12 DEF after

(***************************************************************************)
(* A close only takes windows back: a row over at some instant stays over  *)
(* at it, and every row closed is over at its instant.                     *)
(***************************************************************************)
LEMMA CloseFacts ==
    ASSUME NEW old, IsTableOf(Row, old), NEW ended,
           \A id \in DOMAIN ended : ended[id] \in Instants,
           NEW mark \in Instants
    PROVE  LET after == CloseEvents(old, ended, mark)
           IN  /\ IsTableOf(Row, after)
               /\ DOMAIN after = DOMAIN old
               /\ \A id \in DOMAIN old, t \in Int :
                      ~ OpenAt(old[id], t) => ~ OpenAt(after[id], t)
               /\ \A id \in DOMAIN old \cap DOMAIN ended : ~ OpenAt(after[id], ended[id])
               /\ \A id \in Closed(old, ended) :
                      /\ id \in DOMAIN old
                      /\ after[id].written = mark
                      /\ after[id].ends_at = ended[id]
               /\ \A id \in DOMAIN old \ Closed(old, ended) : after[id] = old[id]
<1> DEFINE after == CloseEvents(old, ended, mark)
<1>1. /\ after = [id \in DOMAIN after |-> after[id]]
      /\ DOMAIN after = DOMAIN old
  BY DEF CloseEvents
<1>2. \A id \in DOMAIN old : old[id] \in Row
  BY DEF IsTableOf
<1>3. \A id \in DOMAIN old \ Closed(old, ended) : after[id] = old[id]
  BY DEF CloseEvents
<1>4. ASSUME NEW id \in Closed(old, ended)
      PROVE  /\ id \in DOMAIN old /\ id \in DOMAIN ended
             /\ OpenAt(old[id], ended[id])
             /\ after[id] \in Row
             /\ after[id].written = mark
             /\ after[id].ends_at = ended[id]
             /\ ended[id] \in Instants
  <2>1. id \in DOMAIN old /\ id \in DOMAIN ended /\ OpenAt(old[id], ended[id])
    BY DEF Closed
  <2>2. after[id] = [old[id] EXCEPT !.ends_at = ended[id], !.written = mark]
    BY <2>1 DEF CloseEvents
  <2>3. old[id] \in Row /\ ended[id] \in Instants
    BY <1>2, <2>1
  <2> HIDE DEF after
  <2> QED
    BY <2>1, <2>2, <2>3 DEF Row
<1> HIDE DEF after
<1>5. IsTableOf(Row, after)
  BY <1>1, <1>2, <1>3, <1>4 DEF IsTableOf
<1>6. ASSUME NEW id \in DOMAIN old, NEW t \in Int, ~ OpenAt(old[id], t)
      PROVE  ~ OpenAt(after[id], t)
  <2>1. CASE id \in Closed(old, ended)
    <3>1. old[id].ends_at # NULL /\ old[id].ends_at \in Nat
      BY <1>2, <1>6 DEF OpenAt, Row, Instants
    <3>2. old[id].ends_at <= t
      BY <1>6, <3>1 DEF OpenAt
    <3>3. ended[id] \in Nat /\ ended[id] < old[id].ends_at
      BY <1>4, <2>1, <3>1 DEF OpenAt, Instants
    <3>4. after[id].ends_at = ended[id] /\ ended[id] # NULL
      BY <1>4, <2>1, <3>3, HazardStoreAssumption
    <3> QED
      BY <3>1, <3>2, <3>3, <3>4 DEF OpenAt
  <2>2. CASE id \notin Closed(old, ended)
    BY <1>3, <1>6, <2>2
  <2> QED
    BY <2>1, <2>2
<1>7. ASSUME NEW id \in DOMAIN old \cap DOMAIN ended
      PROVE  ~ OpenAt(after[id], ended[id])
  <2>1. CASE id \in Closed(old, ended)
    <3>1. ended[id] \in Nat /\ ended[id] # NULL
      BY <1>4, <2>1, HazardStoreAssumption DEF Instants
    <3> QED
      BY <1>4, <2>1, <3>1 DEF OpenAt
  <2>2. CASE id \notin Closed(old, ended)
    BY <1>3, <2>2 DEF Closed
  <2> QED
    BY <2>1, <2>2
<1> QED
  BY <1>1, <1>3, <1>4, <1>5, <1>6, <1>7 DEF after

(***************************************************************************)
(* Where no window is open-ended, a close never lengthens one.             *)
(***************************************************************************)
LEMMA CloseShortens ==
    ASSUME NEW old, IsTableOf(Row, old), NEW ended,
           \A id \in DOMAIN ended : ended[id] \in Instants,
           NEW mark \in Instants,
           \A id \in DOMAIN old : old[id].ends_at \in Instants
    PROVE  LET after == CloseEvents(old, ended, mark)
           IN  \A id \in DOMAIN old : /\ after[id].ends_at \in Instants
                                       /\ after[id].ends_at <= old[id].ends_at
<1> DEFINE after == CloseEvents(old, ended, mark)
<1> SUFFICES ASSUME NEW id \in DOMAIN old
             PROVE  /\ after[id].ends_at \in Instants
                    /\ after[id].ends_at <= old[id].ends_at
  OBVIOUS
<1>1. old[id].ends_at \in Nat /\ old[id].ends_at \in Int
  BY DEF Instants
<1>2. ~ OpenAt(old[id], old[id].ends_at)
  BY <1>1, HazardStoreAssumption DEF OpenAt
<1>3. /\ ~ OpenAt(after[id], old[id].ends_at)
      /\ after[id] \in Row
  BY <1>1, <1>2, CloseFacts DEF IsTableOf
<1> HIDE DEF after
<1>4. after[id].ends_at \in Nat
  BY <1>3 DEF OpenAt, Row, Instants
<1> QED
  BY <1>1, <1>3, <1>4 DEF OpenAt, Instants

LEMMA LeastNatural ==
    ASSUME NEW S \in SUBSET Nat, S # {}
    PROVE  \E m \in S : \A n \in S : m <= n
<1>1. PICK m \in S : \A n \in S : ~ (<<n, m>> \in OpToRel(<, Nat))
  BY NatLessThanWellFounded, WFMin
<1>2. \A n \in S : ~ (n < m)
  BY <1>1 DEF OpToRel
<1> QED
  BY <1>2

(***************************************************************************)
(* What a fetched bulletin gives the transaction.                          *)
(***************************************************************************)
LEMMA BulletinFacts ==
    ASSUME NEW w \in Bulletins
    PROVE  /\ IsTableOf(Message, w)
           /\ IsTableOf(Record, ToRows(w))
           /\ DOMAIN ToRows(w) = Ingestible(w)
           /\ \A id \in Ingestible(w) : id \in DOMAIN w /\ ToRows(w)[id].ends_at = w[id].expires
           /\ \A id \in DOMAIN Superseded(w) : Superseded(w)[id] \in Instants
           /\ \A id \in DOMAIN Superseded(w) : \A m \in Superseding(w, id) :
                  Superseded(w)[id] <= w[m].sent
           /\ \A m \in DOMAIN w : w[m].msg_type \in {"Update", "Cancel"} =>
                  w[m].references \subseteq DOMAIN Superseded(w)
<1>1. IsTableOf(Message, w)
  BY AemetSyncAssumption
<1>2. \A m \in DOMAIN w : w[m] \in Message /\ m \in Ids
  BY <1>1 DEF IsTableOf
<1>3. Ingestible(w) \subseteq DOMAIN w
  BY DEF Ingestible
<1>4. /\ DOMAIN ToRows(w) = Ingestible(w)
      /\ \A id \in Ingestible(w) :
          ToRows(w)[id] = [ends_at |-> w[id].expires, content |-> w[id].content]
      /\ ToRows(w) = [id \in DOMAIN ToRows(w) |-> ToRows(w)[id]]
  BY DEF ToRows
<1>5. \A id \in Ingestible(w) :
        ToRows(w)[id] \in Record /\ ToRows(w)[id].ends_at = w[id].expires
  <2>1. TAKE id \in Ingestible(w)
  <2>2. w[id] \in Message
    BY <1>2, <1>3
  <2>3. ToRows(w)[id] = [ends_at |-> w[id].expires, content |-> w[id].content]
    BY <1>4
  <2> QED
    BY <2>2, <2>3 DEF Message, Record
<1>6. IsTableOf(Record, ToRows(w))
  BY <1>2, <1>3, <1>4, <1>5 DEF IsTableOf
<1>7. ASSUME NEW id \in DOMAIN Superseded(w)
      PROVE  /\ Superseded(w)[id] \in Instants
             /\ \A m \in Superseding(w, id) : Superseded(w)[id] <= w[m].sent
  <2>1. id \in Ids /\ Superseding(w, id) # {} /\ Superseded(w)[id] = EarliestSent(w, id)
    BY DEF Superseded
  <2> DEFINE sents == {w[m].sent : m \in Superseding(w, id)}
  <2>2. Superseding(w, id) \subseteq DOMAIN w
    BY DEF Superseding
  <2>3. sents \in SUBSET Nat /\ sents # {}
    BY <1>2, <2>1, <2>2 DEF Message, Instants
  <2>4. \E t \in sents : \A n \in sents : t <= n
    BY <2>3, LeastNatural
  <2>5. \E t \in sents : \A m \in Superseding(w, id) : t <= w[m].sent
    BY <2>4
  <2>6. /\ EarliestSent(w, id) \in sents
        /\ \A m \in Superseding(w, id) : EarliestSent(w, id) <= w[m].sent
    BY <2>5 DEF EarliestSent
  <2> QED
    BY <2>1, <2>3, <2>6 DEF Instants
<1>8. ASSUME NEW m \in DOMAIN w, w[m].msg_type \in {"Update", "Cancel"}
      PROVE  w[m].references \subseteq DOMAIN Superseded(w)
  <2>1. w[m].references \subseteq Ids
    BY <1>2 DEF Message
  <2>2. \A id \in w[m].references : m \in Superseding(w, id)
    BY <1>8 DEF Superseding
  <2> QED
    BY <2>1, <2>2 DEF Superseded
<1> QED
  BY <1>1, <1>3, <1>4, <1>5, <1>6, <1>7, <1>8

(***************************************************************************)
(* The table after a commit.                                               *)
(***************************************************************************)
LEMMA ReconciledFacts ==
    ASSUME TypeOK, NEW w \in Bulletins
    PROVE  /\ IsTableOf(Row, Reconciled(w))
           /\ DOMAIN Reconciled(w) = DOMAIN rows \cup Ingestible(w)
           /\ \A id \in DOMAIN rows \ Ingestible(w), t \in Int :
                  ~ OpenAt(rows[id], t) => ~ OpenAt(Reconciled(w)[id], t)
           /\ \A id \in DOMAIN rows \cap (cursor \ Ingestible(w)) :
                  ~ OpenAt(Reconciled(w)[id], batch_at)
           /\ \A m \in DOMAIN w : w[m].msg_type \in {"Update", "Cancel"} =>
                  \A id \in w[m].references \cap DOMAIN Reconciled(w) :
                      ~ OpenAt(Reconciled(w)[id], w[m].sent)
           /\ \A id \in DOMAIN Reconciled(w) :
                  \/ id \in DOMAIN rows /\ Reconciled(w)[id] = rows[id]
                  \/ Reconciled(w)[id].written = batch_at /\ Changed(w)
<1>1. /\ IsTableOf(Row, rows)
      /\ batch_at \in Instants /\ batch_at \in Int
      /\ IsTableOf(Message, w)
      /\ IsTableOf(Record, ToRows(w))
      /\ DOMAIN ToRows(w) = Ingestible(w)
  BY BulletinFacts DEF TypeOK, Instants
<1> DEFINE u == AfterUpsert(w)
           s == AfterSuperseded(w)
           r == Reconciled(w)
<1>2. /\ IsTableOf(Row, u)
      /\ DOMAIN u = DOMAIN rows \cup Ingestible(w)
      /\ \A id \in DOMAIN rows \ Ingestible(w) : u[id] = rows[id]
      /\ \A id \in Upserted(rows, ToRows(w)) : u[id].written = batch_at
      /\ \A id \in DOMAIN u \ Upserted(rows, ToRows(w)) :
             id \in DOMAIN rows /\ u[id] = rows[id]
  BY <1>1, UpsertFacts DEF AfterUpsert
<1>3. /\ IsTableOf(Row, s)
      /\ DOMAIN s = DOMAIN u
      /\ \A id \in DOMAIN u, t \in Int : ~ OpenAt(u[id], t) => ~ OpenAt(s[id], t)
      /\ \A id \in DOMAIN u \cap DOMAIN Superseded(w) : ~ OpenAt(s[id], Superseded(w)[id])
      /\ \A id \in Closed(u, Superseded(w)) : s[id].written = batch_at
      /\ \A id \in DOMAIN u \ Closed(u, Superseded(w)) : s[id] = u[id]
  <2>1. \A id \in DOMAIN Superseded(w) : Superseded(w)[id] \in Instants
    BY BulletinFacts
  <2>2. s = CloseEvents(u, Superseded(w), batch_at)
    BY DEF AfterSuperseded
  <2> HIDE DEF u, s
  <2> QED
    BY <1>1, <1>2, <2>1, <2>2, CloseFacts
<1>4. DOMAIN Vanished(w) = cursor \ Ingestible(w)
      /\ \A id \in DOMAIN Vanished(w) : Vanished(w)[id] = batch_at
  BY DEF Vanished
<1>5. /\ IsTableOf(Row, r)
      /\ DOMAIN r = DOMAIN s
      /\ \A id \in DOMAIN s, t \in Int : ~ OpenAt(s[id], t) => ~ OpenAt(r[id], t)
      /\ \A id \in DOMAIN s \cap DOMAIN Vanished(w) : ~ OpenAt(r[id], Vanished(w)[id])
      /\ \A id \in Closed(s, Vanished(w)) : r[id].written = batch_at
      /\ \A id \in DOMAIN s \ Closed(s, Vanished(w)) : r[id] = s[id]
  <2>1. \A id \in DOMAIN Vanished(w) : Vanished(w)[id] \in Instants
    BY <1>1, <1>4
  <2>2. r = CloseEvents(s, Vanished(w), batch_at)
    BY DEF Reconciled
  <2> HIDE DEF s, r
  <2> QED
    BY <1>1, <1>3, <2>1, <2>2, CloseFacts
<1> HIDE DEF u, s, r
<1>6. \A id \in DOMAIN rows \ Ingestible(w), t \in Int :
        ~ OpenAt(rows[id], t) => ~ OpenAt(r[id], t)
  BY <1>2, <1>3, <1>5
<1>7. \A id \in DOMAIN rows \cap (cursor \ Ingestible(w)) : ~ OpenAt(r[id], batch_at)
  BY <1>2, <1>3, <1>4, <1>5
<1>8. ASSUME NEW m \in DOMAIN w, w[m].msg_type \in {"Update", "Cancel"},
             NEW id \in w[m].references \cap DOMAIN r
      PROVE  ~ OpenAt(r[id], w[m].sent)
  <2>1. id \in DOMAIN Superseded(w) /\ w[m] \in Message
    BY <1>1, <1>8, BulletinFacts DEF IsTableOf
  <2>2. m \in Superseding(w, id)
    BY <1>8 DEF Superseding
  <2>3. /\ Superseded(w)[id] \in Int /\ Superseded(w)[id] <= w[m].sent
        /\ w[m].sent \in Int
    BY <2>1, <2>2, BulletinFacts DEF Instants, Message
  <2>4. ~ OpenAt(r[id], Superseded(w)[id])
    BY <1>3, <1>5, <1>8, <2>1, <2>3
  <2>5. r[id] \in Row
    BY <1>5 DEF IsTableOf
  <2>6. r[id].ends_at \in Nat
    BY <2>4, <2>5 DEF OpenAt, Row, Instants
  <2> QED
    BY <2>3, <2>4, <2>6 DEF OpenAt
<1>9. ASSUME NEW id \in DOMAIN r
      PROVE  \/ id \in DOMAIN rows /\ r[id] = rows[id]
             \/ r[id].written = batch_at /\ Changed(w)
  <2>1. CASE id \in Closed(s, Vanished(w))
    BY <1>5, <2>1 DEF Changed, s
  <2>2. CASE id \notin Closed(s, Vanished(w)) /\ id \in Closed(u, Superseded(w))
    BY <1>3, <1>5, <2>2 DEF Changed, u
  <2>3. CASE /\ id \notin Closed(s, Vanished(w)) /\ id \notin Closed(u, Superseded(w))
             /\ id \in Upserted(rows, ToRows(w))
    BY <1>2, <1>3, <1>5, <2>3 DEF Changed
  <2>4. CASE /\ id \notin Closed(s, Vanished(w)) /\ id \notin Closed(u, Superseded(w))
             /\ id \notin Upserted(rows, ToRows(w))
    BY <1>2, <1>3, <1>5, <2>4
  <2> QED
    BY <2>1, <2>2, <2>3, <2>4
<1> QED
  BY <1>2, <1>3, <1>5, <1>6, <1>7, <1>8, <1>9 DEF r

(***************************************************************************)
(* Every row of this source has an end: a message carries its expires, and *)
(* a close gives another.                                                  *)
(***************************************************************************)
Bounded == \A id \in DOMAIN rows : rows[id].ends_at \in Instants

LEMMA ReconciledEnds ==
    ASSUME TypeOK, Bounded, NEW w \in Bulletins, NEW id \in DOMAIN Reconciled(w)
    PROVE  /\ Reconciled(w)[id].ends_at \in Instants
           /\ \/ id \in DOMAIN w /\ Reconciled(w)[id].ends_at <= w[id].expires
              \/ id \in DOMAIN rows /\ Reconciled(w)[id].ends_at <= rows[id].ends_at
<1> DEFINE u == AfterUpsert(w)
           s == AfterSuperseded(w)
           r == Reconciled(w)
<1>1. /\ IsTableOf(Row, rows)
      /\ batch_at \in Instants
      /\ IsTableOf(Message, w)
      /\ IsTableOf(Record, ToRows(w))
      /\ DOMAIN ToRows(w) = Ingestible(w)
      /\ \A i \in Ingestible(w) : /\ i \in DOMAIN w
                                   /\ ToRows(w)[i].ends_at = w[i].expires
  BY BulletinFacts DEF TypeOK, Instants
<1>2. \A i \in DOMAIN w : w[i].expires \in Instants
  BY <1>1 DEF IsTableOf, Message
<1>3. /\ IsTableOf(Row, u)
      /\ DOMAIN u = DOMAIN rows \cup Ingestible(w)
      /\ \A i \in DOMAIN rows \ Ingestible(w) : u[i] = rows[i]
      /\ \A i \in Ingestible(w) : u[i].ends_at = ToRows(w)[i].ends_at
  <2>1. u = Upsert(rows, ToRows(w), batch_at)
    BY DEF AfterUpsert
  <2> HIDE DEF u
  <2>2. /\ IsTableOf(Row, u)
        /\ DOMAIN u = DOMAIN rows \cup DOMAIN ToRows(w)
        /\ \A i \in DOMAIN rows \ DOMAIN ToRows(w) : u[i] = rows[i]
        /\ \A i \in DOMAIN ToRows(w) : /\ u[i].ends_at = ToRows(w)[i].ends_at
                                        /\ u[i].content = ToRows(w)[i].content
    BY <1>1, <2>1, UpsertFacts
  <2> QED
    BY <1>1, <2>2
<1>4. /\ \A i \in DOMAIN Superseded(w) : Superseded(w)[i] \in Instants
      /\ \A i \in DOMAIN Vanished(w) : Vanished(w)[i] \in Instants
  BY <1>1, BulletinFacts DEF Vanished
<1>5. s = CloseEvents(u, Superseded(w), batch_at) /\ r = CloseEvents(s, Vanished(w), batch_at)
  BY DEF AfterSuperseded, Reconciled
<1> HIDE DEF u, s, r
<1>6. \A i \in DOMAIN u :
        /\ u[i].ends_at \in Instants
        /\ \/ i \in DOMAIN w /\ u[i].ends_at = w[i].expires
           \/ i \in DOMAIN rows /\ u[i].ends_at = rows[i].ends_at
  BY <1>1, <1>2, <1>3 DEF Bounded
<1>7. /\ IsTableOf(Row, s)
      /\ DOMAIN s = DOMAIN u
      /\ \A i \in DOMAIN u : s[i].ends_at \in Instants /\ s[i].ends_at <= u[i].ends_at
  <2>1. IsTableOf(Row, s) /\ DOMAIN s = DOMAIN u
    BY <1>1, <1>3, <1>4, <1>5, CloseFacts
  <2>2. \A i \in DOMAIN u : s[i].ends_at \in Instants /\ s[i].ends_at <= u[i].ends_at
    BY <1>1, <1>3, <1>4, <1>5, <1>6, CloseShortens
  <2> QED
    BY <2>1, <2>2
<1>8. /\ DOMAIN r = DOMAIN s
      /\ \A i \in DOMAIN s : r[i].ends_at \in Instants /\ r[i].ends_at <= s[i].ends_at
  <2>1. DOMAIN r = DOMAIN s
    BY <1>1, <1>4, <1>5, <1>7, CloseFacts
  <2>2. \A i \in DOMAIN s : r[i].ends_at \in Instants /\ r[i].ends_at <= s[i].ends_at
    BY <1>1, <1>4, <1>5, <1>7, CloseShortens
  <2> QED
    BY <2>1, <2>2
<1>9. id \in DOMAIN u /\ r[id].ends_at \in Nat /\ s[id].ends_at \in Nat /\ u[id].ends_at \in Nat
  BY <1>6, <1>7, <1>8 DEF Instants, r
<1>10. r[id].ends_at <= u[id].ends_at
  BY <1>7, <1>8, <1>9
<1>11. \/ id \in DOMAIN w /\ r[id].ends_at <= w[id].expires
       \/ id \in DOMAIN rows /\ r[id].ends_at <= rows[id].ends_at
  BY <1>6, <1>9, <1>10
<1> QED
  BY <1>9, <1>11 DEF r, Instants

LEMMA InitEstablishes == Init => IInv
<1> SUFFICES ASSUME Init PROVE IInv
  OBVIOUS
<1>1. rows = [id \in {} |-> NULL] /\ DOMAIN rows = {}
  BY DEF Init
<1>2. TypeOK
  <2>1. IsTableOf(Row, rows)
    BY <1>1 DEF IsTableOf
  <2>2. 0 \in 0 .. MaxTime /\ 0 \in 0 .. MaxFailures
    BY AemetSyncAssumption
  <2> QED
    BY <2>1, <2>2 DEF Init, TypeOK
<1>3. WithdrawnIsOver /\ EveryChangeAnnounced
  BY <1>1 DEF WithdrawnIsOver, EveryChangeAnnounced
<1>4. SupersededIsOver
  BY DEF Init, SupersededIsOver
<1> QED
  BY <1>2, <1>3, <1>4 DEF IInv

LEMMA CommitPreserves == IInv /\ Commit => IInv'
<1> SUFFICES ASSUME IInv, Commit PROVE IInv'
  OBVIOUS
<1>1. PICK w \in Bulletins : w = fetched
  BY DEF IInv, TypeOK, Commit
<1>2. /\ rows' = Reconciled(w)
      /\ cursor' = Ingestible(w)
      /\ failures' = 0
      /\ announced' = IF Changed(w) THEN announced \cup {batch_at} ELSE announced
      /\ reconciled' = w /\ pc' = "idle" /\ fetched' = NULL
      /\ UNCHANGED <<now, bulletin, batch_at>>
  BY <1>1 DEF Commit, Cursor
<1>3. /\ IsTableOf(Row, rows')
      /\ DOMAIN rows' = DOMAIN rows \cup Ingestible(w)
      /\ \A id \in DOMAIN rows \ Ingestible(w), t \in Int :
             ~ OpenAt(rows[id], t) => ~ OpenAt(rows'[id], t)
      /\ \A id \in DOMAIN rows \cap (cursor \ Ingestible(w)) : ~ OpenAt(rows'[id], batch_at)
      /\ \A m \in DOMAIN w : w[m].msg_type \in {"Update", "Cancel"} =>
             \A id \in w[m].references \cap DOMAIN rows' : ~ OpenAt(rows'[id], w[m].sent)
      /\ \A id \in DOMAIN rows' :
             \/ id \in DOMAIN rows /\ rows'[id] = rows[id]
             \/ rows'[id].written = batch_at /\ Changed(w)
  BY <1>2, ReconciledFacts DEF IInv
<1>4. TypeOK'
  <2>1. Ingestible(w) \subseteq Ids
    BY BulletinFacts DEF Ingestible, IsTableOf
  <2>2. 0 \in 0 .. MaxFailures
    BY AemetSyncAssumption
  <2> QED
    BY <1>2, <1>3, <2>1, <2>2 DEF IInv, TypeOK
<1>5. WithdrawnIsOver'
  <2> SUFFICES ASSUME NEW id \in DOMAIN rows', id \notin Ingestible(w)
               PROVE  ~ OpenAt(rows'[id], batch_at)
    BY <1>2 DEF WithdrawnIsOver
  <2>1. id \in DOMAIN rows \ Ingestible(w) /\ batch_at \in Int
    BY <1>3 DEF IInv, TypeOK
  <2>2. CASE id \in cursor
    BY <1>3, <2>1, <2>2
  <2>3. CASE id \notin cursor
    BY <1>3, <2>1, <2>3 DEF IInv, WithdrawnIsOver
  <2> QED
    BY <2>2, <2>3
<1>6. SupersededIsOver'
  BY <1>2, <1>3 DEF SupersededIsOver
<1>7. EveryChangeAnnounced'
  BY <1>2, <1>3 DEF IInv, EveryChangeAnnounced
<1> QED
  BY <1>4, <1>5, <1>6, <1>7 DEF IInv

LEMMA StepPreserves == IInv /\ [Next]_vars => IInv'
<1> SUFFICES ASSUME IInv, [Next]_vars PROVE IInv'
  OBVIOUS
<1>1. CASE Commit
  BY <1>1, CommitPreserves
<1>2. ASSUME UNCHANGED <<rows, cursor, announced, reconciled>>, TypeOK', batch_at' >= batch_at
      PROVE  IInv'
  <2>1. WithdrawnIsOver'
    <3> SUFFICES ASSUME NEW id \in DOMAIN rows, OpenAt(rows[id], batch_at') PROVE id \in cursor
      BY <1>2 DEF WithdrawnIsOver
    <3>1. rows[id].ends_at \in Nat \cup {NULL} /\ batch_at \in Int /\ batch_at' \in Int
      BY <1>2 DEF IInv, TypeOK, IsTableOf, Row, Instants
    <3>2. OpenAt(rows[id], batch_at)
      BY <1>2, <3>1 DEF OpenAt
    <3> QED
      BY <3>2 DEF IInv, WithdrawnIsOver
  <2>2. SupersededIsOver' /\ EveryChangeAnnounced'
    BY <1>2 DEF IInv, SupersededIsOver, EveryChangeAnnounced
  <2> QED
    BY <1>2, <2>1, <2>2 DEF IInv
<1>3. TypeOK /\ now \in Int /\ batch_at \in Int /\ failures \in Int
  BY DEF IInv, TypeOK
<1>4. ASSUME NEW b \in Bulletins, Issue(b) PROVE IInv'
  <2>1. UNCHANGED <<now, rows, cursor, failures, announced, reconciled, pc, fetched, batch_at>>
    BY <1>4 DEF Issue, stored, syncVars
  <2>2. TypeOK' /\ batch_at' >= batch_at
    BY <1>3, <1>4, <2>1 DEF Issue, TypeOK
  <2> QED
    BY <1>2, <2>1, <2>2
<1>5. CASE Fetch
  <2>1. UNCHANGED <<now, bulletin, rows, cursor, failures, announced, reconciled, batch_at>>
    BY <1>5 DEF Fetch, stored
  <2>2. TypeOK' /\ batch_at' >= batch_at
    BY <1>3, <1>5, <2>1 DEF Fetch, TypeOK
  <2> QED
    BY <1>2, <2>1, <2>2
<1>6. CASE FetchFails
  <2>1. UNCHANGED <<now, bulletin, rows, cursor, announced, reconciled, pc, fetched, batch_at>>
    BY <1>6 DEF FetchFails, syncVars
  <2>2. failures' \in 0 .. MaxFailures
    BY <1>3, <1>6, AemetSyncAssumption DEF FetchFails, TypeOK
  <2>3. TypeOK' /\ batch_at' >= batch_at
    BY <1>3, <2>1, <2>2 DEF TypeOK
  <2> QED
    BY <1>2, <2>1, <2>3
<1>7. CASE BeginTransaction
  <2>1. UNCHANGED <<now, bulletin, rows, cursor, failures, announced, reconciled, fetched>>
    BY <1>7 DEF BeginTransaction, stored
  <2>2. TypeOK' /\ batch_at' >= batch_at
    BY <1>3, <1>7, <2>1 DEF BeginTransaction, TypeOK
  <2> QED
    BY <1>2, <2>1, <2>2
<1>8. CASE Abort
  <2>1. UNCHANGED <<now, bulletin, rows, cursor, failures, announced, reconciled, batch_at>>
    BY <1>8 DEF Abort, stored
  <2>2. TypeOK' /\ batch_at' >= batch_at
    BY <1>3, <1>8, <2>1 DEF Abort, TypeOK
  <2> QED
    BY <1>2, <2>1, <2>2
<1>9. CASE Tick
  <2>1. UNCHANGED <<bulletin, rows, cursor, failures, announced, reconciled, pc, fetched, batch_at>>
    BY <1>9 DEF Tick, stored, syncVars
  <2>2. now' \in 0 .. MaxTime /\ batch_at' >= batch_at /\ batch_at <= now'
    BY <1>3, <1>9, <2>1, AemetSyncAssumption DEF Tick, TypeOK
  <2>3. TypeOK'
    BY <1>3, <2>1, <2>2 DEF TypeOK
  <2> QED
    BY <1>2, <2>1, <2>2, <2>3
<1>10. CASE UNCHANGED vars
  <2>1. UNCHANGED <<now, bulletin, rows, cursor, failures, announced, reconciled, pc, fetched,
                    batch_at>>
    BY <1>10 DEF vars, stored, syncVars
  <2>2. TypeOK' /\ batch_at' >= batch_at
    BY <1>3, <2>1 DEF TypeOK
  <2> QED
    BY <1>2, <2>1, <2>2
<1> QED
  BY <1>1, <1>4, <1>5, <1>6, <1>7, <1>8, <1>9, <1>10 DEF Next

(***************************************************************************)
(* The inductive invariant of the reconciliation.                          *)
(***************************************************************************)
THEOREM Invariant == Spec => []IInv
  BY InitEstablishes, StepPreserves, PTL DEF Spec

(***************************************************************************)
(* Type correctness of the table, the cursor and the sync.                 *)
(***************************************************************************)
THEOREM TypeCorrect == Spec => []TypeOK
<1>1. IInv => TypeOK
  BY DEF IInv
<1> QED
  BY <1>1, Invariant, PTL

(***************************************************************************)
(* No withdrawn warning stays in force, whatever bulletins the source      *)
(* issues and whichever syncs fail (sync_aemet.py 88-112).                 *)
(***************************************************************************)
THEOREM WithdrawnIsNotInForce == Spec => []InForceIsServed
<1>1. IInv => InForceIsServed
  <2> SUFFICES ASSUME IInv, NEW id \in DOMAIN rows, OpenAt(rows[id], now) PROVE id \in cursor
    BY DEF InForceIsServed
  <2>1. /\ rows[id].ends_at \in Nat \cup {NULL}
        /\ now \in Int /\ batch_at \in Int /\ batch_at <= now
    BY DEF IInv, TypeOK, IsTableOf, Row, Instants
  <2>2. OpenAt(rows[id], batch_at)
    BY <2>1 DEF OpenAt
  <2> QED
    BY <2>2 DEF IInv, WithdrawnIsOver
<1> QED
  BY <1>1, Invariant, PTL

(***************************************************************************)
(* What the last bulletin supersedes is over at the sent of the message    *)
(* that supersedes it (sync_aemet.py 88-100).                              *)
(***************************************************************************)
THEOREM NoDoubleCounting == Spec => []SupersededIsOver
<1>1. IInv => SupersededIsOver
  BY DEF IInv
<1> QED
  BY <1>1, Invariant, PTL

(***************************************************************************)
(* No change of a row escapes the consumers of hazards.batch_ingested      *)
(* (sync_aemet.py 56-66).                                                  *)
(***************************************************************************)
THEOREM NoSilentChange == Spec => []EveryChangeAnnounced
<1>1. IInv => EveryChangeAnnounced
  BY DEF IInv
<1> QED
  BY <1>1, Invariant, PTL

(***************************************************************************)
(* A batch never leaves a warning it withdraws open at its own mark, which *)
(* is what keeps such a warning out of the notices of that batch           *)
(* (sync_aemet.py 102-112).                                                *)
(***************************************************************************)
THEOREM WithdrawnInItsBatch == Spec => WithdrawnIsOverInItsBatch
<1> DEFINE Withdrawn ==
        \A id \in DOMAIN rows :
            (rows'[id] # rows[id] /\ id \notin cursor')
                => ~ OpenAt(rows'[id], rows'[id].written)
<1>1. IInv /\ [Next]_vars => [Withdrawn]_vars
  <2> SUFFICES ASSUME IInv, Next, NEW id \in DOMAIN rows, rows'[id] # rows[id], id \notin cursor'
               PROVE  ~ OpenAt(rows'[id], rows'[id].written)
    BY Zenon
  <2>1. Commit
    BY DEF Next, Issue, Fetch, FetchFails, BeginTransaction, Abort, Tick, stored
  <2>2. PICK w \in Bulletins : w = fetched
    BY <2>1 DEF IInv, TypeOK, Commit
  <2>3. rows' = Reconciled(w) /\ cursor' = Ingestible(w)
    BY <2>1, <2>2 DEF Commit, Cursor
  <2>4. /\ id \in DOMAIN rows \ Ingestible(w) /\ batch_at \in Int
        /\ id \in DOMAIN Reconciled(w)
    <3>1. TypeOK /\ batch_at \in Int
      BY DEF IInv, TypeOK
    <3>2. DOMAIN Reconciled(w) = DOMAIN rows \cup Ingestible(w)
      BY <3>1, ReconciledFacts
    <3> QED
      BY <2>3, <3>1, <3>2
  <2>5. rows'[id].written = batch_at
    BY <2>3, <2>4, ReconciledFacts DEF IInv
  <2>6. CASE id \in cursor
    BY <2>3, <2>4, <2>5, <2>6, ReconciledFacts DEF IInv
  <2>7. CASE id \notin cursor
    <3>1. ~ OpenAt(rows[id], batch_at)
      BY <2>4, <2>7 DEF IInv, WithdrawnIsOver
    <3> QED
      BY <2>3, <2>4, <2>5, <3>1, ReconciledFacts DEF IInv
  <2> QED
    BY <2>6, <2>7
<1> QED
  BY <1>1, Invariant, PTL DEF Spec, WithdrawnIsOverInItsBatch

LEMMA BoundedStep == IInv /\ Bounded /\ [Next]_vars => Bounded'
<1> SUFFICES ASSUME IInv, Bounded, [Next]_vars PROVE Bounded'
  OBVIOUS
<1>1. CASE Commit
  <2>1. PICK w \in Bulletins : w = fetched
    BY <1>1 DEF IInv, TypeOK, Commit
  <2>2. rows' = Reconciled(w)
    BY <1>1, <2>1 DEF Commit
  <2> QED
    BY <2>2, ReconciledEnds DEF IInv, Bounded
<1>2. CASE UNCHANGED rows
  BY <1>2 DEF Bounded
<1> QED
  BY <1>1, <1>2 DEF Next, Issue, Fetch, FetchFails, BeginTransaction, Abort, Tick, vars, stored

(***************************************************************************)
(* No window of a warning grows but by a message of the source: what a     *)
(* sync closes, it closes earlier than the row said, whatever the order of *)
(* the closes and of the clocks (hazard_event.py 138-160).                 *)
(***************************************************************************)
THEOREM WindowsOnlyShrink == Spec => OnlySourceExtends
<1> DEFINE Extends ==
        \A id \in DOMAIN rows :
            rows'[id].ends_at > rows[id].ends_at
                => /\ id \in DOMAIN fetched
                   /\ rows'[id].ends_at <= fetched[id].expires
<1>1. Init => Bounded
  BY DEF Init, Bounded
<1>2. IInv /\ Bounded /\ [Next]_vars => [Extends]_vars
  <2> SUFFICES ASSUME IInv, Bounded, Next, NEW id \in DOMAIN rows,
                      rows'[id].ends_at > rows[id].ends_at
               PROVE  id \in DOMAIN fetched /\ rows'[id].ends_at <= fetched[id].expires
    BY Zenon
  <2>1. rows[id].ends_at \in Nat
    BY DEF Bounded, Instants
  <2>2. CASE Commit
    <3>1. PICK w \in Bulletins : w = fetched
      BY <2>2 DEF IInv, TypeOK, Commit
    <3>2. rows' = Reconciled(w) /\ TypeOK
      BY <2>2, <3>1 DEF Commit, IInv
    <3>3. id \in DOMAIN Reconciled(w)
      BY <3>2, ReconciledFacts
    <3>4. /\ rows'[id].ends_at \in Nat
          /\ \/ id \in DOMAIN w /\ rows'[id].ends_at <= w[id].expires
             \/ rows'[id].ends_at <= rows[id].ends_at
      BY <3>2, <3>3, ReconciledEnds DEF Instants
    <3> QED
      BY <2>1, <3>1, <3>4
  <2>3. CASE UNCHANGED rows
    BY <2>1, <2>3
  <2> QED
    BY <2>2, <2>3 DEF Next, Issue, Fetch, FetchFails, BeginTransaction, Abort, Tick, stored
<1> QED
  BY <1>1, <1>2, BoundedStep, Invariant, PTL DEF Spec, OnlySourceExtends
=============================================================================
