--------------------------- MODULE ReadSideProofs ---------------------------
(***************************************************************************)
(* ReadSide for any table, workers, clients, requests and bounds.  The     *)
(* inductive invariant says what a file promises: it holds every batch     *)
(* whose event was processed, unless several writes raced for it; and what *)
(* a write that is alone promises: no other write of its source can put    *)
(* back what it replaces.  A listing is right when each row that stayed in *)
(* place was given once, or not yet and lies after the cursor.  The        *)
(* histories and the views of the events are functions of the rows: that   *)
(* they agree is proved of any rows, and the invariant says which there    *)
(* are.                                                                    *)
(***************************************************************************)
EXTENDS ReadSide, FiniteSetTheorems, SequenceTheorems, WellFoundedInduction, TLAPS

Hands ==
    [phase : {"idle"}]
        \cup [phase : {"claimed"}, source : Sources, event : Nat]
        \cup [phase : {"writing"}, source : Sources, event : Nat, rows : Nat, alone : BOOLEAN]

Threads == [source : Sources, rows : Nat, alone : BOOLEAN]

ReadRecords == [source : Sources, version : Nat, blurred : BOOLEAN]

RequestRecords ==
    [phase : Phases, left : Seq(SUBSET Sources), seen : SUBSET ReadRecords,
     floor : [Sources -> Nat]]

Shapes ==
    /\ version \in [Sources -> Nat]
    /\ todo \in [Sources -> SUBSET Nat]
    /\ handled \in [Sources -> Nat]
    /\ file \in [Sources -> Nat]
    /\ blurred \in SUBSET Sources
    /\ hand \in [Workers -> Hands]
    /\ threads \in [Workers -> SUBSET Threads]
    /\ request \in [Clients -> RequestRecords]

(* Rows are read after the batch whose event is in hand. *)
BatchesKnown ==
    /\ \A s \in Sources :
          /\ todo[s] \subseteq 1 .. version[s]
          /\ handled[s] <= version[s] /\ file[s] <= version[s]
    /\ \A w \in Workers :
          hand[w].phase # "idle" => hand[w].event \in 1 .. version[hand[w].source]
    /\ \A w \in Workers :
          hand[w].phase = "writing" =>
             hand[w].rows \in hand[w].event .. version[hand[w].source]
    /\ \A w \in Workers : \A t \in threads[w] : t.rows \in 1 .. version[t.source]

(* What a file promises. *)
FileHoldsHandled == \A s \in Sources : file[s] >= handled[s] \/ s \in blurred

(* What a write of a handler promises when it is the only one of its source. *)
AloneHands ==
    \A w \in Workers :
        hand[w].phase = "writing" /\ hand[w].alone =>
           /\ hand[w].rows >= handled[hand[w].source]
           /\ \A x \in Workers :
                 /\ Writing(x, hand[w].source) => x = w
                 /\ \A t \in threads[x] : t.source # hand[w].source

(* The same of a write that no handler waits for. *)
AloneThreads ==
    \A w \in Workers : \A t \in threads[w] :
        t.alone =>
           /\ t.rows >= handled[t.source]
           /\ \A x \in Workers :
                 /\ ~ Writing(x, t.source)
                 /\ \A u \in threads[x] : u.source = t.source => x = w /\ u = t

(* What a request has read, and the files it still counts on. *)
RequestFresh(q) ==
    /\ q.phase # "missing"
    /\ \A s \in Sources : q.floor[s] <= handled[s]
    /\ \A r \in q.seen : r.version >= q.floor[r.source] \/ r.blurred
    /\ \A i \in 1 .. Len(q.left) : \A s \in q.left[i] : file[s] # 0

RequestsFresh == \A c \in Clients : RequestFresh(request[c])

IInv ==
    /\ Shapes
    /\ BatchesKnown
    /\ FileHoldsHandled
    /\ AloneHands
    /\ AloneThreads
    /\ RequestsFresh

(* The larger of two numbers, as FiniteSetsExt defines it. *)
LEMMA MaxOfTwo ==
    ASSUME NEW m \in Nat, NEW n \in Nat
    PROVE  Max({m, n}) \in {m, n} /\ Max({m, n}) >= m /\ Max({m, n}) >= n
<1>1. \E x \in {m, n} : \A y \in {m, n} : x >= y
  <2>1. CASE m >= n
    BY <2>1
  <2>2. CASE ~ (m >= n)
    BY <2>2
  <2> QED
    BY <2>1, <2>2
<1>2. Max({m, n}) \in {m, n} /\ \A y \in {m, n} : Max({m, n}) >= y
  BY <1>1 DEF Max
<1> QED
  BY <1>2

LEMMA Initially == ASSUME Init PROVE IInv
<1>1. Shapes
  BY DEF Init, Shapes, Hands, Idle, RequestRecords, Gone, Phases
<1>2. RequestsFresh
  BY DEF Init, RequestsFresh, RequestFresh, Gone
<1> QED
  BY <1>1, <1>2 DEF Init, IInv, BatchesKnown, FileHoldsHandled, AloneHands, AloneThreads, Idle

(***************************************************************************)
(* Steps of the writers.                                                   *)
(***************************************************************************)
LEMMA IngestKeeps == ASSUME IInv, NEW s \in Sources, Ingest(s) PROVE IInv'
<1>1. Shapes'
  BY DEF Ingest, IInv, Shapes, readers
<1>2. \A r \in Sources : version'[r] \in Nat /\ version'[r] >= version[r]
  BY DEF Ingest, IInv, Shapes
<1>3. BatchesKnown'
  <2>1. \A r \in Sources : todo'[r] \subseteq 1 .. version'[r]
    BY <1>2 DEF Ingest, IInv, Shapes, BatchesKnown
  <2>2. \A r \in Sources : handled'[r] <= version'[r] /\ file'[r] <= version'[r]
    BY <1>2 DEF Ingest, IInv, Shapes, BatchesKnown
  <2>3. \A w \in Workers :
            /\ hand'[w].phase # "idle" => hand'[w].event \in 1 .. version'[hand'[w].source]
            /\ hand'[w].phase = "writing" =>
                  hand'[w].rows \in hand'[w].event .. version'[hand'[w].source]
    BY <1>2 DEF Ingest, IInv, Shapes, BatchesKnown, Hands
  <2>4. \A w \in Workers : \A t \in threads'[w] : t.rows \in 1 .. version'[t.source]
    BY <1>2 DEF Ingest, IInv, Shapes, BatchesKnown, Threads
  <2> QED
    BY <2>1, <2>2, <2>3, <2>4 DEF BatchesKnown
<1>4. /\ FileHoldsHandled' /\ AloneHands' /\ AloneThreads' /\ RequestsFresh'
  BY DEF Ingest, IInv, FileHoldsHandled, AloneHands, AloneThreads, Writing, RequestsFresh,
         RequestFresh, readers
<1> QED
  BY <1>1, <1>3, <1>4 DEF IInv

LEMMA DispatchKeeps == ASSUME IInv, NEW w \in Workers, Dispatch(w) PROVE IInv'
<1>0. PICK s \in Sources : \E v \in todo[s] :
          hand' = [hand EXCEPT ![w] = [phase |-> "claimed", source |-> s, event |-> v]]
  BY DEF Dispatch
<1>1. PICK v \in todo[s] :
          hand' = [hand EXCEPT ![w] = [phase |-> "claimed", source |-> s, event |-> v]]
  BY <1>0
<1>2. v \in Nat /\ v \in 1 .. version[s]
  BY <1>1 DEF IInv, Shapes, BatchesKnown
<1>3. Shapes'
  <2>1. [phase |-> "claimed", source |-> s, event |-> v] \in Hands
    BY <1>2 DEF Hands
  <2>2. hand' \in [Workers -> Hands]
    BY <1>1, <2>1 DEF IInv, Shapes
  <2> QED
    BY <2>2 DEF Dispatch, IInv, Shapes, readers
<1>4. \A x \in Workers :
          \/ hand'[x] = hand[x]
          \/ /\ x = w
             /\ hand'[x] = [phase |-> "claimed", source |-> s, event |-> v]
  BY <1>1 DEF IInv, Shapes
<1>5. BatchesKnown'
  BY <1>2, <1>4 DEF Dispatch, IInv, BatchesKnown
<1>6. \A x \in Workers, r \in Sources : hand'[x].phase = "writing" => hand'[x] = hand[x]
  BY <1>4
<1>7. AloneHands' /\ AloneThreads'
  BY <1>6 DEF Dispatch, IInv, Shapes, Hands, Threads, AloneHands, AloneThreads, Writing
<1>8. FileHoldsHandled' /\ RequestsFresh'
  BY DEF Dispatch, IInv, FileHoldsHandled, RequestsFresh, RequestFresh, readers
<1> QED
  BY <1>3, <1>5, <1>7, <1>8 DEF IInv

(***************************************************************************)
(* A hand that leaves its event idle, and threads that come or go, leave   *)
(* what the rest promise.                                                  *)
(***************************************************************************)
LEMMA HandDropped ==
    ASSUME IInv, NEW w \in Workers, hand' = [hand EXCEPT ![w] = Idle],
           threads' \in [Workers -> SUBSET Threads],
           \A x \in Workers : threads'[x] \subseteq threads[x],
           UNCHANGED <<version, todo, handled, file, blurred, request>>
    PROVE  IInv'
<1>1. Idle \in Hands
  BY DEF Idle, Hands
<1>2. Shapes'
  BY <1>1 DEF IInv, Shapes
<1>3. \A x \in Workers : hand'[x] = hand[x] \/ hand'[x].phase = "idle"
  BY DEF IInv, Shapes, Idle
<1>4. BatchesKnown'
  BY <1>3 DEF IInv, BatchesKnown
<1>5. \A x \in Workers : hand'[x].phase = "writing" => hand'[x] = hand[x]
  BY <1>3
<1>6. AloneHands' /\ AloneThreads'
  BY <1>5 DEF IInv, Shapes, Hands, Threads, AloneHands, AloneThreads, Writing
<1>7. FileHoldsHandled' /\ RequestsFresh'
  BY DEF IInv, FileHoldsHandled, RequestsFresh, RequestFresh
<1> QED
  BY <1>2, <1>4, <1>6, <1>7 DEF IInv

LEMMA WriteFailsKeeps == ASSUME IInv, NEW w \in Workers, WriteFails(w) PROVE IInv'
  BY HandDropped DEF WriteFails, readers, IInv, Shapes

LEMMA CrashKeeps == ASSUME IInv, NEW w \in Workers, Crash(w) PROVE IInv'
<1>1. threads' \in [Workers -> SUBSET Threads] /\ \A x \in Workers : threads'[x] \subseteq threads[x]
  BY DEF Crash, IInv, Shapes
<1> QED
  BY <1>1, HandDropped DEF Crash, readers

(***************************************************************************)
(* The write begins: it reads the newest rows, and those that write the    *)
(* same source now know they are not alone.                                *)
(***************************************************************************)
LEMMA ReadRowsKeeps == ASSUME IInv, NEW w \in Workers, ReadRows(w) PROVE IInv'
<1> DEFINE s == hand[w].source
           begun == [phase |-> "writing", source |-> s, event |-> hand[w].event,
                     rows |-> version[s], alone |-> ~ OtherWrites(s)]
<1>1. hand[w] \in [phase : {"claimed"}, source : Sources, event : Nat]
  BY DEF ReadRows, IInv, Shapes, Hands
<1>2. s \in Sources /\ hand[w].event \in 1 .. version[s] /\ version[s] \in Nat
  BY <1>1 DEF IInv, Shapes, BatchesKnown
<1>3. /\ hand' = [x \in Workers |-> IF x = w THEN begun ELSE Joined(hand[x], s)]
      /\ threads' = [x \in Workers |-> {JoinedThread(t, s) : t \in threads[x]}]
  BY DEF ReadRows
<1>4. begun \in Hands
  BY <1>2 DEF Hands
<1>5. \A x \in Workers : hand[x] \in Hands
  BY DEF IInv, Shapes
<1>6. \A h \in Hands :
          /\ Joined(h, s) \in Hands
          /\ Joined(h, s).phase = h.phase
          /\ h.phase # "idle" => Joined(h, s).source = h.source /\ Joined(h, s).event = h.event
          /\ h.phase = "writing" => Joined(h, s).rows = h.rows
          /\ h.phase = "writing" /\ Joined(h, s).alone => h.source # s /\ h.alone
  BY DEF Joined, Hands
<1>7. \A t \in Threads :
          /\ JoinedThread(t, s) \in Threads
          /\ JoinedThread(t, s).source = t.source
          /\ JoinedThread(t, s).rows = t.rows
          /\ JoinedThread(t, s).alone => t.source # s /\ JoinedThread(t, s) = t
          /\ t.source # s => JoinedThread(t, s) = t
  BY DEF JoinedThread, Threads
<1>8. \A x \in Workers : threads[x] \subseteq Threads
  BY DEF IInv, Shapes
<1>9. Shapes'
  <2>1. hand' \in [Workers -> Hands]
    BY <1>3, <1>4, <1>5, <1>6
  <2>2. threads' \in [Workers -> SUBSET Threads]
    BY <1>3, <1>7, <1>8
  <2> QED
    BY <2>1, <2>2 DEF ReadRows, IInv, Shapes, readers
<1>10. BatchesKnown'
  <2>1. UNCHANGED <<version, todo, handled, file>>
    BY DEF ReadRows
  <2>2. \A x \in Workers :
            /\ hand'[x].phase # "idle" => hand'[x].event \in 1 .. version[hand'[x].source]
            /\ hand'[x].phase = "writing" =>
                  hand'[x].rows \in hand'[x].event .. version[hand'[x].source]
    <3> SUFFICES ASSUME NEW x \in Workers
                 PROVE  /\ hand'[x].phase # "idle" => hand'[x].event \in 1 .. version[hand'[x].source]
                        /\ hand'[x].phase = "writing" =>
                              hand'[x].rows \in hand'[x].event .. version[hand'[x].source]
      OBVIOUS
    <3>1. CASE x = w
      BY <1>2, <1>3, <3>1
    <3>2. CASE x # w
      <4>1. hand'[x] = Joined(hand[x], s)
        BY <1>3, <3>2
      <4> QED
        BY <4>1, <1>5, <1>6 DEF IInv, BatchesKnown
    <3> QED
      BY <3>1, <3>2
  <2>3. \A x \in Workers : \A t \in threads'[x] : t.rows \in 1 .. version[t.source]
    BY <1>3, <1>7, <1>8 DEF IInv, BatchesKnown
  <2> QED
    BY <2>1, <2>2, <2>3 DEF IInv, BatchesKnown
<1>11. AloneHands'
  <2> SUFFICES ASSUME NEW v \in Workers, hand'[v].phase = "writing", hand'[v].alone
               PROVE  /\ hand'[v].rows >= handled'[hand'[v].source]
                      /\ \A x \in Workers :
                            /\ Writing(x, hand[v].source)' => x = v
                            /\ \A t \in threads'[x] : t.source # hand'[v].source
    BY DEF AloneHands
  <2>1. CASE v = w
    <3>1. hand'[v] = begun /\ ~ OtherWrites(s)
      BY <1>3, <2>1
    <3>2. version[s] >= handled[s]
      BY <1>2 DEF IInv, BatchesKnown, Shapes
    <3>3. \A x \in Workers : hand'[x].phase = "writing" /\ hand'[x].source = s => x = v
      <4> SUFFICES ASSUME NEW x \in Workers, x # v, hand'[x].phase = "writing", hand'[x].source = s
                   PROVE  FALSE
        OBVIOUS
      <4>1. hand[x].phase = "writing" /\ hand[x].source = s
        BY <1>3, <1>5, <1>6, <2>1
      <4> QED
        BY <4>1, <3>1 DEF OtherWrites, Writing
    <3>4. \A x \in Workers : \A t \in threads'[x] : t.source # s
      BY <1>3, <1>7, <1>8, <3>1 DEF OtherWrites
    <3> QED
      BY <3>1, <3>2, <3>3, <3>4 DEF ReadRows, Writing
  <2>2. CASE v # w
    <3>1. hand'[v] = Joined(hand[v], s)
      BY <1>3, <2>2
    <3>2. /\ hand[v].phase = "writing" /\ hand[v].alone /\ hand[v].source # s
          /\ hand'[v].source = hand[v].source /\ hand'[v].rows = hand[v].rows
      BY <3>1, <1>5, <1>6
    <3>3. \A x \in Workers :
              /\ hand'[x].phase = "writing" /\ hand'[x].source = hand[v].source => x = v
              /\ \A t \in threads'[x] : t.source # hand[v].source
      <4> SUFFICES ASSUME NEW x \in Workers
                   PROVE  /\ hand'[x].phase = "writing" /\ hand'[x].source = hand[v].source => x = v
                          /\ \A t \in threads'[x] : t.source # hand[v].source
        OBVIOUS
      <4>1. hand'[x].phase = "writing" /\ hand'[x].source = hand[v].source => x = v
        <5>1. CASE x = w
          BY <5>1, <1>3, <3>2
        <5>2. CASE x # w
          BY <5>2, <1>3, <1>5, <1>6, <3>2 DEF IInv, AloneHands, Writing
        <5> QED
          BY <5>1, <5>2
      <4>2. \A t \in threads'[x] : t.source # hand[v].source
        BY <1>3, <1>7, <1>8, <3>2 DEF IInv, AloneHands
      <4> QED
        BY <4>1, <4>2
    <3> QED
      BY <3>2, <3>3 DEF ReadRows, IInv, AloneHands, Writing
  <2> QED
    BY <2>1, <2>2
<1>12. AloneThreads'
  <2> SUFFICES ASSUME NEW v \in Workers, NEW t \in threads'[v], t.alone
               PROVE  /\ t.rows >= handled'[t.source]
                      /\ \A x \in Workers :
                            /\ ~ (hand'[x].phase = "writing" /\ hand'[x].source = t.source)
                            /\ \A u \in threads'[x] : u.source = t.source => x = v /\ u = t
    BY DEF AloneThreads, Writing
  <2>1. t \in threads[v] /\ t.source # s
    BY <1>3, <1>7, <1>8
  <2>2. \A x \in Workers : ~ (hand'[x].phase = "writing" /\ hand'[x].source = t.source)
    BY <1>3, <1>5, <1>6, <2>1 DEF IInv, AloneThreads, Writing
  <2>3. \A x \in Workers : \A u \in threads'[x] : u.source = t.source => x = v /\ u = t
    <3> SUFFICES ASSUME NEW x \in Workers, NEW u \in threads'[x], u.source = t.source
                 PROVE  x = v /\ u = t
      OBVIOUS
    <3>1. u \in threads[x]
      BY <1>3, <1>7, <1>8, <2>1
    <3> QED
      BY <3>1, <2>1 DEF IInv, AloneThreads
  <2> QED
    BY <2>1, <2>2, <2>3 DEF ReadRows, IInv, AloneThreads
<1>13. FileHoldsHandled' /\ RequestsFresh'
  BY DEF ReadRows, IInv, FileHoldsHandled, RequestsFresh, RequestFresh, readers
<1> QED
  BY <1>9, <1>10, <1>11, <1>12, <1>13 DEF IInv

(***************************************************************************)
(* A file is replaced.                                                     *)
(***************************************************************************)
LEMMA RequestsKeep ==
    ASSUME IInv, handled' \in [Sources -> Nat], request' = request,
           \A s \in Sources : handled'[s] >= handled[s],
           \A s \in Sources : file[s] # 0 => file'[s] # 0
    PROVE  RequestsFresh'
<1> SUFFICES ASSUME NEW c \in Clients PROVE RequestFresh(request[c])'
  BY DEF RequestsFresh
<1>1. request[c] \in RequestRecords /\ RequestFresh(request[c])
  BY DEF IInv, Shapes, RequestsFresh
<1>2. \A s \in Sources : request[c].floor[s] <= handled'[s]
  BY <1>1 DEF RequestFresh, RequestRecords, IInv, Shapes
<1>3. \A i \in 1 .. Len(request[c].left) : \A s \in request[c].left[i] : file'[s] # 0
  BY <1>1 DEF RequestFresh, RequestRecords
<1> QED
  BY <1>1, <1>2, <1>3 DEF RequestFresh

LEMMA FileReplaced ==
    ASSUME IInv, NEW s \in Sources, NEW write, write.rows \in 1 .. version[s],
           write.alone \in BOOLEAN, Replaced(s, write)
    PROVE  /\ file' \in [Sources -> Nat]
           /\ blurred' \in SUBSET Sources
           /\ file'[s] = write.rows
           /\ \A r \in Sources : file'[r] # file[r] => r = s
           /\ \A r \in Sources : file[r] # 0 => file'[r] # 0
           /\ \A r \in Sources : r # s => (r \in blurred' <=> r \in blurred)
           /\ ~ write.alone => s \in blurred'
           /\ version \in [Sources -> Nat] /\ handled \in [Sources -> Nat]
           /\ \A r \in Sources : file'[r] <= version[r] /\ handled[r] <= version[r]
<1>1. /\ version \in [Sources -> Nat] /\ file \in [Sources -> Nat] /\ handled \in [Sources -> Nat]
      /\ blurred \in SUBSET Sources
      /\ \A r \in Sources : file[r] <= version[r] /\ handled[r] <= version[r]
  BY DEF IInv, Shapes, BatchesKnown
<1>2. write.rows \in Nat /\ write.rows # 0 /\ write.rows <= version[s]
  BY <1>1
<1>3. file' = [file EXCEPT ![s] = write.rows]
  BY DEF Replaced
<1>4. blurred' = IF write.alone THEN blurred \ {s} ELSE blurred \cup {s}
  BY DEF Replaced
<1> QED
  BY <1>1, <1>2, <1>3, <1>4

(* What the hand that writes is, before it replaces the file. *)
LEMMA WriteInHand ==
    ASSUME IInv, NEW w \in Workers, hand[w].phase = "writing"
    PROVE  /\ hand[w] \in [phase : {"writing"}, source : Sources, event : Nat, rows : Nat,
                           alone : BOOLEAN]
           /\ hand[w].rows \in 1 .. version[hand[w].source]
           /\ hand[w].event \in 1 .. version[hand[w].source]
           /\ hand[w].rows >= hand[w].event
<1>1. hand[w] \in [phase : {"writing"}, source : Sources, event : Nat, rows : Nat, alone : BOOLEAN]
  BY DEF IInv, Shapes, Hands
<1>2. version[hand[w].source] \in Nat
  BY <1>1 DEF IInv, Shapes
<1> QED
  BY <1>1, <1>2 DEF IInv, BatchesKnown

(***************************************************************************)
(* A write of source s ends and gives way: it was of the newest rows if it *)
(* was alone, and no write that thinks itself alone remains of s.          *)
(***************************************************************************)
LEMMA WriteEnds ==
    ASSUME IInv, NEW s \in Sources, NEW write, write.rows \in 1 .. version[s],
           write.alone \in BOOLEAN, Replaced(s, write),
           handled' \in [Sources -> Nat], handled'[s] >= handled[s], handled'[s] <= version[s],
           \A r \in Sources : r # s => handled'[r] = handled[r],
           write.alone => write.rows >= handled'[s],
           todo' \in [Sources -> SUBSET Nat], \A r \in Sources : todo'[r] \subseteq todo[r],
           hand' \in [Workers -> Hands],
           \A x \in Workers : hand'[x] = hand[x] \/ hand'[x].phase = "idle",
           \A x \in Workers : hand'[x].phase = "writing" /\ hand'[x].source = s => ~ hand'[x].alone,
           threads' \in [Workers -> SUBSET Threads],
           \A x \in Workers : threads'[x] \subseteq threads[x],
           \A x \in Workers : \A t \in threads'[x] : t.source = s => ~ t.alone,
           version' = version, request' = request
    PROVE  IInv'
<1>1. /\ file' \in [Sources -> Nat]
      /\ blurred' \in SUBSET Sources
      /\ file'[s] = write.rows
      /\ \A r \in Sources : file'[r] # file[r] => r = s
      /\ \A r \in Sources : file[r] # 0 => file'[r] # 0
      /\ \A r \in Sources : r # s => (r \in blurred' <=> r \in blurred)
      /\ ~ write.alone => s \in blurred'
      /\ version \in [Sources -> Nat] /\ handled \in [Sources -> Nat]
      /\ \A r \in Sources : file'[r] <= version[r] /\ handled[r] <= version[r]
  BY FileReplaced
<1>2. Shapes'
  BY <1>1 DEF IInv, Shapes
<1>3. \A r \in Sources : handled'[r] <= version[r] /\ handled'[r] >= handled[r]
  <2> SUFFICES ASSUME NEW r \in Sources PROVE handled'[r] <= version[r] /\ handled'[r] >= handled[r]
    OBVIOUS
  <2>1. CASE r = s
    BY <2>1
  <2>2. CASE r # s
    BY <2>2, <1>1
  <2> QED
    BY <2>1, <2>2
<1>4. BatchesKnown'
  BY <1>1, <1>3 DEF IInv, BatchesKnown
<1>5. FileHoldsHandled'
  <2> SUFFICES ASSUME NEW r \in Sources PROVE file'[r] >= handled'[r] \/ r \in blurred'
    BY DEF FileHoldsHandled
  <2>1. CASE r # s
    BY <2>1, <1>1 DEF IInv, FileHoldsHandled
  <2>2. CASE r = s
    BY <2>2, <1>1
  <2> QED
    BY <2>1, <2>2
<1>6. AloneHands'
  <2> SUFFICES ASSUME NEW v \in Workers, hand'[v].phase = "writing", hand'[v].alone
               PROVE  /\ hand'[v].rows >= handled'[hand'[v].source]
                      /\ \A x \in Workers :
                            /\ hand'[x].phase = "writing" /\ hand'[x].source = hand'[v].source => x = v
                            /\ \A t \in threads'[x] : t.source # hand'[v].source
    BY DEF AloneHands, Writing
  <2>1. hand'[v] = hand[v] /\ hand[v].source # s /\ hand[v].source \in Sources
    BY DEF Hands
  <2> QED
    BY <2>1 DEF IInv, AloneHands, Writing
<1>7. AloneThreads'
  <2> SUFFICES ASSUME NEW v \in Workers, NEW t \in threads'[v], t.alone
               PROVE  /\ t.rows >= handled'[t.source]
                      /\ \A x \in Workers :
                            /\ ~ (hand'[x].phase = "writing" /\ hand'[x].source = t.source)
                            /\ \A u \in threads'[x] : u.source = t.source => x = v /\ u = t
    BY DEF AloneThreads, Writing
  <2>1. t \in threads[v] /\ t.source # s /\ t.source \in Sources
    BY DEF Threads
  <2> QED
    BY <2>1 DEF IInv, AloneThreads, Writing
<1>8. RequestsFresh'
  BY <1>1, <1>3, RequestsKeep
<1> QED
  BY <1>2, <1>4, <1>5, <1>6, <1>7, <1>8 DEF IInv

(* The write in hand ends, whether its transaction commits or not. *)
LEMMA HandWrites ==
    ASSUME IInv, NEW w \in Workers, hand[w].phase = "writing",
           Replaced(hand[w].source, hand[w]), hand' = [hand EXCEPT ![w] = Idle],
           handled' = handled \/ handled' = [handled EXCEPT ![hand[w].source] = Max({@, hand[w].event})],
           todo' = todo \/ todo' = [todo EXCEPT ![hand[w].source] = @ \ {hand[w].event}],
           UNCHANGED <<version, threads, request>>
    PROVE  IInv'
<1> DEFINE s == hand[w].source
           write == hand[w]
<1>1. /\ s \in Sources /\ write.event \in 1 .. version[s] /\ write.rows \in 1 .. version[s]
      /\ write.rows >= write.event /\ write.alone \in BOOLEAN
      /\ write.event \in Nat /\ write.rows \in Nat
  BY WriteInHand
<1>2. /\ version \in [Sources -> Nat] /\ handled \in [Sources -> Nat]
      /\ todo \in [Sources -> SUBSET Nat] /\ hand \in [Workers -> Hands]
      /\ threads \in [Workers -> SUBSET Threads]
      /\ \A r \in Sources : handled[r] <= version[r]
  BY DEF IInv, Shapes, BatchesKnown
<1>3. /\ handled' \in [Sources -> Nat]
      /\ \A r \in Sources : r # s => handled'[r] = handled[r]
      /\ handled'[s] \in {handled[s], write.event} /\ handled'[s] >= handled[s]
  BY <1>1, <1>2, MaxOfTwo
<1>4. handled'[s] <= version[s] /\ (write.alone => write.rows >= handled'[s])
  <2>1. write.alone => write.rows >= handled[s]
    BY DEF IInv, AloneHands
  <2> QED
    BY <2>1, <1>1, <1>2, <1>3
<1>5. todo' \in [Sources -> SUBSET Nat] /\ \A r \in Sources : todo'[r] \subseteq todo[r]
  BY <1>1, <1>2
<1>6. /\ hand' \in [Workers -> Hands]
      /\ \A x \in Workers : x # w => hand'[x] = hand[x]
      /\ hand'[w].phase = "idle"
  BY <1>2 DEF Hands, Idle
<1>7. \A x \in Workers : hand'[x].phase = "writing" /\ hand'[x].source = s => ~ hand'[x].alone
  <2> SUFFICES ASSUME NEW x \in Workers, hand'[x].phase = "writing", hand'[x].source = s, hand'[x].alone
               PROVE  FALSE
    BY <1>2, <1>6 DEF Hands
  <2>1. x # w /\ hand'[x] = hand[x]
    BY <1>6
  <2> QED
    BY <2>1 DEF IInv, AloneHands, Writing
<1>8. \A x \in Workers : \A t \in threads[x] : t.source = s => ~ t.alone
  BY DEF IInv, AloneThreads, Writing
<1> HIDE DEF s, write
<1> QED
  BY <1>1, <1>2, <1>3, <1>4, <1>5, <1>6, <1>7, <1>8, WriteEnds DEF s, write

LEMMA ReplaceKeeps == ASSUME IInv, NEW w \in Workers, Replace(w) PROVE IInv'
  BY HandWrites DEF Replace, readers

LEMMA CommitLostKeeps == ASSUME IInv, NEW w \in Workers, CommitLost(w) PROVE IInv'
  BY HandWrites DEF CommitLost, readers

LEMMA LingeringReplaceKeeps == ASSUME IInv, NEW w \in Workers, LingeringReplace(w) PROVE IInv'
<1>1. PICK t \in threads[w] :
          /\ Replaced(t.source, t)
          /\ threads' = [threads EXCEPT ![w] = @ \ {t}]
          /\ UNCHANGED <<version, todo, handled, hand, request>>
  BY DEF LingeringReplace, readers
<1>2. /\ version \in [Sources -> Nat] /\ handled \in [Sources -> Nat]
      /\ todo \in [Sources -> SUBSET Nat] /\ hand \in [Workers -> Hands]
      /\ threads \in [Workers -> SUBSET Threads]
      /\ \A r \in Sources : handled[r] <= version[r]
  BY DEF IInv, Shapes, BatchesKnown
<1>3. t \in Threads /\ t.rows \in 1 .. version[t.source]
  BY <1>2 DEF IInv, BatchesKnown
<1>4. t.source \in Sources /\ t.alone \in BOOLEAN
  BY <1>3 DEF Threads
<1>5. t.alone => t.rows >= handled[t.source]
  BY DEF IInv, AloneThreads
<1>6. /\ threads' \in [Workers -> SUBSET Threads]
      /\ \A x \in Workers : threads'[x] \subseteq threads[x]
      /\ t \notin threads'[w]
  BY <1>1, <1>2
<1>7. \A x \in Workers : \A u \in threads'[x] : u.source = t.source => ~ u.alone
  <2> SUFFICES ASSUME NEW x \in Workers, NEW u \in threads'[x], u.source = t.source, u.alone
               PROVE  FALSE
    BY <1>2, <1>6 DEF Threads
  <2>1. x = w /\ u = t
    BY <1>6 DEF IInv, AloneThreads
  <2> QED
    BY <2>1, <1>6
<1>8. \A x \in Workers :
          hand'[x].phase = "writing" /\ hand'[x].source = t.source => ~ hand'[x].alone
  <2> SUFFICES ASSUME NEW x \in Workers, hand[x].phase = "writing", hand[x].source = t.source,
                      hand[x].alone
               PROVE  FALSE
    BY <1>1, <1>2 DEF Hands
  <2> QED
    BY DEF IInv, AloneHands, Writing
<1>9. handled'[t.source] >= handled[t.source] /\ handled'[t.source] <= version[t.source]
  BY <1>1, <1>2, <1>4
<1> QED
  BY <1>1, <1>2, <1>3, <1>4, <1>5, <1>6, <1>7, <1>8, <1>9, WriteEnds

(* A write that nobody waits for any more is as alone as it was in hand. *)
LEMMA TimeOutKeeps == ASSUME IInv, NEW w \in Workers, TimeOut(w) PROVE IInv'
<1> DEFINE s == hand[w].source
           left == [source |-> s, rows |-> hand[w].rows, alone |-> hand[w].alone]
<1>1. /\ hand[w].phase = "writing"
      /\ threads' = [threads EXCEPT ![w] = @ \cup {left}]
      /\ hand' = [hand EXCEPT ![w] = Idle]
      /\ UNCHANGED <<version, todo, handled, file, blurred, request>>
  BY DEF TimeOut, readers
<1>2. /\ left \in Threads /\ s \in Sources /\ left.rows \in 1 .. version[s]
      /\ left.source = s /\ left.alone = hand[w].alone /\ left.rows = hand[w].rows
  BY <1>1, WriteInHand DEF Threads
<1>3. hand \in [Workers -> Hands] /\ threads \in [Workers -> SUBSET Threads]
  BY DEF IInv, Shapes
<1>4. \A x \in Workers :
          /\ x # w => hand'[x] = hand[x] /\ threads'[x] = threads[x]
          /\ \A t \in threads'[x] : t \in threads[x] \/ (x = w /\ t = left)
  BY <1>1, <1>3
<1>5. hand'[w].phase = "idle"
  BY <1>1, <1>3 DEF Idle
<1> HIDE DEF s, left
<1>6. Shapes'
  <2>1. hand' \in [Workers -> Hands]
    BY <1>1, <1>3 DEF Hands, Idle
  <2>2. threads' \in [Workers -> SUBSET Threads]
    BY <1>1, <1>2, <1>3
  <2> QED
    BY <1>1, <2>1, <2>2 DEF IInv, Shapes
<1>7. BatchesKnown'
  <2>1. \A x \in Workers :
            /\ hand'[x].phase # "idle" => hand'[x].event \in 1 .. version[hand'[x].source]
            /\ hand'[x].phase = "writing" =>
                  hand'[x].rows \in hand'[x].event .. version[hand'[x].source]
    BY <1>4, <1>5 DEF IInv, BatchesKnown
  <2>2. \A x \in Workers : \A t \in threads'[x] : t.rows \in 1 .. version[t.source]
    BY <1>2, <1>4 DEF IInv, BatchesKnown
  <2> QED
    BY <1>1, <2>1, <2>2 DEF IInv, BatchesKnown
<1>8. left.alone =>
          /\ left.rows >= handled[s]
          /\ \A x \in Workers :
                /\ hand[x].phase = "writing" /\ hand[x].source = s => x = w
                /\ \A t \in threads[x] : t.source # s
  BY <1>1, <1>2 DEF IInv, AloneHands, Writing, s
<1>9. AloneHands'
  <2> SUFFICES ASSUME NEW v \in Workers, hand'[v].phase = "writing", hand'[v].alone
               PROVE  /\ hand'[v].rows >= handled'[hand'[v].source]
                      /\ \A x \in Workers :
                            /\ hand'[x].phase = "writing" /\ hand'[x].source = hand'[v].source => x = v
                            /\ \A t \in threads'[x] : t.source # hand'[v].source
    BY DEF AloneHands, Writing
  <2>1. v # w /\ hand'[v] = hand[v]
    BY <1>4, <1>5
  <2>2. hand[v].source # s
    BY <2>1, <1>1 DEF IInv, AloneHands, Writing, s
  <2>3. \A x \in Workers :
            /\ hand[x].phase = "writing" /\ hand[x].source = hand[v].source => x = v
            /\ \A t \in threads[x] : t.source # hand[v].source
    BY <2>1 DEF IInv, AloneHands, Writing
  <2>4. hand'[v].rows >= handled'[hand'[v].source]
    BY <2>1, <1>1 DEF IInv, AloneHands
  <2> QED
    BY <2>1, <2>2, <2>3, <2>4, <1>2, <1>4, <1>5
<1>10. AloneThreads'
  <2> SUFFICES ASSUME NEW v \in Workers, NEW t \in threads'[v], t.alone
               PROVE  /\ t.rows >= handled'[t.source]
                      /\ \A x \in Workers :
                            /\ ~ (hand'[x].phase = "writing" /\ hand'[x].source = t.source)
                            /\ \A u \in threads'[x] : u.source = t.source => x = v /\ u = t
    BY DEF AloneThreads, Writing
  <2>1. CASE t \in threads[v]
    <3>1. t.source # s
      BY <2>1, <1>1 DEF IInv, AloneThreads, Writing, s
    <3>2. /\ t.rows >= handled[t.source]
          /\ \A x \in Workers :
                /\ ~ (hand[x].phase = "writing" /\ hand[x].source = t.source)
                /\ \A u \in threads[x] : u.source = t.source => x = v /\ u = t
      BY <2>1 DEF IInv, AloneThreads, Writing
    <3> QED
      BY <3>1, <3>2, <1>1, <1>2, <1>4, <1>5
  <2>2. CASE v = w /\ t = left
    <3>1. t.rows >= handled'[t.source]
      BY <2>2, <1>1, <1>2, <1>8
    <3> QED
      BY <2>2, <3>1, <1>2, <1>4, <1>5, <1>8
  <2> QED
    BY <2>1, <2>2, <1>4
<1>11. FileHoldsHandled' /\ RequestsFresh'
  BY <1>1 DEF IInv, FileHoldsHandled, RequestsFresh, RequestFresh
<1> QED
  BY <1>6, <1>7, <1>9, <1>10, <1>11 DEF IInv

(***************************************************************************)
(* Steps of the readers.                                                   *)
(***************************************************************************)
LEMMA RequestStep ==
    ASSUME IInv, NEW c \in Clients, NEW q \in RequestRecords, RequestFresh(q),
           request' = [request EXCEPT ![c] = q],
           UNCHANGED <<version, writers>>
    PROVE  IInv'
<1>1. request' \in [Clients -> RequestRecords]
  BY DEF IInv, Shapes
<1>2. \A d \in Clients : request'[d] = IF d = c THEN q ELSE request[d]
  BY DEF IInv, Shapes
<1>3. RequestsFresh'
  <2> SUFFICES ASSUME NEW d \in Clients PROVE RequestFresh(request[d])'
    BY DEF RequestsFresh
  <2>1. RequestFresh(request'[d])
    BY <1>2 DEF IInv, RequestsFresh
  <2> QED
    BY <2>1 DEF RequestFresh, writers
<1>4. UNCHANGED <<version, todo, handled, file, blurred, hand, threads>>
  BY DEF writers
<1>5. Shapes' /\ BatchesKnown' /\ FileHoldsHandled'
  BY <1>1, <1>4 DEF IInv, Shapes, BatchesKnown, FileHoldsHandled
<1>6. AloneHands' /\ AloneThreads'
  BY <1>4 DEF IInv, AloneHands, AloneThreads, Writing
<1> QED
  BY <1>3, <1>5, <1>6 DEF IInv

(* A request that has ended has no claim on a file. *)
LEMMA GoneIsFresh ==
    ASSUME IInv, NEW phase \in Phases, phase # "missing"
    PROVE  Gone(phase) \in RequestRecords /\ RequestFresh(Gone(phase))
<1>1. Gone(phase) \in RequestRecords
  BY DEF Gone, RequestRecords
<1>2. \A s \in Sources : 0 <= handled[s]
  BY DEF IInv, Shapes
<1> QED
  BY <1>1, <1>2 DEF Gone, RequestFresh

(* What a statement reads is as good as the files promise. *)
LEMMA ReadsAreFresh ==
    ASSUME IInv, NEW S \in SUBSET Sources, NEW floor \in [Sources -> Nat],
           \A s \in Sources : floor[s] <= handled[s]
    PROVE  /\ Reads(S) \subseteq ReadRecords
           /\ \A r \in Reads(S) : r.version >= floor[r.source] \/ r.blurred
<1>1. /\ file \in [Sources -> Nat] /\ handled \in [Sources -> Nat]
      /\ \A s \in Sources : file[s] >= handled[s] \/ s \in blurred
  BY DEF IInv, Shapes, FileHoldsHandled
<1>2. Reads(S) \subseteq ReadRecords
  <2>1. \A s \in S : s \in Sources /\ file[s] \in Nat /\ (s \in blurred) \in BOOLEAN
    BY <1>1
  <2>2. \A s \in S : [source |-> s, version |-> file[s], blurred |-> s \in blurred] \in ReadRecords
    BY <2>1, Zenon DEF ReadRecords
  <2> QED
    BY <2>2 DEF Reads
<1>3. ASSUME NEW r \in Reads(S) PROVE r.version >= floor[r.source] \/ r.blurred
  <2>1. PICK s \in S : r = [source |-> s, version |-> file[s], blurred |-> s \in blurred]
    BY DEF Reads
  <2>2. s \in Sources /\ floor[s] <= handled[s] /\ floor[s] \in Nat /\ handled[s] \in Nat /\ file[s] \in Nat
    BY <1>1
  <2>3. CASE file[s] >= handled[s]
    BY <2>1, <2>2, <2>3
  <2>4. CASE s \in blurred
    BY <2>1, <2>4
  <2> QED
    BY <1>1, <2>2, <2>3, <2>4
<1> QED
  BY <1>2, <1>3

(* The sources a request that arrives counts on have a file. *)
LEMMA StatementsKnown ==
    ASSUME IInv, NEW r, r.route \in DOMAIN SourceOf => SourceOf[r.route] \in Snapshots
    PROVE  /\ Statements(r) \in Seq(SUBSET Sources)
           /\ \A i \in 1 .. Len(Statements(r)) : Statements(r)[i] \subseteq Snapshots
<1>1. Snapshots \subseteq Sources
  BY DEF Snapshots
<1>2. CASE r.route \in DOMAIN SourceOf
  <2>1. Statements(r) = <<{SourceOf[r.route]}>>
    BY <1>2 DEF Statements
  <2> QED
    BY <1>1, <1>2, <2>1
<1>3. CASE r.route \notin DOMAIN SourceOf
  <2>1. Statements(r) =
          <<{"aemet"} \cap Snapshots, {"ign"} \cap Snapshots, {"effis"} \cap Snapshots, Snapshots>>
    BY <1>3 DEF Statements
  <2> QED
    BY <1>1, <2>1
<1> QED
  BY <1>2, <1>3

(* A request takes the batches handled so far as its floor. *)
LEMMA AskingIsFresh ==
    ASSUME IInv, NEW phase \in Phases, phase # "missing", NEW left \in Seq(SUBSET Sources),
           \A i \in 1 .. Len(left) : left[i] \subseteq Snapshots,
           NEW S \in SUBSET Sources
    PROVE  /\ Asking(phase, left, Reads(S)) \in RequestRecords
           /\ RequestFresh(Asking(phase, left, Reads(S)))
<1>1. handled \in [Sources -> Nat] /\ \A s \in Sources : handled[s] <= handled[s]
  BY DEF IInv, Shapes
<1>2. /\ Reads(S) \subseteq ReadRecords
      /\ \A r \in Reads(S) : r.version >= handled[r.source] \/ r.blurred
  BY <1>1, ReadsAreFresh
<1>3. Asking(phase, left, Reads(S)) \in RequestRecords
  BY <1>1, <1>2 DEF Asking, RequestRecords
<1>4. \A i \in 1 .. Len(left) : \A s \in left[i] : file[s] # 0
  BY DEF Snapshots
<1> QED
  BY <1>1, <1>2, <1>3, <1>4 DEF Asking, RequestFresh

LEMMA ArriveKeeps ==
    ASSUME IInv, NEW c \in Clients, NEW r \in Requests, Arrive(c, r) PROVE IInv'
<1>1. UNCHANGED <<version, writers>>
  BY DEF Arrive
<1>2. CASE request' = [request EXCEPT ![c] = Gone("refused")]
  BY <1>1, <1>2, GoneIsFresh, RequestStep DEF Phases
<1>3. CASE /\ r.route \in DOMAIN SourceOf
           /\ request' = [request EXCEPT ![c] = Asking("answered", <<>>, Reads({SourceOf[r.route]}))]
  <2>1. {SourceOf[r.route]} \in SUBSET Sources
    BY <1>3 DEF SourceOf, Sources
  <2>2. <<>> \in Seq(SUBSET Sources) /\ \A i \in 1 .. Len(<<>>) : <<>>[i] \subseteq Snapshots
    OBVIOUS
  <2> QED
    BY <1>1, <1>3, <2>1, <2>2, AskingIsFresh, RequestStep DEF Phases
<1>4. CASE /\ r.route \in DOMAIN SourceOf => SourceOf[r.route] \in Snapshots
           /\ \E phase \in {"running", "waiting"} :
                 request' = [request EXCEPT ![c] = Asking(phase, Statements(r), {})]
  <2>1. PICK phase \in {"running", "waiting"} :
            request' = [request EXCEPT ![c] = Asking(phase, Statements(r), {})]
    BY <1>4
  <2>2. /\ Statements(r) \in Seq(SUBSET Sources)
        /\ \A i \in 1 .. Len(Statements(r)) : Statements(r)[i] \subseteq Snapshots
    BY <1>4, StatementsKnown
  <2>3. {} \in SUBSET Sources /\ Reads({}) = {} /\ phase \in Phases /\ phase # "missing"
    BY DEF Reads, Phases
  <2>4. /\ Asking(phase, Statements(r), Reads({})) \in RequestRecords
        /\ RequestFresh(Asking(phase, Statements(r), Reads({})))
    BY <2>2, <2>3, AskingIsFresh
  <2> QED
    BY <1>1, <2>1, <2>3, <2>4, RequestStep
<1> QED
  BY <1>2, <1>3, <1>4 DEF Arrive

LEMMA AcquireKeeps == ASSUME IInv, NEW c \in Clients, Acquire(c) PROVE IInv'
<1> DEFINE q == [request[c] EXCEPT !.phase = "running"]
<1>1. request' = [request EXCEPT ![c] = q] /\ UNCHANGED <<version, writers>>
  BY DEF Acquire
<1>2. request[c] \in RequestRecords /\ RequestFresh(request[c])
  BY DEF IInv, Shapes, RequestsFresh
<1>3. q \in RequestRecords /\ RequestFresh(q)
  BY <1>2 DEF RequestRecords, RequestFresh, Phases
<1> HIDE DEF q
<1> QED
  BY <1>1, <1>3, RequestStep

(* The files a statement counts on are there, and it reads what they promise. *)
LEMMA StatementKeeps == ASSUME IInv, NEW c \in Clients, Statement(c) PROVE IInv'
<1> DEFINE was == request[c]
           S == Head(was.left)
           q == [was EXCEPT !.left = Tail(@), !.seen = @ \cup Reads(S)]
<1>1. was \in RequestRecords /\ RequestFresh(was) /\ was.left # <<>>
  BY DEF Statement, IInv, Shapes, RequestsFresh
<1>2. was.left \in Seq(SUBSET Sources) /\ was.floor \in [Sources -> Nat] /\ was.seen \subseteq ReadRecords
  BY <1>1 DEF RequestRecords
<1>3. /\ S = was.left[1] /\ S \in SUBSET Sources /\ 1 \in 1 .. Len(was.left)
      /\ Tail(was.left) \in Seq(SUBSET Sources)
      /\ \A i \in 1 .. Len(Tail(was.left)) :
            i + 1 \in 1 .. Len(was.left) /\ Tail(was.left)[i] = was.left[i + 1]
  BY <1>1, <1>2
<1>4. S \subseteq Snapshots
  BY <1>1, <1>3 DEF RequestFresh, Snapshots
<1>5. request' = [request EXCEPT ![c] = q] /\ UNCHANGED <<version, writers>>
  BY <1>4 DEF Statement
<1>6. /\ Reads(S) \subseteq ReadRecords
      /\ \A r \in Reads(S) : r.version >= was.floor[r.source] \/ r.blurred
  BY <1>1, <1>2, <1>3, ReadsAreFresh DEF RequestFresh
<1>7. q \in RequestRecords
  BY <1>1, <1>3, <1>6 DEF RequestRecords
<1>8. /\ q.phase = was.phase /\ q.left = Tail(was.left) /\ q.seen = was.seen \cup Reads(S)
      /\ q.floor = was.floor
  BY <1>1 DEF RequestRecords
<1> HIDE DEF was, S, q
<1>9. RequestFresh(q)
  BY <1>1, <1>3, <1>6, <1>8 DEF RequestFresh
<1> QED
  BY <1>5, <1>7, <1>9, RequestStep

(* A request that ends, in a slot or before it has one. *)
LEMMA EndKeeps ==
    ASSUME IInv, NEW c \in Clients, Rejected(c) \/ Answered(c) \/ QueryFails(c) PROVE IInv'
<1>1. PICK phase \in {"rejected", "answered", "failed"} :
          request' = [request EXCEPT ![c] = Gone(phase)]
  BY DEF Rejected, Answered, QueryFails, Ends
<1>2. UNCHANGED <<version, writers>>
  BY DEF Rejected, Answered, QueryFails
<1>3. phase \in Phases /\ phase # "missing"
  BY DEF Phases
<1> QED
  BY <1>1, <1>2, <1>3, GoneIsFresh, RequestStep

(* Steps that leave the writers and the requests alone. *)
LEMMA OthersKeep ==
    ASSUME IInv, UNCHANGED <<version, writers, request>> PROVE IInv'
<1>1. UNCHANGED <<version, todo, handled, file, blurred, hand, threads, request>>
  BY DEF writers
<1>2. Shapes' /\ BatchesKnown' /\ FileHoldsHandled'
  BY <1>1 DEF IInv, Shapes, BatchesKnown, FileHoldsHandled
<1>3. AloneHands' /\ AloneThreads' /\ RequestsFresh'
  BY <1>1 DEF IInv, AloneHands, AloneThreads, Writing, RequestsFresh, RequestFresh
<1> QED
  BY <1>2, <1>3 DEF IInv

LEMMA Inductive == ASSUME IInv, [Next]_vars PROVE IInv'
<1>1. CASE Tick \/ (\E p \in Questions : ListFirst(p)) \/ ListNext \/ UNCHANGED vars
  BY <1>1, OthersKeep DEF Tick, ListFirst, ListNext, vars, readers
<1>2. CASE \E s \in Sources : Ingest(s)
  BY <1>2, IngestKeeps
<1>3. ASSUME NEW w \in Workers,
             \/ Dispatch(w) \/ ReadRows(w) \/ Replace(w) \/ CommitLost(w)
             \/ WriteFails(w) \/ TimeOut(w) \/ LingeringReplace(w) \/ Crash(w)
      PROVE  IInv'
  BY <1>3, DispatchKeeps, ReadRowsKeeps, ReplaceKeeps, CommitLostKeeps, WriteFailsKeeps,
     TimeOutKeeps, LingeringReplaceKeeps, CrashKeeps
<1>4. ASSUME NEW c \in Clients,
             \/ \E r \in Requests : Arrive(c, r)
             \/ Acquire(c) \/ Rejected(c) \/ Statement(c) \/ Answered(c) \/ QueryFails(c)
      PROVE  IInv'
  BY <1>4, ArriveKeeps, AcquireKeeps, StatementKeeps, EndKeeps
<1> QED
  BY <1>1, <1>2, <1>3, <1>4 DEF Next

(***************************************************************************)
(* An answer of the analytics plane holds, of every source it reads, each  *)
(* batch whose event was processed before the request came, whatever the   *)
(* order of events, retries, crashes, lost commits and writes that outlive *)
(* their timeout, unless several writes raced for the file.                *)
(***************************************************************************)
THEOREM AnswersAreFresh == Spec => []AnswersFresh
<1>1. Init => IInv
  BY Initially
<1>2. IInv /\ [Next]_vars => IInv'
  BY Inductive
<1>3. IInv => AnswersFresh
  BY DEF IInv, RequestsFresh, RequestFresh, AnswersFresh
<1> QED
  BY <1>1, <1>2, <1>3, PTL DEF Spec

(***************************************************************************)
(* The rest of the types, and the slots of the limiter.                    *)
(***************************************************************************)
Running == {c \in Clients : request[c].phase = "running"}

Bounds ==
    /\ scene \in Scenes /\ now \in Start .. scene.until
    /\ \A s \in Sources : version[s] <= Len(Versions[s])
    /\ listing.phase \in {"none", "paging", "done", "refused"}

Slots ==
    /\ free \in Nat
    /\ free + Cardinality(Running) = MaxConcurrency

LEMMA BoundsKept == ASSUME IInv, Bounds, [Next]_vars PROVE Bounds'
<1>1. /\ version \in [Sources -> Nat]
      /\ \A s \in Sources : Len(Versions[s]) \in Nat
      /\ Start \in Nat /\ \A x \in Scenes : x.until \in Nat
  BY ReadSideAssumption DEF IInv, Shapes
<1>2. scene' = scene
  BY DEF Next, vars, Tick, Ingest, Dispatch, ReadRows, Replace, CommitLost, WriteFails, TimeOut,
         LingeringReplace, Crash, Arrive, Acquire, Rejected, Statement, Answered, QueryFails,
         ListFirst, ListNext
<1>3. now' = now \/ (now < scene.until /\ now' = now + 1)
  BY DEF Next, vars, Tick, Ingest, Dispatch, ReadRows, Replace, CommitLost, WriteFails, TimeOut,
         LingeringReplace, Crash, Arrive, Acquire, Rejected, Statement, Answered, QueryFails,
         ListFirst, ListNext
<1>4. \/ version' = version
      \/ \E s \in Sources : version[s] < Len(Versions[s]) /\ version' = [version EXCEPT ![s] = @ + 1]
  BY DEF Next, vars, Tick, Ingest, Dispatch, ReadRows, Replace, CommitLost, WriteFails, TimeOut,
         LingeringReplace, Crash, Arrive, Acquire, Rejected, Statement, Answered, QueryFails,
         ListFirst, ListNext
<1>5. listing'.phase \in {"none", "paging", "done", "refused"}
  <2>1. \A was, p, answer : AsListed(was, p, answer).phase \in {"refused", "paging", "done"}
    BY DEF AsListed
  <2>2. listing' = listing \/ (\E was, p, answer : listing' = AsListed(was, p, answer))
    BY DEF Next, vars, Tick, Ingest, Dispatch, ReadRows, Replace, CommitLost, WriteFails, TimeOut,
           LingeringReplace, Crash, Arrive, Acquire, Rejected, Statement, Answered, QueryFails,
           ListFirst, ListNext
  <2> QED
    BY <2>1, <2>2 DEF Bounds
<1>6. now' \in Start .. scene'.until
  BY <1>1, <1>2, <1>3 DEF Bounds
<1>7. \A s \in Sources : version'[s] <= Len(Versions[s])
  BY <1>1, <1>4 DEF Bounds
<1> QED
  BY <1>2, <1>5, <1>6, <1>7 DEF Bounds

(* How a step of one client moves the set of those that run. *)
LEMMA RunningMoves ==
    ASSUME IInv, NEW c \in Clients, NEW q, request' = [request EXCEPT ![c] = q]
    PROVE  Running' = IF q.phase = "running" THEN Running \cup {c} ELSE Running \ {c}
<1>1. \A d \in Clients : request'[d] = IF d = c THEN q ELSE request[d]
  BY DEF IInv, Shapes
<1> QED
  BY <1>1 DEF Running

LEMMA SlotsKept == ASSUME IInv, Slots, [Next]_vars PROVE Slots'
<1>1. IsFiniteSet(Running) /\ Cardinality(Running) \in Nat
  BY ReadSideAssumption, FS_Subset, FS_CardinalityType DEF Running
<1>2. CASE UNCHANGED <<request, free>>
  BY <1>2 DEF Slots, Running
<1>3. ASSUME NEW c \in Clients, NEW q, request' = [request EXCEPT ![c] = q],
             \/ c \notin Running /\ q.phase = "running" /\ free > 0 /\ free' = free - 1
             \/ c \in Running /\ q.phase # "running" /\ free' = free + 1
             \/ (c \in Running <=> q.phase = "running") /\ free' = free
      PROVE  Slots'
  <2>1. Running' = IF q.phase = "running" THEN Running \cup {c} ELSE Running \ {c}
    BY <1>3, RunningMoves
  <2>2. CASE c \notin Running /\ q.phase = "running" /\ free > 0 /\ free' = free - 1
    <3>1. Cardinality(Running') = Cardinality(Running) + 1
      BY <1>1, <2>1, <2>2, FS_AddElement
    <3> QED
      BY <1>1, <2>2, <3>1 DEF Slots
  <2>3. CASE c \in Running /\ q.phase # "running" /\ free' = free + 1
    <3>1. Cardinality(Running') = Cardinality(Running) - 1
      BY <1>1, <2>1, <2>3, FS_RemoveElement
    <3> QED
      BY <1>1, <2>3, <3>1 DEF Slots
  <2>4. CASE (c \in Running <=> q.phase = "running") /\ free' = free
    <3>1. Running' = Running
      BY <2>1, <2>4
    <3> QED
      BY <2>4, <3>1 DEF Slots
  <2> QED
    BY <1>3, <2>2, <2>3, <2>4
<1>4. ASSUME NEW c \in Clients, NEW r \in Requests, Arrive(c, r) PROVE Slots'
  <2>1. c \notin Running
    BY <1>4 DEF Arrive, Running
  <2> QED
    BY <1>3, <1>4, <2>1 DEF Arrive, Gone, Asking
<1>5. ASSUME NEW c \in Clients, Acquire(c) PROVE Slots'
  <2>1. c \notin Running /\ request[c] \in RequestRecords
    BY <1>5 DEF Acquire, Running, IInv, Shapes
  <2>2. /\ request' = [request EXCEPT ![c] = [request[c] EXCEPT !.phase = "running"]]
        /\ [request[c] EXCEPT !.phase = "running"].phase = "running"
    BY <1>5, <2>1 DEF Acquire, RequestRecords
  <2> QED
    BY <1>3, <1>5, <2>1, <2>2 DEF Acquire
<1>6. ASSUME NEW c \in Clients, Rejected(c) PROVE Slots'
  <2>1. c \notin Running
    BY <1>6 DEF Rejected, Running
  <2> QED
    BY <1>3, <1>6, <2>1 DEF Rejected, Ends, Gone
<1>7. ASSUME NEW c \in Clients, Answered(c) \/ QueryFails(c) PROVE Slots'
  <2>1. c \in Running
    BY <1>7 DEF Answered, QueryFails, Running
  <2> QED
    BY <1>3, <1>7, <2>1 DEF Answered, QueryFails, Ends, Gone
<1>8. ASSUME NEW c \in Clients, Statement(c) PROVE Slots'
  <2>1. c \in Running /\ request[c] \in RequestRecords
    BY <1>8 DEF Statement, Running, IInv, Shapes
  <2>2. CASE Ends(c, "missing") /\ free' = free + 1
    BY <1>3, <2>1, <2>2 DEF Ends, Gone
  <2>3. CASE ~ (Ends(c, "missing") /\ free' = free + 1)
    <3> DEFINE q == [request[c] EXCEPT !.left = Tail(@), !.seen = @ \cup Reads(Head(request[c].left))]
    <3>1. request' = [request EXCEPT ![c] = q] /\ free' = free
      BY <1>8, <2>3 DEF Statement
    <3>2. q.phase = "running"
      BY <2>1 DEF RequestRecords, Running
    <3> HIDE DEF q
    <3> QED
      BY <1>3, <2>1, <3>1, <3>2
  <2> QED
    BY <2>2, <2>3
<1>9. \/ UNCHANGED <<request, free>>
      \/ \E c \in Clients :
            \/ \E r \in Requests : Arrive(c, r)
            \/ Acquire(c) \/ Rejected(c) \/ Statement(c) \/ Answered(c) \/ QueryFails(c)
  BY DEF Next, vars, readers, Tick, Ingest, Dispatch, ReadRows, Replace, CommitLost, WriteFails,
         TimeOut, LingeringReplace, Crash, ListFirst, ListNext
<1> QED
  BY <1>2, <1>4, <1>5, <1>6, <1>7, <1>8, <1>9

(***************************************************************************)
(* The variables keep their types; and a slot of the limiter is neither    *)
(* lost nor doubled, however the requests end (run_analytics).             *)
(***************************************************************************)
THEOREM TypeCorrect == Spec => []TypeOK
<1>1. Init => IInv /\ Bounds /\ Slots
  <2> SUFFICES ASSUME Init PROVE IInv /\ Bounds /\ Slots
    OBVIOUS
  <2>1. Bounds
    BY ReadSideAssumption DEF Init, Bounds, NoListing
  <2>2. Running = {} /\ free = MaxConcurrency
    BY DEF Init, Running, Gone
  <2>3. Cardinality({}) = 0
    BY FS_EmptySet
  <2> QED
    BY <2>1, <2>2, <2>3, Initially, ReadSideAssumption DEF Slots
<1>2. IInv /\ Bounds /\ Slots /\ [Next]_vars => (IInv /\ Bounds /\ Slots)'
  BY Inductive, BoundsKept, SlotsKept
<1>3. IInv /\ Bounds /\ Slots => TypeOK
  <2> SUFFICES ASSUME IInv, Bounds, Slots PROVE TypeOK
    OBVIOUS
  <2>1. Cardinality(Running) \in Nat
    BY ReadSideAssumption, FS_Subset, FS_CardinalityType DEF Running
  <2>2. free \in 0 .. MaxConcurrency /\ free + Cardinality(Running) = MaxConcurrency
    BY <2>1, ReadSideAssumption DEF Slots
  <2>3. /\ \A w \in Workers : hand[w].phase \in {"idle", "claimed", "writing"}
        /\ \A c \in Clients : request[c].phase \in Phases
    BY DEF IInv, Shapes, Hands, RequestRecords
  <2>4. \A s \in Sources : /\ version[s] <= Len(Versions[s])
                           /\ todo[s] \subseteq 1 .. version[s]
                           /\ file[s] <= version[s] /\ handled[s] <= version[s]
    BY DEF IInv, Bounds, BatchesKnown
  <2> QED
    BY <2>2, <2>3, <2>4 DEF TypeOK, Running, Bounds, IInv, Shapes
<1> QED
  BY <1>1, <1>2, <1>3, PTL DEF Spec

(***************************************************************************)
(* InOrder lays out a set in its order: every element has its place, and   *)
(* elements in places that follow each other are in order.                 *)
(***************************************************************************)
(* What the order R, total on S, has before x; and R laid out as a sequence. *)
Ahead(S, R, x) == {y \in S : <<y, x>> \in R}

TotalOrder(S, R) ==
    /\ \A a \in S : <<a, a>> \notin R
    /\ \A a, b, c \in S : <<a, b>> \in R /\ <<b, c>> \in R => <<a, c>> \in R
    /\ \A a, b \in S : a # b => <<a, b>> \in R \/ <<b, a>> \in R

Sorted(q, S, R) ==
    /\ Cardinality(S) \in Nat
    /\ q \in [1 .. Cardinality(S) -> S]
    /\ \A x \in S : \E i \in 1 .. Cardinality(S) : q[i] = x
    /\ \A i, j \in 1 .. Cardinality(S) : i < j => <<q[i], q[j]>> \in R

LEMMA OrderFacts ==
    ASSUME NEW S, IsFiniteSet(S), NEW R, TotalOrder(S, R),
           NEW q, DOMAIN q = 1 .. Cardinality(S), q = [i \in DOMAIN q |-> q[i]],
           \A i \in DOMAIN q :
              (\E x \in S : Cardinality(Ahead(S, R, x)) = i - 1) =>
                 q[i] \in S /\ Cardinality(Ahead(S, R, q[i])) = i - 1
    PROVE  Sorted(q, S, R)
<1> DEFINE n == Cardinality(S)
           Rank(x) == Cardinality(Ahead(S, R, x))
<1>1. n \in Nat
  BY FS_CardinalityType
<1>2. /\ \A a \in S : <<a, a>> \notin R
      /\ \A a, b, c \in S : <<a, b>> \in R /\ <<b, c>> \in R => <<a, c>> \in R
      /\ \A a, b \in S : a # b => <<a, b>> \in R \/ <<b, a>> \in R
  BY DEF TotalOrder
<1> HIDE DEF n
<1>3. ASSUME NEW A \in SUBSET S, NEW B \in SUBSET A, A # B
      PROVE  Cardinality(B) \in Nat /\ Cardinality(A) \in Nat /\ Cardinality(B) < Cardinality(A)
  <2>1. IsFiniteSet(A) /\ IsFiniteSet(B)
    BY FS_Subset
  <2>2. Cardinality(A) \in Nat /\ Cardinality(B) \in Nat
    BY <2>1, FS_CardinalityType
  <2>3. Cardinality(B) <= Cardinality(A) /\ (Cardinality(A) = Cardinality(B) => A = B)
    BY <2>1, FS_Subset
  <2> QED
    BY <1>3, <2>2, <2>3
<1>4. \A x \in S : Rank(x) \in 0 .. n - 1
  <2>1. TAKE x \in S
  <2>2. Ahead(S, R, x) \in SUBSET S /\ Ahead(S, R, x) # S
    BY <1>2 DEF Ahead
  <2>3. Rank(x) \in Nat /\ Rank(x) < n
    BY <1>3, <2>2 DEF n
  <2> QED
    BY <1>1, <2>3
<1>5. \A x, y \in S : <<x, y>> \in R => Rank(x) < Rank(y)
  <2>1. TAKE x \in S, y \in S
  <2>2. HAVE <<x, y>> \in R
  <2>3. /\ Ahead(S, R, x) \in SUBSET Ahead(S, R, y) /\ Ahead(S, R, x) # Ahead(S, R, y)
        /\ Ahead(S, R, y) \in SUBSET S
    BY <1>2, <2>2 DEF Ahead
  <2> QED
    BY <1>3, <2>3
<1> HIDE DEF Rank
<1>6. \A x, y \in S : x # y => Rank(x) # Rank(y) /\ Rank(x) \in Int /\ Rank(y) \in Int
  <2>1. TAKE x \in S, y \in S
  <2>2. HAVE x # y
  <2>3. <<x, y>> \in R \/ <<y, x>> \in R
    BY <1>2, <2>2
  <2>4. Rank(x) < Rank(y) \/ Rank(y) < Rank(x)
    BY <1>5, <2>3
  <2>5. Rank(x) \in Int /\ Rank(y) \in Int
    BY <1>1, <1>4
  <2> QED
    BY <2>4, <2>5
<1>7. \A k \in 0 .. n - 1 : \E x \in S : Rank(x) = k
  <2> DEFINE r == [x \in S |-> Rank(x)]
  <2>1. r \in Injection(S, 0 .. n - 1)
    <3>1. r \in [S -> 0 .. n - 1]
      BY <1>4
    <3>2. \A x, y \in S : x # y => r[x] # r[y]
      BY <1>6
    <3> QED
      BY <3>1, <3>2 DEF Injection, IsInjective
  <2>2. IsFiniteSet(0 .. n - 1) /\ Cardinality(0 .. n - 1) = n
    BY <1>1, FS_Interval
  <2>3. r \in Surjection(S, 0 .. n - 1)
    BY <2>1, <2>2, FS_Injection DEF n
  <2> QED
    BY <2>3 DEF Surjection
<1>8. \A i \in 1 .. n : q[i] \in S /\ Rank(q[i]) = i - 1
  <2>1. TAKE i \in 1 .. n
  <2>2. i \in DOMAIN q /\ \E x \in S : Rank(x) = i - 1
    <3>1. i - 1 \in 0 .. n - 1
      BY <1>1
    <3>2. i \in DOMAIN q
      BY DEF n
    <3> QED
      BY <1>7, <3>1, <3>2
  <2> QED
    BY <2>2 DEF Rank
<1>9. q \in [1 .. n -> S]
  BY <1>8 DEF n
<1>10. \A x \in S : \E i \in 1 .. n : q[i] = x
  <2>1. TAKE x \in S
  <2>2. Rank(x) + 1 \in 1 .. n /\ Rank(x) \in Int
    BY <1>1, <1>4
  <2>3. q[Rank(x) + 1] \in S /\ Rank(q[Rank(x) + 1]) = Rank(x)
    BY <1>8, <2>2
  <2>4. q[Rank(x) + 1] = x
    BY <1>6, <2>3
  <2> QED
    BY <2>2, <2>4
<1>11. \A i, j \in 1 .. n : i < j => <<q[i], q[j]>> \in R
  <2>1. TAKE i \in 1 .. n, j \in 1 .. n
  <2>2. HAVE i < j
  <2>3. q[i] \in S /\ q[j] \in S /\ Rank(q[i]) < Rank(q[j]) /\ Rank(q[i]) \in Int /\ Rank(q[j]) \in Int
    BY <1>1, <1>8, <2>2
  <2>4. q[i] # q[j] /\ <<q[j], q[i]>> \notin R
    BY <1>5, <2>3
  <2> QED
    BY <1>2, <2>3, <2>4
<1> QED
  BY <1>1, <1>9, <1>10, <1>11 DEF n, Sorted

(***************************************************************************)
(* Keys are ordered by date and id, so that no two rows of a table tie.    *)
(***************************************************************************)
TableOfRows(table) ==
    /\ IsFiniteSet(DOMAIN table) /\ DOMAIN table \subseteq Nat
    /\ \A id \in DOMAIN table : table[id].starts_at \in Nat

LEMMA NewerIsOrder ==
    ASSUME NEW table, TableOfRows(table)
    PROVE  /\ \A a \in DOMAIN table : Key(table, a) \in Keys /\ Key(table, a) # NULL
           /\ \A k \in Keys : ~ Newer(k, k)
           /\ \A k, l, m \in Keys : Newer(k, l) /\ Newer(l, m) => Newer(k, m)
           /\ \A a, b \in DOMAIN table :
                 a # b => Newer(Key(table, a), Key(table, b)) \/ Newer(Key(table, b), Key(table, a))
<1>1. \A a \in DOMAIN table : Key(table, a) \in Keys /\ Key(table, a) # NULL
  BY EventQueriesAssumption DEF TableOfRows, Key, Keys
<1>2. \A k \in Keys : ~ Newer(k, k)
  BY DEF Keys, Newer
<1>3. \A k, l, m \in Keys : Newer(k, l) /\ Newer(l, m) => Newer(k, m)
  BY DEF Keys, Newer
<1>4. ASSUME NEW a \in DOMAIN table, NEW b \in DOMAIN table, a # b
      PROVE  Newer(Key(table, a), Key(table, b)) \/ Newer(Key(table, b), Key(table, a))
  <2>1. a \in Nat /\ b \in Nat /\ table[a].starts_at \in Nat /\ table[b].starts_at \in Nat
    BY DEF TableOfRows
  <2> QED
    BY <1>4, <2>1 DEF Key, Newer
<1> QED
  BY <1>1, <1>2, <1>3, <1>4

(***************************************************************************)
(* InOrder puts every element of a set of rows in one place, newest first. *)
(***************************************************************************)
Newest(table, S) == InOrder(S, LAMBDA a, b : Newer(Key(table, a), Key(table, b)))

NewerIn(table, S) == {e \in S \X S : Newer(Key(table, e[1]), Key(table, e[2]))}

LEMMA NewestSorted ==
    ASSUME NEW table, TableOfRows(table), NEW S \in SUBSET DOMAIN table
    PROVE  Sorted(Newest(table, S), S, NewerIn(table, S))
<1> DEFINE R == NewerIn(table, S)
           q == Newest(table, S)
           Preds(x) == {y \in S : Newer(Key(table, y), Key(table, x))}
<1>1. IsFiniteSet(S)
  BY FS_Subset DEF TableOfRows
<1>2. \A a, b \in S : <<a, b>> \in R <=> Newer(Key(table, a), Key(table, b))
  BY DEF NewerIn
<1>3. TotalOrder(S, R)
  <2> HIDE DEF R
  <2> QED
    BY <1>2, NewerIsOrder DEF TotalOrder
<1>4. \A x \in S : Preds(x) = Ahead(S, R, x)
  BY <1>2 DEF Ahead
<1>5. q = [i \in 1 .. Cardinality(S) |-> CHOOSE x \in S : Cardinality(Preds(x)) = i - 1]
  BY DEF Newest, InOrder
<1> HIDE DEF Preds, R, q
<1>6. DOMAIN q = 1 .. Cardinality(S) /\ q = [i \in DOMAIN q |-> q[i]]
  BY <1>5
<1>7. \A i \in DOMAIN q :
         (\E x \in S : Cardinality(Ahead(S, R, x)) = i - 1) =>
            q[i] \in S /\ Cardinality(Ahead(S, R, q[i])) = i - 1
  <2>1. TAKE i \in DOMAIN q
  <2>2. HAVE \E x \in S : Cardinality(Ahead(S, R, x)) = i - 1
  <2>3. q[i] = CHOOSE x \in S : Cardinality(Preds(x)) = i - 1
    BY <1>5, <1>6
  <2>4. \E x \in S : Cardinality(Preds(x)) = i - 1
    BY <1>4, <2>2
  <2>5. q[i] \in S /\ Cardinality(Preds(q[i])) = i - 1
    BY <2>3, <2>4
  <2> QED
    BY <1>4, <2>5
<1>8. Sorted(q, S, R)
  BY <1>1, <1>3, <1>6, <1>7, OrderFacts
<1> QED
  BY <1>8 DEF q, R

LEMMA NewestFacts ==
    ASSUME NEW table, TableOfRows(table), NEW S \in SUBSET DOMAIN table
    PROVE  LET q == Newest(table, S)
           IN  /\ Cardinality(S) \in Nat
               /\ q \in [1 .. Cardinality(S) -> S]
               /\ \A x \in S : \E i \in 1 .. Cardinality(S) : q[i] = x
               /\ \A i, j \in 1 .. Cardinality(S) :
                     i < j => Newer(Key(table, q[i]), Key(table, q[j]))
<1>1. Sorted(Newest(table, S), S, NewerIn(table, S))
  BY NewestSorted
<1> QED
  BY <1>1 DEF Sorted, NewerIn

(***************************************************************************)
(* LIMIT: the first n of a sequence, or all of a shorter one.              *)
(***************************************************************************)
FirstOf(q, m, S, n) ==
    /\ Limited(q, n) \in Seq(S)
    /\ Len(Limited(q, n)) = IF m <= n THEN m ELSE n
    /\ \A i \in 1 .. Len(Limited(q, n)) : Limited(q, n)[i] = q[i]

LEMMA LimitedFacts ==
    ASSUME NEW S, NEW m \in Nat, NEW q \in [1 .. m -> S], NEW n \in Nat
    PROVE  FirstOf(q, m, S, n)
<1>1. q \in Seq(S)
  BY SeqDef
<1>2. Len(q) \in Nat /\ 1 .. Len(q) = 1 .. m
  BY <1>1, LenProperties
<1>3. Len(q) = m
  BY <1>2, FS_Interval
<1> DEFINE k == Min({n, Len(q)})
<1>4. k = IF m <= n THEN m ELSE n
  <2>1. CASE m <= n
    BY <1>3, <2>1 DEF Min
  <2>2. CASE ~ (m <= n)
    BY <1>3, <2>2 DEF Min
  <2> QED
    BY <2>1, <2>2
<1> HIDE DEF k
<1>5. k \in Nat /\ k <= m
  BY <1>4
<1>6. \A i \in 1 .. k : q[i] \in S
  BY <1>5
<1>7. /\ SubSeq(q, 1, k) \in Seq(S)
      /\ Len(SubSeq(q, 1, k)) = k
      /\ \A i \in 1 .. k : SubSeq(q, 1, k)[i] = q[i]
  <2>1. /\ SubSeq(q, 1, k) \in Seq(S)
        /\ Len(SubSeq(q, 1, k)) = IF 1 <= k THEN k - 1 + 1 ELSE 0
        /\ \A i \in 1 .. k - 1 + 1 : SubSeq(q, 1, k)[i] = q[1 + i - 1]
    BY <1>5, <1>6, SubSeqProperties
  <2> QED
    BY <1>5, <2>1
<1>8. Limited(q, n) = SubSeq(q, 1, k)
  BY DEF Limited, k
<1> QED
  BY <1>4, <1>7, <1>8 DEF FirstOf

(***************************************************************************)
(* A page holds each of its rows once; it is the end of the listing and    *)
(* holds them all, or it has a next key, that of its last row, and holds   *)
(* those that key does not leave for later.                                *)
(***************************************************************************)
PageOf(table, S, items, next_key) ==
    /\ items \in Seq(S)
    /\ \A i, j \in 1 .. Len(items) : items[i] = items[j] => i = j
    /\ \/ /\ next_key = NULL
          /\ \A x \in S : \E i \in 1 .. Len(items) : items[i] = x
       \/ /\ next_key \in Keys
          /\ \E last \in S : next_key = Key(table, last)
          /\ \A x \in S : (\E i \in 1 .. Len(items) : items[i] = x)
                             <=> ~ Newer(next_key, Key(table, x))

LEMMA ListPageFacts ==
    ASSUME NEW table, TableOfRows(table), NEW p, p.limit \in 1 .. 1000, NEW time, NEW cursor
    PROVE  PageOf(table, Listable(table, p, time, cursor),
                  ListPage(table, p, time, cursor).items, ListPage(table, p, time, cursor).next_key)
<1>0. p.limit \in Nat /\ p.limit + 1 \in Nat /\ p.limit >= 1
  <2> DEFINE limit == p.limit
  <2>1. limit \in 1 .. 1000
    OBVIOUS
  <2> HIDE DEF limit
  <2>2. limit \in Nat /\ limit + 1 \in Nat /\ limit >= 1
    BY <2>1
  <2> QED
    BY <2>2 DEF limit
<1> DEFINE S == Listable(table, p, time, cursor)
           m == Cardinality(S)
           q == Newest(table, S)
           rows == Limited(q, p.limit + 1)
           page == ListPage(table, p, time, cursor)
<1>1. page = IF Len(rows) <= p.limit
             THEN [items |-> rows, next_key |-> NULL]
             ELSE [items |-> Limited(rows, p.limit), next_key |-> Key(table, rows[p.limit])]
  BY DEF ListPage, Newest
<1>2. S \in SUBSET DOMAIN table
  BY DEF Listable
<1> HIDE DEF S
<1>3. /\ m \in Nat
      /\ q \in [1 .. m -> S]
      /\ \A x \in S : \E i \in 1 .. m : q[i] = x
      /\ \A i, j \in 1 .. m : i < j => Newer(Key(table, q[i]), Key(table, q[j]))
  BY <1>2, NewestFacts
<1> HIDE DEF m, q
<1>4. /\ rows \in Seq(S)
      /\ Len(rows) = IF m <= p.limit + 1 THEN m ELSE p.limit + 1
      /\ \A i \in 1 .. Len(rows) : rows[i] = q[i]
  <2>1. FirstOf(q, m, S, p.limit + 1)
    BY <1>0, <1>3, LimitedFacts
  <2> QED
    BY <2>1 DEF FirstOf
<1>5. \A i, j \in 1 .. m : q[i] = q[j] => i = j
  <2>1. \A i, j \in 1 .. m : i < j => q[i] # q[j]
    BY <1>2, <1>3, NewerIsOrder
  <2> QED
    BY <2>1
<1> HIDE DEF rows, page
<1>6. CASE Len(rows) <= p.limit
  <2>1. page.items = rows /\ page.next_key = NULL
    BY <1>1, <1>6
  <2>2. Len(rows) = m
    BY <1>0, <1>3, <1>4, <1>6
  <2>3. \A i, j \in 1 .. Len(rows) : rows[i] = rows[j] => i = j
    BY <1>4, <1>5, <2>2
  <2>4. \A x \in S : \E i \in 1 .. Len(rows) : rows[i] = x
    BY <1>0, <1>3, <1>4, <2>2
  <2>5. /\ page.items \in Seq(S) /\ page.next_key = NULL
        /\ \A i, j \in 1 .. Len(page.items) : page.items[i] = page.items[j] => i = j
        /\ \A x \in S : \E i \in 1 .. Len(page.items) : page.items[i] = x
    BY <1>4, <2>1, <2>3, <2>4
  <2> QED
    BY <2>5 DEF PageOf, page, S
<1>7. CASE ~ (Len(rows) <= p.limit)
  <2> DEFINE items == Limited(rows, p.limit)
             last == rows[p.limit]
  <2>1. page.items = items /\ page.next_key = Key(table, last)
    BY <1>1, <1>7
  <2>2. Len(rows) = p.limit + 1 /\ p.limit <= m /\ rows \in [1 .. Len(rows) -> S]
    BY <1>0, <1>3, <1>4, <1>7, LenProperties
  <2>3. /\ items \in Seq(S)
        /\ Len(items) = p.limit
        /\ \A i \in 1 .. p.limit : items[i] = q[i]
    <3>1. p.limit \in Nat /\ Len(rows) \in Nat
      BY <1>0, <2>2
    <3>2. /\ items \in Seq(S)
          /\ Len(items) = IF Len(rows) <= p.limit THEN Len(rows) ELSE p.limit
          /\ \A i \in 1 .. Len(items) : items[i] = rows[i]
      <4>1. FirstOf(rows, Len(rows), S, p.limit)
        BY <2>2, <3>1, LimitedFacts
      <4> QED
        BY <4>1 DEF FirstOf
    <3> HIDE DEF items
    <3> QED
      BY <1>4, <1>7, <2>2, <3>1, <3>2
  <2>4. last = q[p.limit] /\ p.limit \in 1 .. m /\ last \in S
    BY <1>0, <1>3, <1>4, <2>2
  <2> HIDE DEF items, last
  <2>5. \A i, j \in 1 .. Len(items) : items[i] = items[j] => i = j
    BY <1>3, <1>5, <2>2, <2>3
  <2>6. Key(table, last) \in Keys
    BY <1>2, <2>4, NewerIsOrder
  <2>7. ASSUME NEW x \in S
        PROVE  (\E i \in 1 .. Len(items) : items[i] = x) <=> ~ Newer(Key(table, last), Key(table, x))
    <3>1. PICK k \in 1 .. m : q[k] = x
      BY <1>3
    <3>2. /\ Key(table, x) \in Keys
          /\ ~ Newer(Key(table, last), Key(table, last))
          /\ ~ (Newer(Key(table, last), Key(table, x)) /\ Newer(Key(table, x), Key(table, last)))
      BY <1>2, <2>4, NewerIsOrder
    <3>3. CASE k <= p.limit
      <4>1. items[k] = x /\ k \in 1 .. Len(items)
        BY <2>3, <3>1, <3>3
      <4>2. ~ Newer(Key(table, last), Key(table, x))
        BY <1>3, <2>4, <3>1, <3>2, <3>3
      <4> QED
        BY <4>1, <4>2
    <3>4. CASE ~ (k <= p.limit)
      <4>1. \A i \in 1 .. Len(items) : items[i] # x
        <5> SUFFICES ASSUME NEW i \in 1 .. Len(items), items[i] = x PROVE FALSE
          OBVIOUS
        <5>1. i \in 1 .. m /\ q[i] = q[k]
          BY <1>0, <1>3, <2>2, <2>3, <3>1
        <5>2. i = k /\ i <= p.limit
          BY <1>5, <2>3, <5>1
        <5> QED
          BY <3>4, <5>2
      <4>2. Newer(Key(table, last), Key(table, x))
        BY <1>3, <2>4, <3>1, <3>4
      <4> QED
        BY <4>1, <4>2
    <3> QED
      BY <3>3, <3>4
  <2> QED
    BY <2>1, <2>3, <2>4, <2>5, <2>6, <2>7 DEF PageOf, page, S
<1> QED
  BY <1>6, <1>7

(***************************************************************************)
(* A cursor decodes to the key it encodes.                                 *)
(***************************************************************************)
LEMMA CursorFacts ==
    ASSUME NEW k \in Keys
    PROVE  /\ Given(EncodeCursor(k))
           /\ DecodeError(EncodeCursor(k)) = "none"
           /\ DecodeCursor(EncodeCursor(k)) = k
<1> DEFINE date == [type |-> "date", value |-> k[1]]
           uuid == [type |-> "uuid", value |-> k[2]]
           c == [json |-> TRUE, items |-> <<date, uuid>>]
<1>1. k[1] \in Nat /\ k[2] \in Nat /\ k = <<k[1], k[2]>>
  BY DEF Keys
<1>2. c = EncodeCursor(k)
  BY DEF EncodeCursor
<1>3. /\ date \in [type : {"date", "uuid"}, value : Nat]
      /\ uuid \in [type : {"date", "uuid"}, value : Nat]
      /\ date.type = "date" /\ uuid.type = "uuid" /\ date.value = k[1] /\ uuid.value = k[2]
  BY <1>1
<1> HIDE DEF date, uuid
<1>4. <<date, uuid>> \in Seq([type : {"date", "uuid"}, value : Nat])
  BY <1>3
<1>5. c \in Cursors
  BY <1>4 DEF Cursors
<1>6. /\ c.json = TRUE /\ Len(c.items) = 2
      /\ c.items[1] = date /\ c.items[2] = uuid
  OBVIOUS
<1> HIDE DEF c
<1>7. c # NULL
  BY <1>5, EventQueriesAssumption
<1>8. DecodeError(c) = "none" /\ DecodeCursor(c) = k
  BY <1>1, <1>3, <1>6 DEF DecodeError, DecodeCursor
<1> QED
  BY <1>2, <1>7, <1>8 DEF Given

(***************************************************************************)
(* What is refused, and what an answer holds.                              *)
(***************************************************************************)
Valid(p) == ValidFilters(p) /\ ValidLimit(p) /\ ValidBbox(p.bbox)

CursorKey(p) == IF Given(p.cursor) THEN DecodeCursor(p.cursor) ELSE NULL

LEMMA Accepted ==
    ASSUME NEW table, NEW p, NEW time
    PROVE  ListEvents(table, p, time).status = 200
               <=> Valid(p) /\ (Given(p.cursor) => DecodeError(p.cursor) = "none")
<1> DEFINE a == ListEvents(table, p, time)
<1>1. CASE ~ Valid(p) \/ (Given(p.cursor) /\ DecodeError(p.cursor) # "none")
  <2>1. \E e \in {"BusinessValidationError", "RequestValidationError", "Unhandled"} : a = Refused(e)
    <3>1. \A c : DecodeError(c) \in {"none", "BusinessValidationError", "Unhandled"}
      BY DEF DecodeError
    <3> QED
      BY <1>1, <3>1 DEF ListEvents, Valid
  <2>2. \A e \in {"BusinessValidationError", "RequestValidationError", "Unhandled"} :
          Refused(e).status # 200
    BY DEF Refused, StatusOf
  <2> QED
    BY <1>1, <2>1, <2>2
<1>2. CASE Valid(p) /\ (Given(p.cursor) => DecodeError(p.cursor) = "none")
  BY <1>2 DEF ListEvents, Valid
<1> QED
  BY <1>1, <1>2

LEMMA AnswerFacts ==
    ASSUME NEW table, TableOfRows(table), NEW p, NEW time, Valid(p),
           Given(p.cursor) => DecodeError(p.cursor) = "none"
    PROVE  LET a == ListEvents(table, p, time)
           IN  \E key \in Keys \cup {NULL} :
                  /\ PageOf(table, Listable(table, p, time, CursorKey(p)), a.features, key)
                  /\ a.nextCursor = IF Given(key) THEN EncodeCursor(key) ELSE NULL
<1> DEFINE a == ListEvents(table, p, time)
           page == ListPage(table, p, time, CursorKey(p))
<1>1. /\ a.features = page.items
      /\ a.nextCursor = IF Given(page.next_key) THEN EncodeCursor(page.next_key) ELSE NULL
  BY DEF ListEvents, Valid, CursorKey
<1>2. PageOf(table, Listable(table, p, time, CursorKey(p)), page.items, page.next_key)
  BY ListPageFacts DEF Valid, ValidLimit
<1>3. page.next_key \in Keys \cup {NULL}
  BY <1>2 DEF PageOf
<1> QED
  BY <1>1, <1>2, <1>3

(***************************************************************************)
(* One more page of a listing.  Rows after the cursor were not listed, the *)
(* others were once; so it is again, with the cursor of the page.          *)
(***************************************************************************)
Never(listed, id) == \A i \in 1 .. Len(listed) : listed[i] # id

Once(listed, id) ==
    \E i \in 1 .. Len(listed) :
        listed[i] = id /\ \A j \in 1 .. Len(listed) : listed[j] = id => j = i

LEMMA Appended ==
    ASSUME NEW f \in Seq(Nat), NEW g \in Seq(Nat), NEW id
    PROVE  /\ f \o g \in Seq(Nat)
           /\ Never(f, id) /\ Never(g, id) => Never(f \o g, id)
           /\ Never(f, id) /\ Once(g, id) => Once(f \o g, id)
           /\ Once(f, id) /\ Never(g, id) => Once(f \o g, id)
<1> DEFINE h == f \o g
<1>1. /\ Len(f) \in Nat /\ Len(g) \in Nat /\ h \in Seq(Nat)
      /\ Len(h) = Len(f) + Len(g)
      /\ \A i \in 1 .. Len(f) + Len(g) : h[i] = IF i <= Len(f) THEN f[i] ELSE g[i - Len(f)]
  BY ConcatProperties, LenProperties
<1> HIDE DEF h
<1>2. /\ \A i \in 1 .. Len(f) : i \in 1 .. Len(h) /\ h[i] = f[i]
      /\ \A i \in 1 .. Len(g) : Len(f) + i \in 1 .. Len(h) /\ h[Len(f) + i] = g[i]
  <2>1. ASSUME NEW i \in 1 .. Len(g)
        PROVE  Len(f) + i \in 1 .. Len(h) /\ h[Len(f) + i] = g[i]
    <3>1. /\ Len(f) + i \in 1 .. Len(f) + Len(g)
          /\ ~ (Len(f) + i <= Len(f)) /\ (Len(f) + i) - Len(f) = i
      BY <1>1
    <3> QED
      BY <1>1, <3>1
  <2> QED
    BY <1>1, <2>1
<1>3. \A i \in 1 .. Len(h) :
        \/ i \in 1 .. Len(f) /\ h[i] = f[i]
        \/ i - Len(f) \in 1 .. Len(g) /\ h[i] = g[i - Len(f)]
  BY <1>1
<1>4. Never(f, id) /\ Never(g, id) => Never(h, id)
  BY <1>3 DEF Never
<1>5. ASSUME Never(f, id), Once(g, id) PROVE Once(h, id)
  <2>1. PICK i \in 1 .. Len(g) : g[i] = id /\ \A j \in 1 .. Len(g) : g[j] = id => j = i
    BY <1>5 DEF Once
  <2>2. \A j \in 1 .. Len(h) : h[j] = id => j = Len(f) + i
    <3> SUFFICES ASSUME NEW j \in 1 .. Len(h), h[j] = id PROVE j = Len(f) + i
      OBVIOUS
    <3>1. j - Len(f) \in 1 .. Len(g) /\ g[j - Len(f)] = id
      BY <1>3, <1>5 DEF Never
    <3>2. j - Len(f) = i
      BY <2>1, <3>1
    <3> QED
      BY <1>1, <3>2
  <2> QED
    BY <1>2, <2>1, <2>2 DEF Once
<1>6. ASSUME Once(f, id), Never(g, id) PROVE Once(h, id)
  <2>1. PICK i \in 1 .. Len(f) : f[i] = id /\ \A j \in 1 .. Len(f) : f[j] = id => j = i
    BY <1>6 DEF Once
  <2>2. \A j \in 1 .. Len(h) : h[j] = id => j = i
    BY <1>3, <1>6, <2>1 DEF Never
  <2> QED
    BY <1>2, <2>1, <2>2 DEF Once
<1> QED
  BY <1>1, <1>4, <1>5, <1>6 DEF h

LEMMA PageExtends ==
    ASSUME NEW table, TableOfRows(table), NEW cursor \in Keys \cup {NULL},
           NEW S \in SUBSET DOMAIN table, NEW items, NEW key \in Keys \cup {NULL},
           PageOf(table, S, items, key),
           \A x \in S : cursor # NULL => AfterCursor(Key(table, x), cursor),
           NEW listed \in Seq(Nat), NEW id \in DOMAIN table,
           id \in S => Never(listed, id),
           id \notin S =>
               cursor # NULL /\ ~ AfterCursor(Key(table, id), cursor) /\ Once(listed, id)
    PROVE  IF key # NULL /\ AfterCursor(Key(table, id), key)
           THEN Never(listed \o items, id) ELSE Once(listed \o items, id)
<1>1. items \in Seq(S) /\ S \subseteq Nat
  BY DEF PageOf, TableOfRows
<1>2. items \in Seq(Nat)
  BY <1>1, SeqMonotonic
<1>3. \A i \in 1 .. Len(items) : items[i] \in S
  BY <1>1, ElementOfSeq
<1>4. NULL \notin Keys
  BY EventQueriesAssumption
<1>5. CASE id \in S
  <2>1. ASSUME key # NULL, AfterCursor(Key(table, id), key) PROVE Never(items, id)
    BY <1>4, <1>5, <2>1 DEF PageOf, AfterCursor, Never
  <2>2. ASSUME ~ (key # NULL /\ AfterCursor(Key(table, id), key)) PROVE Once(items, id)
    <3>1. \E i \in 1 .. Len(items) : items[i] = id
      BY <1>4, <1>5, <2>2 DEF PageOf, AfterCursor
    <3> QED
      BY <3>1 DEF PageOf, Once
  <2> QED
    BY <1>2, <1>5, <2>1, <2>2, Appended
<1>6. CASE id \notin S
  <2>1. Never(items, id)
    BY <1>3, <1>6 DEF Never
  <2>2. ASSUME key # NULL PROVE ~ AfterCursor(Key(table, id), key)
    <3>1. PICK last \in S : key = Key(table, last)
      BY <1>4, <2>2 DEF PageOf
    <3>2. /\ Newer(cursor, key)
          /\ ~ Newer(cursor, Key(table, id))
      BY <1>6, <3>1 DEF AfterCursor
    <3>3. cursor \in Keys /\ key \in Keys /\ Key(table, id) \in Keys
      BY <1>6, <2>2, NewerIsOrder
    <3> QED
      BY <3>2, <3>3, NewerIsOrder DEF AfterCursor
  <2> QED
    BY <1>2, <1>6, <2>1, <2>2, Appended
<1> QED
  BY <1>5, <1>6

(***************************************************************************)
(* The table at a version of every source.                                 *)
(***************************************************************************)
VersionsKnown(v) ==
    /\ v \in [Sources -> Nat]
    /\ \A s \in Sources : v[s] <= Len(Versions[s])

LEMMA ExportFacts ==
    ASSUME NEW s \in Sources, NEW n \in Nat, n <= Len(Versions[s])
    PROVE  /\ IsFiniteSet(DOMAIN ExportRows(s, n)) /\ DOMAIN ExportRows(s, n) \subseteq Nat
           /\ \A id \in DOMAIN ExportRows(s, n) : ExportRows(s, n)[id].starts_at \in Nat
           /\ \A r \in Sources, m \in Nat :
                  r # s /\ m <= Len(Versions[r]) =>
                      DOMAIN ExportRows(s, n) \cap DOMAIN ExportRows(r, m) = {}
<1>1. DOMAIN NoRows = {} /\ IsFiniteSet({})
  BY FS_EmptySet DEF NoRows
<1>2. CASE n = 0
  BY <1>1, <1>2 DEF ExportRows
<1>3. CASE n # 0
  <2>1. n \in 1 .. Len(Versions[s]) /\ ExportRows(s, n) = Versions[s][n]
    BY <1>3, ReadSideAssumption DEF ExportRows
  <2>2. /\ IsFiniteSet(DOMAIN Versions[s][n]) /\ DOMAIN Versions[s][n] \subseteq Nat
        /\ \A id \in DOMAIN Versions[s][n] : Versions[s][n][id].starts_at \in Nat
    BY <2>1, EventRowsAssumption DEF EventRow
  <2>3. ASSUME NEW r \in Sources, NEW m \in Nat, r # s, m <= Len(Versions[r])
        PROVE  DOMAIN ExportRows(s, n) \cap DOMAIN ExportRows(r, m) = {}
    <3>1. CASE m = 0
      BY <1>1, <3>1 DEF ExportRows
    <3>2. CASE m # 0
      <4>1. m \in 1 .. Len(Versions[r]) /\ ExportRows(r, m) = Versions[r][m]
        BY <2>3, <3>2, ReadSideAssumption DEF ExportRows
      <4> QED
        BY <2>1, <2>3, <4>1, EventRowsAssumption
    <3> QED
      BY <3>1, <3>2
  <2> QED
    BY <2>1, <2>2, <2>3
<1> QED
  BY <1>2, <1>3

LEMMA TableFacts ==
    ASSUME NEW v, VersionsKnown(v)
    PROVE  /\ TableOfRows(Table(v))
           /\ \A s \in Sources : \A id \in DOMAIN ExportRows(s, v[s]) :
                  id \in DOMAIN Table(v) /\ Table(v)[id] = ExportRows(s, v[s])[id]
<1> DEFINE D(s) == DOMAIN ExportRows(s, v[s])
           all == UNION {D(s) : s \in Sources}
<1>1. \A s \in Sources :
        /\ IsFiniteSet(D(s)) /\ D(s) \subseteq Nat
        /\ \A id \in D(s) : ExportRows(s, v[s])[id].starts_at \in Nat
        /\ \A r \in Sources : r # s => D(s) \cap D(r) = {}
  BY ExportFacts DEF VersionsKnown
<1>2. DOMAIN Table(v) = all
  BY DEF Table
<1>3. ASSUME NEW s \in Sources, NEW id \in D(s)
      PROVE  Table(v)[id] = ExportRows(s, v[s])[id]
  <2>1. s = CHOOSE r \in Sources : id \in D(r)
    BY <1>1, <1>3
  <2> QED
    BY <1>3, <2>1 DEF Table
<1>4. IsFiniteSet(all)
  <2> HIDE DEF D
  <2>1. all = D("effis") \cup D("ign") \cup D("aemet")
    BY DEF Sources
  <2>2. IsFiniteSet(D("effis") \cup D("ign"))
    BY <1>1, FS_Union DEF Sources
  <2>3. IsFiniteSet(D("aemet"))
    BY <1>1 DEF Sources
  <2>4. IsFiniteSet((D("effis") \cup D("ign")) \cup D("aemet"))
    BY <2>2, <2>3, FS_Union
  <2> QED
    BY <2>1, <2>4
<1>5. TableOfRows(Table(v))
  <2>1. \A id \in all : \E s \in Sources : id \in D(s)
    OBVIOUS
  <2> HIDE DEF D, all
  <2>2. ASSUME NEW id \in all PROVE id \in Nat /\ Table(v)[id].starts_at \in Nat
    <3>1. PICK s \in Sources : id \in D(s)
      BY <2>1
    <3> QED
      BY <1>1, <1>3, <3>1
  <2> QED
    BY <1>2, <1>4, <2>2 DEF TableOfRows
<1> QED
  BY <1>2, <1>3, <1>5

(***************************************************************************)
(* Steady for a listing begun at the versions since and the instant at.    *)
(***************************************************************************)
SteadyFrom(since, at, p, v, t, id) ==
    \E s \in Sources :
        /\ id \in DOMAIN ExportRows(s, since[s])
        /\ \A u \in since[s] .. v[s] :
              /\ ExportRows(s, u)[id].starts_at = ExportRows(s, v[s])[id].starts_at
              /\ \A i \in at .. t : Matches(ExportRows(s, u)[id], p, i)

Begun(l, v, t) ==
    /\ l.since \in [Sources -> Nat] /\ l.at \in Nat /\ l.at <= t
    /\ \A s \in Sources :
          /\ l.since[s] <= v[s]
          /\ \A u \in l.since[s] .. v[s] :
                DOMAIN ExportRows(s, l.since[s]) \subseteq DOMAIN ExportRows(s, u)
    /\ l.listed \in Seq(Nat)

(* The question a listing asks next. *)
AskedNext(p) ==
    /\ p = [k \in Parameters |-> p[k]]
    /\ Valid(p)
    /\ \E k \in Keys : p.cursor = EncodeCursor(k)

InPlace(l, v, id) ==
    IF l.phase = "paging" /\ AfterCursor(Key(Table(v), id), DecodeCursor(l.p.cursor))
    THEN Never(l.listed, id) ELSE Once(l.listed, id)

ListingRight(l, v, t) ==
    /\ Begun(l, v, t)
    /\ l.phase = "paging" => AskedNext(l.p)
    /\ \A id \in DOMAIN Table(v) :
          SteadyFrom(l.since, l.at, l.p, v, t, id) => InPlace(l, v, id)

(* A row that was steady until now was so until before, at the same place. *)
LEMMA SteadyBefore ==
    ASSUME NEW v, NEW w, VersionsKnown(v), VersionsKnown(w), NEW t \in Nat, NEW n \in Nat, t <= n,
           \A s \in Sources : v[s] <= w[s],
           NEW l, Begun(l, v, t), NEW id, SteadyFrom(l.since, l.at, l.p, w, n, id)
    PROVE  /\ SteadyFrom(l.since, l.at, l.p, v, t, id)
           /\ id \in DOMAIN Table(v)
           /\ Begun(l, w, n) => Key(Table(w), id) = Key(Table(v), id)
<1>1. PICK s \in Sources :
        /\ id \in DOMAIN ExportRows(s, l.since[s])
        /\ \A u \in l.since[s] .. w[s] :
              /\ ExportRows(s, u)[id].starts_at = ExportRows(s, w[s])[id].starts_at
              /\ \A i \in l.at .. n : Matches(ExportRows(s, u)[id], l.p, i)
  BY DEF SteadyFrom
<1>2. /\ l.since[s] \in Nat /\ v[s] \in Nat /\ w[s] \in Nat /\ l.at \in Nat
      /\ l.since[s] <= v[s] /\ v[s] <= w[s]
  BY DEF Begun, VersionsKnown
<1>3. v[s] \in l.since[s] .. v[s] /\ v[s] \in l.since[s] .. w[s] /\ w[s] \in l.since[s] .. w[s]
  BY <1>2
<1>4. id \in DOMAIN ExportRows(s, v[s])
  BY <1>1, <1>3 DEF Begun
<1>5. SteadyFrom(l.since, l.at, l.p, v, t, id)
  <2>1. \A u \in l.since[s] .. v[s] : u \in l.since[s] .. w[s]
    BY <1>2
  <2>2. \A i \in l.at .. t : i \in l.at .. n
    BY <1>2
  <2>3. ExportRows(s, v[s])[id].starts_at = ExportRows(s, w[s])[id].starts_at
    BY <1>1, <1>3
  <2> QED
    BY <1>1, <2>1, <2>2, <2>3 DEF SteadyFrom
<1>6. id \in DOMAIN Table(v) /\ Table(v)[id] = ExportRows(s, v[s])[id]
  BY <1>4, TableFacts
<1>7. ASSUME Begun(l, w, n) PROVE Key(Table(w), id) = Key(Table(v), id)
  <2>1. id \in DOMAIN ExportRows(s, w[s])
    BY <1>1, <1>3, <1>7 DEF Begun
  <2>2. Table(w)[id] = ExportRows(s, w[s])[id]
    BY <2>1, TableFacts
  <2> QED
    BY <1>1, <1>3, <1>6, <2>2 DEF Key
<1> QED
  BY <1>5, <1>6, <1>7

LEMMA RightLater ==
    ASSUME NEW v, NEW w, VersionsKnown(v), VersionsKnown(w), NEW t \in Nat, NEW n \in Nat, t <= n,
           \A s \in Sources : v[s] <= w[s],
           NEW l, ListingRight(l, v, t), Begun(l, w, n)
    PROVE  ListingRight(l, w, n)
<1> SUFFICES ASSUME NEW id \in DOMAIN Table(w), SteadyFrom(l.since, l.at, l.p, w, n, id)
             PROVE  InPlace(l, w, id)
  BY DEF ListingRight
<1>1. /\ SteadyFrom(l.since, l.at, l.p, v, t, id)
      /\ id \in DOMAIN Table(v)
      /\ Key(Table(w), id) = Key(Table(v), id)
  BY SteadyBefore DEF ListingRight
<1> QED
  BY <1>1 DEF ListingRight, InPlace

(* The cursor is no part of what a row must match. *)
LEMMA OtherCursor ==
    ASSUME NEW p, p = [k \in Parameters |-> p[k]], NEW c
    PROVE  LET q == [p EXCEPT !.cursor = c]
           IN  /\ q = [k \in Parameters |-> q[k]]
               /\ q.cursor = c
               /\ Valid(p) => Valid(q)
               /\ \A row, i : Matches(row, q, i) <=> Matches(row, p, i)
<1> DEFINE q == [p EXCEPT !.cursor = c]
<1>1. /\ q = [k \in Parameters |-> q[k]]
      /\ q.cursor = c
      /\ q.hazard_types = p.hazard_types /\ q.source = p.source
      /\ q.severity_min = p.severity_min /\ q.starts_after = p.starts_after
      /\ q.starts_before = p.starts_before /\ q.active = p.active
      /\ q.bbox = p.bbox /\ q.province = p.province /\ q.limit = p.limit
  BY DEF Parameters
<1> HIDE DEF q
<1>2. Valid(p) => Valid(q)
  BY <1>1 DEF Valid, ValidFilters, ValidLimit
<1>3. \A row, i : Matches(row, q, i) <=> Matches(row, p, i)
  BY <1>1 DEF Matches, Passes
<1> QED
  BY <1>1, <1>2, <1>3 DEF q

LEMMA NewPage ==
    ASSUME NEW v, VersionsKnown(v), NEW t \in Nat,
           NEW p, p = [k \in Parameters |-> p[k]], Valid(p),
           Given(p.cursor) => \E k \in Keys : p.cursor = EncodeCursor(k),
           NEW was, Begun(was, v, t),
           \A id \in DOMAIN Table(v) :
               SteadyFrom(was.since, was.at, p, v, t, id) =>
                   IF Given(p.cursor) /\ ~ AfterCursor(Key(Table(v), id), DecodeCursor(p.cursor))
                   THEN Once(was.listed, id) ELSE Never(was.listed, id)
    PROVE  LET l == AsListed(was, p, ListEvents(Table(v), p, t))
           IN  l.phase \in {"paging", "done"} /\ ListingRight(l, v, t)
<1> DEFINE table == Table(v)
           a == ListEvents(table, p, t)
           S == Listable(table, p, t, CursorKey(p))
           q == [p EXCEPT !.cursor = a.nextCursor]
           l == AsListed(was, p, a)
<1>1. TableOfRows(table)
  BY TableFacts
<1>2. /\ Given(p.cursor) => DecodeError(p.cursor) = "none"
      /\ CursorKey(p) \in Keys \cup {NULL}
      /\ Given(p.cursor) <=> CursorKey(p) # NULL
      /\ Given(p.cursor) => DecodeCursor(p.cursor) = CursorKey(p)
  BY CursorFacts, EventQueriesAssumption DEF CursorKey, Given
<1>3. a.status = 200
  BY <1>2, Accepted
<1>4. PICK key \in Keys \cup {NULL} :
        /\ PageOf(table, S, a.features, key)
        /\ a.nextCursor = IF Given(key) THEN EncodeCursor(key) ELSE NULL
  BY <1>1, <1>2, AnswerFacts
<1>5. /\ l.phase = IF Given(a.nextCursor) THEN "paging" ELSE "done"
      /\ l.p = q /\ l.listed = was.listed \o a.features
      /\ l.since = was.since /\ l.at = was.at
  BY <1>3 DEF AsListed
<1>6. /\ Given(a.nextCursor) <=> key # NULL
      /\ key # NULL => key \in Keys /\ a.nextCursor = EncodeCursor(key)
                       /\ DecodeCursor(a.nextCursor) = key
  BY <1>4, CursorFacts DEF Given
<1>7. /\ q = [k \in Parameters |-> q[k]] /\ q.cursor = a.nextCursor
      /\ Valid(q)
      /\ \A row, i : Matches(row, q, i) <=> Matches(row, p, i)
  BY OtherCursor
<1>8. /\ S \in SUBSET DOMAIN table
      /\ \A id \in DOMAIN table :
            id \in S <=>
                /\ Matches(table[id], p, t)
                /\ Given(CursorKey(p)) => AfterCursor(Key(table, id), CursorKey(p))
  BY DEF Listable
<1> HIDE DEF table, a, S, q, l
<1>9. l.phase = "paging" => AskedNext(l.p)
  BY <1>5, <1>6, <1>7 DEF AskedNext
<1>10. Begun(l, v, t)
  <2>1. a.features \in Seq(Nat)
    BY <1>1, <1>4, <1>8, SeqMonotonic DEF PageOf, TableOfRows
  <2>2. l.listed \in Seq(Nat)
    BY <1>5, <2>1, ConcatProperties DEF Begun
  <2> QED
    BY <1>5, <2>2 DEF Begun
<1>11. ASSUME NEW id \in DOMAIN table, SteadyFrom(l.since, l.at, l.p, v, t, id)
       PROVE  InPlace(l, v, id)
  <2>1. SteadyFrom(was.since, was.at, p, v, t, id)
    BY <1>5, <1>7, <1>11 DEF SteadyFrom
  <2>2. Matches(table[id], p, t)
    <3>1. PICK s \in Sources :
            /\ id \in DOMAIN ExportRows(s, was.since[s])
            /\ \A u \in was.since[s] .. v[s] :
                   \A i \in was.at .. t : Matches(ExportRows(s, u)[id], p, i)
      BY <2>1 DEF SteadyFrom
    <3>2. v[s] \in was.since[s] .. v[s] /\ t \in was.at .. t
      BY DEF Begun, VersionsKnown
    <3>3. id \in DOMAIN ExportRows(s, v[s])
      BY <3>1, <3>2 DEF Begun
    <3>4. table[id] = ExportRows(s, v[s])[id]
      BY <3>3, TableFacts DEF table
    <3> QED
      BY <3>1, <3>2, <3>4
  <2>3. id \in S => Never(was.listed, id)
    BY <1>2, <1>8, <2>1 DEF Given, table
  <2>4. id \notin S =>
            /\ CursorKey(p) # NULL /\ ~ AfterCursor(Key(table, id), CursorKey(p))
            /\ Once(was.listed, id)
    BY <1>2, <1>8, <2>1, <2>2 DEF Given, table
  <2>5. \A x \in S : CursorKey(p) # NULL => AfterCursor(Key(table, x), CursorKey(p))
    BY <1>8 DEF Given
  <2>6. IF key # NULL /\ AfterCursor(Key(table, id), key)
        THEN Never(was.listed \o a.features, id) ELSE Once(was.listed \o a.features, id)
    <3> DEFINE cursor == CursorKey(p)
               listed == was.listed
    <3>1. /\ TableOfRows(table) /\ PageOf(table, S, a.features, key) /\ S \in SUBSET DOMAIN table
          /\ cursor \in Keys \cup {NULL} /\ key \in Keys \cup {NULL}
          /\ listed \in Seq(Nat) /\ id \in DOMAIN table
      BY <1>1, <1>2, <1>4, <1>8 DEF Begun
    <3>2. \A x \in S : cursor # NULL => AfterCursor(Key(table, x), cursor)
      BY <2>5
    <3>3. /\ id \in S => Never(listed, id)
          /\ id \notin S =>
                cursor # NULL /\ ~ AfterCursor(Key(table, id), cursor) /\ Once(listed, id)
      BY <2>3, <2>4
    <3> HIDE DEF cursor, listed
    <3>4. IF key # NULL /\ AfterCursor(Key(table, id), key)
          THEN Never(listed \o a.features, id) ELSE Once(listed \o a.features, id)
      BY <3>1, <3>2, <3>3, PageExtends
    <3> QED
      BY <3>4 DEF listed
  <2> QED
    BY <1>5, <1>6, <1>7, <2>6 DEF InPlace, table
<1> QED
  BY <1>5, <1>9, <1>10, <1>11 DEF ListingRight, l, a, table

(***************************************************************************)
(* What a listing has given so far, while the sources go on writing.       *)
(***************************************************************************)
Listings ==
    /\ listing.phase = "refused" => listing.pages = 0
    /\ listing.phase \in {"paging", "done"} => ListingRight(listing, version, now)

LEMMA DomainsGrow ==
    ASSUME NEW s \in Sources, NEW n \in Nat, n + 1 <= Len(Versions[s])
    PROVE  DOMAIN ExportRows(s, n) \subseteq DOMAIN ExportRows(s, n + 1)
<1>1. CASE n = 0
  BY <1>1 DEF ExportRows, NoRows
<1>2. CASE n # 0
  <2>1. n + 1 \in 1 .. Len(Versions[s]) /\ n + 1 > 1 /\ (n + 1) - 1 = n /\ n + 1 # 0
    BY <1>2, ReadSideAssumption
  <2> QED
    BY <1>2, <2>1, EventRowsAssumption DEF ExportRows
<1> QED
  BY <1>1, <1>2

LEMMA FirstPage ==
    ASSUME VersionsKnown(version), now \in Nat, NEW p \in Questions, ListFirst(p)
    PROVE  Listings'
<1> DEFINE was == [listed |-> <<>>, pages |-> 0, since |-> version, at |-> now]
           a == ListEvents(Table(version), p, now)
<1>1. listing' = AsListed(was, p, a) /\ version' = version /\ now' = now
  BY DEF ListFirst
<1>2. p = [k \in Parameters |-> p[k]] /\ (Given(p.cursor) => DecodeError(p.cursor) # "none")
  BY ReadSideAssumption
<1>3. CASE a.status # 200
  BY <1>1, <1>3 DEF AsListed, Listings
<1>4. CASE a.status = 200
  <2>1. Valid(p) /\ ~ Given(p.cursor)
    BY <1>2, <1>4, Accepted
  <2>2. Begun(was, version, now)
    <3>1. /\ was.since = version /\ was.at = now /\ was.listed = <<>>
          /\ <<>> \in Seq(Nat) /\ version \in [Sources -> Nat]
      BY EmptySeq DEF VersionsKnown
    <3>2. \A s \in Sources : \A u \in version[s] .. version[s] : u = version[s]
      BY <3>1
    <3> QED
      BY <3>1, <3>2 DEF Begun
  <2>3. \A id : Never(was.listed, id)
    BY DEF Never
  <2> HIDE DEF was
  <2>4. AsListed(was, p, a).phase \in {"paging", "done"} /\ ListingRight(AsListed(was, p, a), version, now)
    BY <1>2, <2>1, <2>2, <2>3, NewPage
  <2> QED
    BY <1>1, <2>4 DEF Listings
<1> QED
  BY <1>3, <1>4

LEMMA LaterPage ==
    ASSUME VersionsKnown(version), now \in Nat, Listings, ListNext
    PROVE  Listings'
<1> DEFINE p == listing.p
           l == AsListed(listing, p, ListEvents(Table(version), p, now))
<1>1. listing' = l /\ version' = version /\ now' = now /\ listing.phase = "paging"
  BY DEF ListNext
<1>2. ListingRight(listing, version, now) /\ AskedNext(p) /\ Begun(listing, version, now)
  BY <1>1 DEF Listings, ListingRight
<1>3. /\ p = [k \in Parameters |-> p[k]] /\ Valid(p)
      /\ Given(p.cursor)
      /\ \E k \in Keys : p.cursor = EncodeCursor(k)
  BY <1>2, CursorFacts DEF AskedNext
<1>4. ASSUME NEW id \in DOMAIN Table(version),
             SteadyFrom(listing.since, listing.at, p, version, now, id)
      PROVE  IF Given(p.cursor) /\ ~ AfterCursor(Key(Table(version), id), DecodeCursor(p.cursor))
             THEN Once(listing.listed, id) ELSE Never(listing.listed, id)
  BY <1>1, <1>2, <1>3, <1>4 DEF ListingRight, InPlace
<1>5. l.phase \in {"paging", "done"} /\ ListingRight(l, version, now)
  <2> HIDE DEF p
  <2> QED
    BY <1>2, <1>3, <1>4, NewPage
<1> QED
  BY <1>1, <1>5 DEF Listings

LEMMA ListingsKept ==
    ASSUME IInv, Bounds, Listings, [Next]_vars
    PROVE  Listings'
<1>1. /\ VersionsKnown(version) /\ VersionsKnown(version')
      /\ now \in Nat /\ now' \in Nat /\ now <= now'
      /\ \A s \in Sources : version'[s] \in {version[s], version[s] + 1}
  <2>1. IInv' /\ Bounds'
    BY Inductive, BoundsKept
  <2>2. version \in [Sources -> Nat] /\ version' \in [Sources -> Nat]
    BY <2>1 DEF IInv, Shapes
  <2>3. VersionsKnown(version) /\ VersionsKnown(version')
    BY <2>1, <2>2 DEF VersionsKnown, Bounds
  <2>4. now \in Nat /\ now' \in Nat
    BY <2>1, ReadSideAssumption DEF Bounds
  <2>5. \/ now' = now \/ now' = now + 1
    BY DEF Next, vars, Tick, Ingest, Dispatch, ReadRows, Replace, CommitLost, WriteFails, TimeOut,
           LingeringReplace, Crash, Arrive, Acquire, Rejected, Statement, Answered, QueryFails,
           ListFirst, ListNext
  <2>6. \/ version' = version
        \/ \E s \in Sources : version' = [version EXCEPT ![s] = @ + 1]
    BY DEF Next, vars, Tick, Ingest, Dispatch, ReadRows, Replace, CommitLost, WriteFails, TimeOut,
           LingeringReplace, Crash, Arrive, Acquire, Rejected, Statement, Answered, QueryFails,
           ListFirst, ListNext
  <2> QED
    BY <2>2, <2>3, <2>4, <2>5, <2>6
<1>2. CASE \E p \in Questions : ListFirst(p)
  BY <1>1, <1>2, FirstPage
<1>3. CASE ListNext
  BY <1>1, <1>3, LaterPage
<1>4. CASE listing' = listing
  <2> SUFFICES ASSUME listing.phase \in {"paging", "done"}
               PROVE  ListingRight(listing, version', now')
    BY <1>4 DEF Listings
  <2>1. ListingRight(listing, version, now) /\ Begun(listing, version, now)
    BY DEF Listings, ListingRight
  <2>2. \A s \in Sources : version[s] \in Nat /\ version'[s] \in Nat /\ version[s] <= version'[s]
    BY <1>1 DEF VersionsKnown
  <2>3. ASSUME NEW s \in Sources, NEW u \in listing.since[s] .. version'[s]
        PROVE  DOMAIN ExportRows(s, listing.since[s]) \subseteq DOMAIN ExportRows(s, u)
    <3>1. listing.since[s] \in Nat /\ listing.since[s] <= version[s]
      BY <2>1 DEF Begun
    <3>2. CASE u <= version[s]
      <4>1. u \in listing.since[s] .. version[s]
        BY <2>2, <3>1, <3>2
      <4> QED
        BY <2>1, <4>1 DEF Begun
    <3>3. CASE ~ (u <= version[s])
      <4>1. u = version[s] + 1 /\ u = version'[s]
        BY <1>1, <2>2, <3>1, <3>3
      <4>2. u <= Len(Versions[s])
        BY <1>1, <4>1 DEF VersionsKnown
      <4>3. DOMAIN ExportRows(s, version[s]) \subseteq DOMAIN ExportRows(s, u)
        BY <2>2, <4>1, <4>2, DomainsGrow
      <4>4. version[s] \in listing.since[s] .. version[s]
        BY <2>2, <3>1
      <4>5. DOMAIN ExportRows(s, listing.since[s]) \subseteq DOMAIN ExportRows(s, version[s])
        BY <2>1, <4>4 DEF Begun
      <4> QED
        BY <4>3, <4>5
    <3> QED
      BY <3>2, <3>3
  <2>4. Begun(listing, version', now')
    <3>1. \A s \in Sources : listing.since[s] <= version'[s]
      BY <2>1, <2>2 DEF Begun
    <3>2. listing.at <= now'
      BY <1>1, <2>1 DEF Begun
    <3> QED
      BY <2>1, <2>3, <3>1, <3>2 DEF Begun
  <2> QED
    BY <1>1, <2>1, <2>2, <2>4, RightLater
<1>5. \/ listing' = listing \/ ListNext \/ \E p \in Questions : ListFirst(p)
  BY DEF Next, vars, Tick, Ingest, Dispatch, ReadRows, Replace, CommitLost, WriteFails, TimeOut,
         LingeringReplace, Crash, Arrive, Acquire, Rejected, Statement, Answered, QueryFails
<1> QED
  BY <1>2, <1>3, <1>4, <1>5

(***************************************************************************)
(* Keyset pagination neither loses nor repeats a row: whatever batches     *)
(* come between its pages, a listing that reaches its end has given every  *)
(* row that stayed in place exactly once, and on the way those before the  *)
(* cursor; and no cursor of ours is refused (hazard_event.py, list_page).  *)
(***************************************************************************)
THEOREM EveryRowIsListedOnce == Spec => []ListedOnce
<1>1. Init => IInv /\ Bounds /\ Listings
  <2> SUFFICES ASSUME Init PROVE IInv /\ Bounds /\ Listings
    OBVIOUS
  <2>1. Bounds
    BY ReadSideAssumption DEF Init, Bounds, NoListing
  <2>2. Listings
    BY DEF Init, NoListing, Listings
  <2> QED
    BY <2>1, <2>2, Initially
<1>2. IInv /\ Bounds /\ Listings /\ [Next]_vars => (IInv /\ Bounds /\ Listings)'
  BY Inductive, BoundsKept, ListingsKept
<1>3. Listings => ListedOnce
  <2> SUFFICES ASSUME listing.phase \in {"paging", "done"}, ListingRight(listing, version, now),
                      NEW id \in DOMAIN Table(version), Steady(id)
               PROVE  TimesListed(id) =
                          IF /\ listing.phase = "paging"
                             /\ AfterCursor(Key(Table(version), id), DecodeCursor(listing.p.cursor))
                          THEN 0 ELSE 1
    BY DEF Listings, ListedOnce
  <2>1. SteadyFrom(listing.since, listing.at, listing.p, version, now, id)
    BY DEF Steady, SteadyFrom
  <2>2. InPlace(listing, version, id)
    BY <2>1 DEF ListingRight
  <2>3. DOMAIN listing.listed = 1 .. Len(listing.listed)
    BY LenProperties DEF ListingRight, Begun
  <2> DEFINE places == {i \in DOMAIN listing.listed : listing.listed[i] = id}
  <2>4. Never(listing.listed, id) => places = {}
    BY <2>3 DEF Never
  <2>5. Once(listing.listed, id) => \E i : places = {i}
    BY <2>3 DEF Once
  <2>6. /\ Never(listing.listed, id) => TimesListed(id) = 0
        /\ Once(listing.listed, id) => TimesListed(id) = 1
    BY <2>4, <2>5, FS_EmptySet, FS_Singleton DEF TimesListed
  <2> QED
    BY <2>2, <2>6 DEF InPlace
<1> QED
  BY <1>1, <1>2, <1>3, PTL DEF Spec

(***************************************************************************)
(* The histories.  They count and add over sets, with the folds of the     *)
(* library, and what a fold computes is proved by induction over the       *)
(* subsets of a finite set.  The induction is a proof by a least           *)
(* counterexample, so that no lemma takes an operator.                     *)
(***************************************************************************)
LEMMA LeastNatural ==
    ASSUME NEW S \in SUBSET Nat, S # {}
    PROVE  \E m \in S : \A n \in S : m <= n
<1>1. PICK m \in S : \A n \in S : ~ (<<n, m>> \in OpToRel(<, Nat))
  BY NatLessThanWellFounded, WFMin
<1>2. \A n \in S : ~ (n < m)
  BY <1>1 DEF OpToRel
<1> QED
  BY <1>2

(***************************************************************************)
(* Induction over the subsets of a finite set: what holds of a set when it *)
(* holds of the sets with one element less, holds of all of them.  G is    *)
(* the set of those of which it holds.                                     *)
(***************************************************************************)
LEMMA SubsetInduction ==
    ASSUME NEW S, IsFiniteSet(S), NEW G,
           \A T \in SUBSET S : (\A x \in T : T \ {x} \in G) => T \in G
    PROVE  \A T \in SUBSET S : T \in G
<1> DEFINE Bad == {T \in SUBSET S : T \notin G}
           Sizes == {Cardinality(T) : T \in Bad}
<1> SUFFICES ASSUME Bad # {} PROVE FALSE
  OBVIOUS
<1>1. \A T \in SUBSET S : IsFiniteSet(T) /\ Cardinality(T) \in Nat
  BY FS_Subset, FS_CardinalityType
<1>2. PICK n \in Sizes : \A k \in Sizes : n <= k
  <2>1. Sizes \in SUBSET Nat /\ Sizes # {}
    BY <1>1
  <2> HIDE DEF Sizes
  <2> QED
    BY <2>1, LeastNatural
<1>3. PICK T \in Bad : Cardinality(T) = n
  BY <1>2
<1>4. PICK x \in T : T \ {x} \notin G
  BY <1>3
<1>5. T \ {x} \in Bad
  BY <1>3, <1>4
<1>6. Cardinality(T \ {x}) = n - 1 /\ n \in Nat
  BY <1>1, <1>3, <1>4, FS_RemoveElement
<1> HIDE DEF Bad
<1> QED
  BY <1>2, <1>5, <1>6

(***************************************************************************)
(* A fold over the subsets of S, one chosen element at a time: it exists,  *)
(* so that the function the library chooses is one.                        *)
(***************************************************************************)
Pick(T) == CHOOSE x \in T : TRUE

IsFold(g, S, base, step) ==
    g = [T \in SUBSET S |-> IF T = {} THEN base ELSE step[<<Pick(T), g[T \ {Pick(T)}]>>]]

LEMMA Picked == \A T : T # {} => Pick(T) \in T
BY DEF Pick

LEMMA FoldExists ==
    ASSUME NEW S, IsFiniteSet(S), NEW V, NEW base \in V, NEW step \in [S \X V -> V]
    PROVE  \E g \in [SUBSET S -> V] : IsFold(g, S, base, step)
<1> DEFINE D(n) == {T \in SUBSET S : Cardinality(T) <= n}
           Next1(T, g) == IF T = {} THEN base ELSE step[<<Pick(T), g[T \ {Pick(T)}]>>]
           Good(n, g) == \A T \in D(n) : g[T] = Next1(T, g)
           G == {n \in Nat : \E g \in [D(n) -> V] : Good(n, g)}
<1>1. \A T \in SUBSET S : IsFiniteSet(T) /\ Cardinality(T) \in Nat
  BY FS_Subset, FS_CardinalityType
<1>2. \A T \in SUBSET S : T # {} =>
         /\ Pick(T) \in S /\ T \ {Pick(T)} \in SUBSET S
         /\ Cardinality(T \ {Pick(T)}) = Cardinality(T) - 1
  BY <1>1, Picked, FS_RemoveElement
<1>3. 0 \in G
  <2> DEFINE g == [T \in D(0) |-> base]
  <2>1. \A T \in D(0) : T = {}
    <3>1. ASSUME NEW T \in D(0) PROVE T = {}
      BY <1>1, FS_EmptySet
    <3> QED
      BY <3>1
  <2>2. g \in [D(0) -> V] /\ Good(0, g)
    BY <2>1
  <2> QED
    BY <2>2
<1>4. ASSUME NEW n \in G PROVE n + 1 \in G
  <2>1. n \in Nat /\ n + 1 \in Nat
    OBVIOUS
  <2>2. PICK h \in [D(n) -> V] : Good(n, h)
    OBVIOUS
  <2> DEFINE g == [T \in D(n + 1) |-> Next1(T, h)]
  <2>3. \A T \in D(n + 1) : T # {} => T \ {Pick(T)} \in D(n)
    BY <1>1, <1>2, <2>1
  <2>4. \A T \in D(n + 1) : g[T] \in V
    BY <1>2, <2>3
  <2>5. \A T \in D(n) : T \in D(n + 1) /\ g[T] = h[T]
    BY <1>1, <2>1, <2>2
  <2>6. \A T \in D(n + 1) : T # {} => g[T \ {Pick(T)}] = h[T \ {Pick(T)}]
    BY <2>3, <2>5
  <2>7. Good(n + 1, g)
    BY <2>6
  <2>8. g \in [D(n + 1) -> V]
    BY <2>4
  <2> QED
    BY <2>1, <2>7, <2>8
<1> HIDE DEF G
<1>5. Cardinality(S) \in G
  <2> DEFINE Bad == Nat \ G
  <2>1. CASE Bad = {}
    BY <1>1, <2>1
  <2>2. CASE Bad # {}
    <3>1. PICK m \in Bad : \A n \in Bad : m <= n
      BY <2>2, LeastNatural
    <3>2. m # 0 /\ m - 1 \in Nat
      BY <1>3, <3>1
    <3>3. m - 1 \in G
      BY <3>1, <3>2
    <3>4. m - 1 + 1 = m
      BY <3>1
    <3> QED
      BY <1>4, <3>1, <3>3, <3>4
  <2> QED
    BY <2>1, <2>2
<1>6. PICK g \in [D(Cardinality(S)) -> V] : Good(Cardinality(S), g)
  BY <1>5 DEF G
<1>7. D(Cardinality(S)) = SUBSET S
  <2>1. \A T \in SUBSET S : Cardinality(T) <= Cardinality(S)
    BY FS_Subset
  <2> QED
    BY <2>1
<1>8. g \in [SUBSET S -> V] /\ \A T \in SUBSET S : g[T] = Next1(T, g)
  BY <1>6, <1>7
<1>9. IsFold(g, S, base, step)
  BY <1>8 DEF IsFold
<1> QED
  BY <1>8, <1>9

(***************************************************************************)
(* Sums.  SumFunction adds the values of a function one chosen element at  *)
(* a time; the order does not matter.                                      *)
(***************************************************************************)
Sums(g, f, S) == [T \in SUBSET S |-> IF T = {} THEN 0 ELSE f[Pick(T)] + g[T \ {Pick(T)}]]

(* The function that the library chooses is one that adds as it says. *)
LEMMA SumIsFold ==
    ASSUME NEW S, IsFiniteSet(S), NEW f \in [S -> Int]
    PROVE  \E g \in [SUBSET S -> Int] : g = Sums(g, f, S) /\ SumFunction(f) = g[S]
<1> DEFINE it == CHOOSE g : g = Sums(g, f, S)
           step == [e \in S \X Int |-> f[e[1]] + e[2]]
<1>1. SumFunction(f) = it[S]
  <2>1. DOMAIN f = S
    OBVIOUS
  <2> QED
    BY <2>1, Zenon DEF SumFunction, SumFunctionOnSet, FoldFunctionOnSet, MapThenFoldSet, Sums, Pick
<1>2. \E g \in [SUBSET S -> Int] : g = Sums(g, f, S)
  <2>1. step \in [S \X Int -> Int]
    OBVIOUS
  <2>2. PICK g \in [SUBSET S -> Int] : IsFold(g, S, 0, step)
    <3> HIDE DEF step
    <3>1. 0 \in Int
      OBVIOUS
    <3> QED
      BY <2>1, <3>1, FoldExists, Zenon
  <2>3. \A T \in SUBSET S : T # {} => /\ <<Pick(T), g[T \ {Pick(T)}]>> \in S \X Int
                                      /\ step[<<Pick(T), g[T \ {Pick(T)}]>>] = f[Pick(T)] + g[T \ {Pick(T)}]
    BY Picked
  <2>4. \A T \in SUBSET S : g[T] = IF T = {} THEN 0 ELSE f[Pick(T)] + g[T \ {Pick(T)}]
    <3> HIDE DEF step
    <3> QED
      BY <2>2, <2>3 DEF IsFold
  <2> QED
    BY <2>4 DEF Sums
<1>3. it = Sums(it, f, S)
  BY <1>2
<1> HIDE DEF it
<1>4. \A T \in SUBSET S : it[T] = IF T = {} THEN 0 ELSE f[Pick(T)] + it[T \ {Pick(T)}]
  BY <1>3 DEF Sums
<1>5. \A T \in SUBSET S : it[T] \in Int
  <2> DEFINE G == {T \in SUBSET S : it[T] \in Int}
  <2>1. ASSUME NEW T \in SUBSET S, \A x \in T : T \ {x} \in G
        PROVE  T \in G
    <3>1. T # {} => f[Pick(T)] \in Int /\ it[T \ {Pick(T)}] \in Int
      BY <2>1, Picked
    <3>2. it[T] \in Int
      <4>1. CASE T = {}
        <5>1. it[T] = 0
          BY <1>4, <4>1, Zenon
        <5> QED
          BY <5>1
      <4>2. CASE T # {}
        BY <1>4, <3>1, <4>2
      <4> QED
        BY <4>1, <4>2
    <3> QED
      BY <3>2
  <2> HIDE DEF G
  <2>2. \A T \in SUBSET S : T \in G
    BY <2>1, SubsetInduction
  <2> QED
    BY <2>2 DEF G
<1>6. it = [T \in SUBSET S |-> it[T]]
  BY <1>3 DEF Sums
<1> QED
  BY <1>1, <1>3, <1>5, <1>6

(* A part of a sum is the sum of the part. *)
LEMMA SumOfPart ==
    ASSUME NEW S, IsFiniteSet(S), NEW f \in [S -> Int], NEW g \in [SUBSET S -> Int],
           g = Sums(g, f, S)
    PROVE  \A T \in SUBSET S : SumFunction([x \in T |-> f[x]]) = g[T]
<1> TAKE T \in SUBSET S
<1> DEFINE f2 == [x \in T |-> f[x]]
<1>1. IsFiniteSet(T) /\ f2 \in [T -> Int]
  BY FS_Subset
<1> HIDE DEF f2
<1>2. PICK h \in [SUBSET T -> Int] : h = Sums(h, f2, T) /\ SumFunction(f2) = h[T]
  BY <1>1, SumIsFold
<1> DEFINE G == {U \in SUBSET T : h[U] = g[U]}
<1>3. \A U \in SUBSET T : h[U] = IF U = {} THEN 0 ELSE f2[Pick(U)] + h[U \ {Pick(U)}]
  BY <1>2 DEF Sums
<1>4. \A U \in SUBSET S : g[U] = IF U = {} THEN 0 ELSE f[Pick(U)] + g[U \ {Pick(U)}]
  BY DEF Sums
<1>5. \A x \in T : f2[x] = f[x]
  BY DEF f2
<1>6. ASSUME NEW U \in SUBSET T, \A x \in U : U \ {x} \in G
      PROVE  U \in G
  <2>1. CASE U = {}
    BY <1>3, <1>4, <2>1
  <2>2. CASE U # {}
    <3>1. Pick(U) \in U /\ h[U \ {Pick(U)}] = g[U \ {Pick(U)}]
      BY <1>6, <2>2, Picked
    <3>2. h[U] = f2[Pick(U)] + h[U \ {Pick(U)}] /\ g[U] = f[Pick(U)] + g[U \ {Pick(U)}]
      BY <1>3, <1>4, <2>2
    <3> QED
      BY <1>5, <3>1, <3>2
  <2> QED
    BY <2>1, <2>2
<1> HIDE DEF G
<1>7. \A U \in SUBSET T : U \in G
  BY <1>1, <1>6, SubsetInduction
<1>8. T \in G
  BY <1>7
<1> QED
  BY <1>2, <1>8 DEF G, f2

(* Any element may be added last. *)
LEMMA SumFacts ==
    ASSUME NEW S, IsFiniteSet(S), NEW f \in [S -> Int]
    PROVE  /\ SumFunction(f) \in Int
           /\ S = {} => SumFunction(f) = 0
           /\ \A x \in S : SumFunction(f) = f[x] + SumFunction([y \in S \ {x} |-> f[y]])
<1>1. PICK g \in [SUBSET S -> Int] : g = Sums(g, f, S) /\ SumFunction(f) = g[S]
  BY SumIsFold
<1>2. \A T \in SUBSET S : g[T] = IF T = {} THEN 0 ELSE f[Pick(T)] + g[T \ {Pick(T)}]
  BY <1>1 DEF Sums
<1> DEFINE G == {T \in SUBSET S : \A x \in T : g[T] = f[x] + g[T \ {x}]}
<1>3. ASSUME NEW T \in SUBSET S, \A x \in T : T \ {x} \in G
      PROVE  T \in G
  <2>1. ASSUME NEW x \in T PROVE g[T] = f[x] + g[T \ {x}]
    <3> DEFINE c == Pick(T)
    <3>1. c \in T /\ g[T] = f[c] + g[T \ {c}]
      BY <1>2, Picked
    <3>2. CASE x = c
      BY <3>1, <3>2
    <3>3. CASE x # c
      <4>1. T \ {c} \in G /\ T \ {x} \in G
        BY <1>3, <3>1
      <4>2. x \in T \ {c} /\ c \in T \ {x} /\ (T \ {c}) \ {x} = (T \ {x}) \ {c}
        BY <3>1, <3>3
      <4>3. g[T \ {c}] = f[x] + g[(T \ {x}) \ {c}] /\ g[T \ {x}] = f[c] + g[(T \ {x}) \ {c}]
        BY <4>1, <4>2
      <4>4. f[x] \in Int /\ f[c] \in Int /\ g[(T \ {x}) \ {c}] \in Int
        BY <3>1
      <4> HIDE DEF c
      <4> QED
        BY <3>1, <4>3, <4>4
    <3> QED
      BY <3>2, <3>3
  <2> QED
    BY <2>1
<1> HIDE DEF G
<1>4. S \in G
  BY <1>3, SubsetInduction
<1>5. \A x \in S : g[S] = f[x] + g[S \ {x}]
  BY <1>4 DEF G
<1>6. ASSUME NEW x \in S PROVE SumFunction([y \in S \ {x} |-> f[y]]) = g[S \ {x}]
  <2> DEFINE T == S \ {x}
  <2>1. T \in SUBSET S
    OBVIOUS
  <2> HIDE DEF T
  <2>2. SumFunction([y \in T |-> f[y]]) = g[T]
    <3>1. g = Sums(g, f, S)
      BY <1>1
    <3> QED
      BY <2>1, <3>1, SumOfPart
  <2> QED
    BY <2>2 DEF T
<1> QED
  BY <1>1, <1>2, <1>5, <1>6

(* The same, of the restrictions of one function. *)
LEMMA PartsOfSums ==
    ASSUME NEW S, IsFiniteSet(S), NEW f \in [S -> Int]
    PROVE  /\ Restrict(f, S) = f
           /\ SumFunction(Restrict(f, {})) = 0
           /\ \A T \in SUBSET S :
                 /\ IsFiniteSet(T) /\ Restrict(f, T) \in [T -> Int]
                 /\ \A x \in T : Restrict(f, T)[x] = f[x]
                 /\ SumFunction(Restrict(f, T)) \in Int
                 /\ \A x \in T : SumFunction(Restrict(f, T)) = f[x] + SumFunction(Restrict(f, T \ {x}))
<1>1. Restrict(f, S) = f
  BY DEF Restrict
<1>2. ASSUME NEW T \in SUBSET S
      PROVE  /\ IsFiniteSet(T) /\ Restrict(f, T) \in [T -> Int]
             /\ \A x \in T : Restrict(f, T)[x] = f[x]
             /\ SumFunction(Restrict(f, T)) \in Int
             /\ T = {} => SumFunction(Restrict(f, T)) = 0
             /\ \A x \in T : SumFunction(Restrict(f, T)) = f[x] + SumFunction(Restrict(f, T \ {x}))
  <2> DEFINE g == Restrict(f, T)
  <2>1. IsFiniteSet(T) /\ g \in [T -> Int] /\ \A x \in T : g[x] = f[x]
    BY FS_Subset DEF Restrict
  <2>2. \A x \in T : [y \in T \ {x} |-> g[y]] = Restrict(f, T \ {x})
    BY DEF Restrict
  <2> HIDE DEF g
  <2>3. /\ SumFunction(g) \in Int
        /\ T = {} => SumFunction(g) = 0
        /\ \A x \in T : SumFunction(g) = g[x] + SumFunction([y \in T \ {x} |-> g[y]])
    BY <2>1, SumFacts
  <2>4. \A x \in T : SumFunction(g) = f[x] + SumFunction(Restrict(f, T \ {x}))
    BY <2>1, <2>2, <2>3
  <2> QED
    BY <2>1, <2>3, <2>4 DEF g
<1> QED
  BY <1>1, <1>2

(* Sums of terms that are close are as close as all the distances together. *)
LEMMA CloseSums ==
    ASSUME NEW S, IsFiniteSet(S), NEW f \in [S -> Int], NEW g \in [S -> Int], NEW e \in [S -> Int],
           \A x \in S : 10 * f[x] - g[x] <= 5 * e[x] /\ g[x] - 10 * f[x] <= 5 * e[x]
    PROVE  /\ 10 * SumFunction(f) - SumFunction(g) <= 5 * SumFunction(e)
           /\ SumFunction(g) - 10 * SumFunction(f) <= 5 * SumFunction(e)
<1> DEFINE F(T) == SumFunction(Restrict(f, T))
           H(T) == SumFunction(Restrict(g, T))
           E(T) == SumFunction(Restrict(e, T))
           Close(T) == 10 * F(T) - H(T) <= 5 * E(T) /\ H(T) - 10 * F(T) <= 5 * E(T)
           G == {T \in SUBSET S : Close(T)}
<1>1. /\ F(S) = SumFunction(f) /\ H(S) = SumFunction(g) /\ E(S) = SumFunction(e)
      /\ F({}) = 0 /\ H({}) = 0 /\ E({}) = 0
  BY PartsOfSums
<1>2. \A T \in SUBSET S :
        /\ F(T) \in Int /\ H(T) \in Int /\ E(T) \in Int
        /\ \A x \in T : /\ F(T) = f[x] + F(T \ {x}) /\ H(T) = g[x] + H(T \ {x})
                        /\ E(T) = e[x] + E(T \ {x})
  BY PartsOfSums
<1> HIDE DEF F, H, E
<1>3. ASSUME NEW T \in SUBSET S, \A x \in T : T \ {x} \in G
      PROVE  T \in G
  <2>1. CASE T = {}
    BY <1>1, <2>1
  <2>2. CASE T # {}
    <3>1. PICK x \in T : TRUE
      BY <2>2
    <3>2. Close(T \ {x})
      BY <1>3, <3>1
    <3>3. /\ F(T) = f[x] + F(T \ {x}) /\ H(T) = g[x] + H(T \ {x}) /\ E(T) = e[x] + E(T \ {x})
          /\ F(T \ {x}) \in Int /\ H(T \ {x}) \in Int /\ E(T \ {x}) \in Int
      BY <1>2, <3>1
    <3>4. f[x] \in Int /\ g[x] \in Int /\ e[x] \in Int
      BY <3>1
    <3>5. Close(T)
      BY <3>2, <3>3, <3>4
    <3> QED
      BY <3>5
  <2> QED
    BY <2>1, <2>2
<1> HIDE DEF G
<1>4. \A T \in SUBSET S : T \in G
  BY <1>3, SubsetInduction, Zenon
<1> QED
  BY <1>1, <1>4 DEF G

LEMMA SumOfZeros ==
    ASSUME NEW S, IsFiniteSet(S)
    PROVE  SumFunction([x \in S |-> 0]) = 0
<1> DEFINE z == [x \in S |-> 0]
<1>1. z \in [S -> Int] /\ \A x \in S : z[x] = 0
  OBVIOUS
<1> HIDE DEF z
<1>2. SumFunction(z) \in Int
  BY <1>1, SumFacts
<1>3. /\ 10 * SumFunction(z) - SumFunction(z) <= 5 * SumFunction(z)
      /\ SumFunction(z) - 10 * SumFunction(z) <= 5 * SumFunction(z)
  BY <1>1, CloseSums
<1>4. SumFunction(z) = 0
  BY <1>2, <1>3
<1> QED
  BY <1>4 DEF z

(* The cardinality of a set is the sum of one for each element. *)
LEMMA CardinalityIsSum ==
    ASSUME NEW S, IsFiniteSet(S)
    PROVE  Cardinality(S) = SumFunction([x \in S |-> 1])
<1> DEFINE f == [x \in S |-> 1]
           F(T) == SumFunction(Restrict(f, T))
           G == {T \in SUBSET S : Cardinality(T) = F(T)}
<1>1. f \in [S -> Int] /\ \A x \in S : f[x] = 1
  OBVIOUS
<1> HIDE DEF f
<1>2. /\ F(S) = SumFunction(f) /\ F({}) = 0
      /\ \A T \in SUBSET S : IsFiniteSet(T) /\ \A x \in T : F(T) = f[x] + F(T \ {x})
  BY <1>1, PartsOfSums
<1> HIDE DEF F
<1>3. ASSUME NEW T \in SUBSET S, \A x \in T : T \ {x} \in G
      PROVE  T \in G
  <2>1. CASE T = {}
    BY <1>2, <2>1, FS_EmptySet
  <2>2. CASE T # {}
    <3>1. PICK x \in T : TRUE
      BY <2>2
    <3>2. Cardinality(T \ {x}) = F(T \ {x})
      BY <1>3, <3>1
    <3>3. F(T) = 1 + F(T \ {x})
      BY <1>1, <1>2, <3>1
    <3>4. Cardinality(T \ {x}) = Cardinality(T) - 1 /\ Cardinality(T) \in Nat
      BY <1>2, <3>1, FS_RemoveElement, FS_CardinalityType
    <3>5. Cardinality(T) = F(T)
      BY <3>2, <3>3, <3>4
    <3> QED
      BY <3>5
  <2> QED
    BY <2>1, <2>2
<1> HIDE DEF G
<1>4. \A T \in SUBSET S : T \in G
  BY <1>3, SubsetInduction, Zenon
<1>5. S \in G
  BY <1>4
<1> QED
  BY <1>2, <1>5 DEF G, f

(***************************************************************************)
(* GROUP BY: the sum of all is the sum over the keys of the sums of those  *)
(* of each key, and the count of all that of their counts.                 *)
(***************************************************************************)
OfKey(S, key, k) == {x \in S : key[x] = k}

LEMMA SumByKey ==
    ASSUME NEW S, IsFiniteSet(S), NEW K, IsFiniteSet(K), NEW f \in [S -> Int], NEW key \in [S -> K]
    PROVE  /\ \A k \in K : SumFunction(Restrict(f, OfKey(S, key, k))) \in Int
           /\ SumFunction(f) = SumFunction([k \in K |-> SumFunction(Restrict(f, OfKey(S, key, k)))])
<1> DEFINE F(T) == SumFunction(Restrict(f, T))
           By(T) == [k \in K |-> F(OfKey(T, key, k))]
           G == {T \in SUBSET S : F(T) = SumFunction(By(T))}
<1>1. /\ F(S) = SumFunction(f) /\ F({}) = 0
      /\ \A T \in SUBSET S : F(T) \in Int /\ \A x \in T : F(T) = f[x] + F(T \ {x})
  BY PartsOfSums
<1> HIDE DEF F
<1>2. \A T \in SUBSET S, k \in K : OfKey(T, key, k) \in SUBSET S /\ F(OfKey(T, key, k)) \in Int
  BY <1>1 DEF OfKey
<1>3. \A T \in SUBSET S : By(T) \in [K -> Int]
  BY <1>2
<1>4. ASSUME NEW T \in SUBSET S, \A x \in T : T \ {x} \in G
      PROVE  T \in G
  <2>1. CASE T = {}
    <3>1. \A k \in K : OfKey(T, key, k) = {}
      BY <2>1 DEF OfKey
    <3>2. By(T) = [k \in K |-> 0]
      BY <1>1, <3>1
    <3> QED
      BY <1>1, <2>1, <3>2, SumOfZeros
  <2>2. CASE T # {}
    <3>1. PICK x \in T : TRUE
      BY <2>2
    <3> DEFINE U == T \ {x}
               k == key[x]
               b == By(T)
               c == By(U)
    <3>2. F(U) = SumFunction(c) /\ U \in SUBSET S
      BY <1>4, <3>1
    <3>3. k \in K /\ b \in [K -> Int] /\ c \in [K -> Int]
      BY <1>3, <3>1
    <3>4. \A l \in K \ {k} : b[l] = c[l]
      <4>1. \A l \in K \ {k} : OfKey(T, key, l) = OfKey(U, key, l)
        BY <3>1 DEF OfKey
      <4> QED
        BY <4>1
    <3>5. b[k] = f[x] + c[k]
      <4>1. x \in OfKey(T, key, k) /\ OfKey(T, key, k) \ {x} = OfKey(U, key, k)
        BY <3>1 DEF OfKey
      <4>2. F(OfKey(T, key, k)) = f[x] + F(OfKey(U, key, k))
        <5>1. OfKey(T, key, k) \in SUBSET S
          BY <1>2, <3>3
        <5> HIDE DEF k, U
        <5> QED
          BY <1>1, <4>1, <5>1
      <4> QED
        BY <3>3, <4>2
    <3> HIDE DEF k, b, c, U
    <3>6. Restrict(b, K \ {k}) = Restrict(c, K \ {k})
      BY <3>4 DEF Restrict
    <3>7. ASSUME NEW h \in [K -> Int]
          PROVE  /\ SumFunction(h) = h[k] + SumFunction(Restrict(h, K \ {k}))
                 /\ SumFunction(Restrict(h, K \ {k})) \in Int
      <4>1. Restrict(h, K) = h /\ K \in SUBSET K /\ K \ {k} \in SUBSET K
        BY PartsOfSums
      <4>2. SumFunction(Restrict(h, K)) = h[k] + SumFunction(Restrict(h, K \ {k}))
        BY <3>3, <4>1, PartsOfSums
      <4>3. SumFunction(Restrict(h, K \ {k})) \in Int
        BY <3>3, <4>1, PartsOfSums
      <4> QED
        BY <4>1, <4>2, <4>3
    <3>8. /\ SumFunction(b) = b[k] + SumFunction(Restrict(b, K \ {k}))
          /\ SumFunction(c) = c[k] + SumFunction(Restrict(c, K \ {k}))
          /\ SumFunction(Restrict(c, K \ {k})) \in Int
      BY <3>3, <3>7
    <3>9. c[k] \in Int /\ f[x] \in Int
      BY <3>1, <3>3
    <3>10. SumFunction(b) = f[x] + SumFunction(c)
      BY <3>5, <3>6, <3>7, <3>8, <3>9
    <3>11. F(T) = f[x] + F(U)
      BY <1>1, <3>1 DEF U
    <3> QED
      BY <3>2, <3>10, <3>11 DEF b
  <2> QED
    BY <2>1, <2>2
<1> HIDE DEF G
<1>5. S \in G
  BY <1>4, SubsetInduction
<1> QED
  BY <1>1, <1>2, <1>5 DEF G, F

(* The size of a set is that of its groups together. *)
LEMMA CountByKey ==
    ASSUME NEW S, IsFiniteSet(S), NEW K, IsFiniteSet(K), NEW key \in [S -> K]
    PROVE  Cardinality(S) = SumFunction([k \in K |-> Cardinality(OfKey(S, key, k))])
<1> DEFINE ones == [x \in S |-> 1]
<1>1. \A T \in SUBSET S : SumFunction(Restrict(ones, T)) = Cardinality(T)
  <2>1. TAKE T \in SUBSET S
  <2>2. Restrict(ones, T) = [x \in T |-> 1]
    BY DEF Restrict
  <2>3. IsFiniteSet(T)
    BY FS_Subset
  <2> QED
    BY <2>2, <2>3, CardinalityIsSum
<1>2. ones \in [S -> Int] /\ SumFunction(ones) = Cardinality(S)
  BY CardinalityIsSum
<1>3. \A k \in K : OfKey(S, key, k) \in SUBSET S
  BY DEF OfKey
<1>4. [k \in K |-> SumFunction(Restrict(ones, OfKey(S, key, k)))] = [k \in K |-> Cardinality(OfKey(S, key, k))]
  BY <1>1, <1>3
<1> HIDE DEF ones
<1>5. SumFunction(ones) = SumFunction([k \in K |-> SumFunction(Restrict(ones, OfKey(S, key, k)))])
  BY <1>2, SumByKey
<1> QED
  BY <1>2, <1>4, <1>5

(* A function takes no more values than it has arguments. *)
LEMMA ImageFacts ==
    ASSUME NEW S, IsFiniteSet(S), NEW f, DOMAIN f = S, f = [x \in S |-> f[x]]
    PROVE  IsFiniteSet({f[x] : x \in S}) /\ Cardinality({f[x] : x \in S}) <= Cardinality(S)
<1>1. f \in Surjection(S, {f[x] : x \in S})
  <2>1. f \in [S -> {f[x] : x \in S}]
    OBVIOUS
  <2> QED
    BY <2>1 DEF Surjection
<1> QED
  BY <1>1, FS_Surjection

(* A finite set of numbers has a largest. *)
LEMMA MaxFacts ==
    ASSUME NEW S, IsFiniteSet(S), S \subseteq Int, S # {}
    PROVE  Max(S) \in S /\ \A y \in S : Max(S) >= y
<1> DEFINE G == {T \in SUBSET S : T # {} => \E m \in T : \A y \in T : m >= y}
<1>1. ASSUME NEW T \in SUBSET S, \A x \in T : T \ {x} \in G
      PROVE  T \in G
  <2>1. CASE T = {}
    BY <2>1
  <2>2. CASE T # {}
    <3>1. PICK x \in T : TRUE
      BY <2>2
    <3>2. \E m \in T : \A y \in T : m >= y
      <4>1. CASE T \ {x} = {}
        <5>1. \A y \in T : y = x /\ x >= y
          BY <3>1, <4>1
        <5> QED
          BY <3>1, <5>1
      <4>2. CASE T \ {x} # {}
        <5>1. PICK m \in T \ {x} : \A y \in T \ {x} : m >= y
          BY <1>1, <3>1, <4>2
        <5>2. m \in Int /\ x \in Int
          BY <3>1
        <5>3. CASE m >= x
          <6>1. \A y \in T : m >= y
            BY <5>1, <5>3
          <6> QED
            BY <6>1
        <5>4. CASE ~ (m >= x)
          <6>1. \A y \in T : x >= y
            BY <5>1, <5>2, <5>4
          <6> QED
            BY <3>1, <6>1
        <5> QED
          BY <5>3, <5>4
      <4> QED
        BY <4>1, <4>2
    <3> QED
      BY <3>2
  <2> QED
    BY <2>1, <2>2
<1> HIDE DEF G
<1>2. S \in G
  BY <1>1, SubsetInduction
<1>3. \E m \in S : \A y \in S : m >= y
  BY <1>2 DEF G
<1> QED
  BY <1>3 DEF Max

(***************************************************************************)
(* The calendar: a month of a year has DaysPerMonth days.                  *)
(***************************************************************************)
LEMMA Quotient ==
    ASSUME NEW n \in Nat, NEW d \in Nat \ {0}
    PROVE  /\ n \div d \in Nat
           /\ d * (n \div d) <= n
           /\ n < d * (n \div d) + d
OBVIOUS

LEMMA Multiples ==
    ASSUME NEW d \in Nat \ {0}, NEW a \in Nat, NEW b \in Nat, d * a < d * b + d
    PROVE  a <= b
<1> SUFFICES ASSUME b + 1 <= a PROVE FALSE
  OBVIOUS
<1>1. PICK c \in Nat : a = b + 1 + c
  <2>1. a - b - 1 \in Nat /\ a = b + 1 + (a - b - 1)
    OBVIOUS
  <2> QED
    BY <2>1
<1>2. d * a = d * b + d + d * c /\ d * c >= 0 /\ d * c \in Nat /\ d * b \in Nat
  BY <1>1
<1> QED
  BY <1>2

LEMMA MonthFacts ==
    ASSUME NEW day \in Nat
    PROVE  /\ MonthOf(day) \in Months /\ MonthOf(day) # NULL
           /\ YearOf(day) \in Nat
           /\ day \div DaysPerMonth = 12 * (YearOf(day) - FirstYear) + (MonthOf(day) - 1)
<1> DEFINE D == DaysPerMonth
           q == day \div D
           y == q \div 12
           z == day \div (12 * D)
<1>1. D \in Nat \ {0} /\ 12 * D \in Nat \ {0} /\ FirstYear \in Nat
  BY HistoryQueriesAssumption
<1>2. q \in Nat /\ D * q <= day /\ day < D * q + D
  BY <1>1, Quotient
<1> HIDE DEF D, q
<1>3. y \in Nat /\ 12 * y <= q /\ q < 12 * y + 12 /\ q = 12 * y + (q % 12) /\ q % 12 \in 0 .. 11
  BY <1>2
<1>4. z \in Nat /\ (12 * D) * z <= day /\ day < (12 * D) * z + 12 * D
  BY <1>1, Quotient
<1> HIDE DEF y, z
<1>5. y <= z
  <2>1. D * (12 * y) <= D * q
    BY <1>1, <1>2, <1>3
  <2>2. (12 * D) * y = D * (12 * y)
    BY <1>1, <1>3
  <2>3. (12 * D) * y < (12 * D) * z + 12 * D
    BY <1>1, <1>2, <1>3, <1>4, <2>1, <2>2
  <2> QED
    BY <1>1, <1>3, <1>4, <2>3, Multiples
<1>6. z <= y
  <2>1. D * q + D <= (12 * D) * y + 12 * D
    <3>1. q + 1 <= 12 * y + 12
      BY <1>2, <1>3
    <3>2. D * (q + 1) <= D * (12 * y + 12)
      BY <1>1, <1>2, <1>3, <3>1
    <3>3. D * (q + 1) = D * q + D /\ D * (12 * y + 12) = (12 * D) * y + 12 * D
      BY <1>1, <1>2, <1>3
    <3> QED
      BY <3>2, <3>3
  <2>2. (12 * D) * z < (12 * D) * y + 12 * D
    BY <1>1, <1>2, <1>3, <1>4, <2>1
  <2> QED
    BY <1>1, <1>3, <1>4, <2>2, Multiples
<1>7. y = z
  BY <1>3, <1>4, <1>5, <1>6
<1>8. MonthOf(day) = 1 + (q % 12) /\ YearOf(day) = FirstYear + z
  BY DEF MonthOf, YearOf, q, z, D
<1>9. MonthOf(day) \in Int
  BY <1>3, <1>8
<1> QED
  BY <1>1, <1>3, <1>4, <1>7, <1>8, <1>9, EventRowsAssumption DEF Months, q, D

LEMMA DaysOfMonth ==
    ASSUME NEW year \in Nat, NEW m \in Months,
           NEW C, \A c \in C : c \in Nat /\ YearOf(c) = year /\ MonthOf(c) = m
    PROVE  IsFiniteSet(C) /\ Cardinality(C) <= DaysPerMonth
<1> DEFINE D == DaysPerMonth
           q == 12 * (year - FirstYear) + (m - 1)
<1>1. D \in Nat \ {0} /\ FirstYear \in Nat /\ q \in Int /\ m \in Int
  BY HistoryQueriesAssumption DEF Months
<1>2. ASSUME NEW c \in C PROVE c \in D * q .. D * q + D - 1
  <2>1. c \in Nat /\ c \div D = q
    BY MonthFacts
  <2> HIDE DEF q, D
  <2>2. D * q <= c /\ c < D * q + D /\ D * q \in Int
    BY <1>1, <2>1, Quotient
  <2> QED
    BY <1>1, <2>2
<1> HIDE DEF q, D
<1>3. D * q \in Int /\ D * q + D - 1 \in Int
  BY <1>1
<1>4. IsFiniteSet(D * q .. D * q + D - 1) /\ Cardinality(D * q .. D * q + D - 1) = D
  <2> DEFINE a == D * q
             b == D * q + D - 1
  <2>1. a \in Int /\ b \in Int /\ b = a + D - 1
    BY <1>3
  <2> HIDE DEF a, b
  <2>2. IsFiniteSet(a .. b) /\ Cardinality(a .. b) = IF a > b THEN 0 ELSE b - a + 1
    BY <2>1, FS_Interval
  <2>3. Cardinality(a .. b) = D
    BY <1>1, <2>1, <2>2
  <2> QED
    BY <2>2, <2>3 DEF a, b
<1> QED
  BY <1>2, <1>4, FS_Subset DEF D

(* The rows of one version of a source. *)
RowsOfSource(rows, s) ==
    /\ s \in Sources
    /\ IsFiniteSet(DOMAIN rows)
    /\ \A id \in DOMAIN rows : EventRow(rows[id]) /\ rows[id].source = s

LEMMA RowFacts ==
    ASSUME NEW row, EventRow(row)
    PROVE  /\ LocalDay(row.starts_at) \in Nat /\ UtcDay(row.starts_at) \in Nat
           /\ LocalDay(EndOf(row)) \in Nat
           /\ IsFiniteSet(DaysOf(row)) /\ DaysOf(row) \subseteq Nat
           /\ row.severity \in 1 .. 4
           /\ row.source = "ign" => row.hazard_type = "earthquake" /\ row.attrs.magnitude \in Nat
           /\ row.source = "aemet" => row.hazard_type = "weather_warning"
           /\ row.source = "effis" /\ row.attrs.kind = "burnt_area" => row.attrs.area_ha \in Nat
<1>1. /\ row.starts_at \in Nat /\ EndOf(row) \in Nat
      /\ HoursPerDay \in Nat \ {0} /\ LocalOffset \in Nat
  BY HistoryQueriesAssumption DEF EventRow, EndOf
<1>2. row.starts_at + LocalOffset \in Nat /\ EndOf(row) + LocalOffset \in Nat
  BY <1>1
<1>3. LocalDay(row.starts_at) \in Nat /\ UtcDay(row.starts_at) \in Nat /\ LocalDay(EndOf(row)) \in Nat
  BY <1>1, <1>2, Quotient DEF LocalDay, UtcDay
<1>4. IsFiniteSet(DaysOf(row)) /\ DaysOf(row) \subseteq Nat
  <2>1. LocalDay(row.starts_at) \in Int /\ LocalDay(EndOf(row)) \in Int
    BY <1>3
  <2>2. IsFiniteSet(LocalDay(row.starts_at) .. LocalDay(EndOf(row)))
    BY <2>1, FS_Interval
  <2> QED
    BY <1>3, <2>2 DEF DaysOf
<1>5. row.severity \in 1 .. 4
  BY DEF EventRow
<1>6. row.attrs \in Attrs[row.source] /\ row.hazard_type = HazardOf[row.source]
  BY DEF EventRow
<1>7. row.source = "ign" => row.hazard_type = "earthquake" /\ row.attrs.magnitude \in Nat
  BY <1>6 DEF Attrs, HazardOf
<1>8. row.source = "aemet" => row.hazard_type = "weather_warning"
  BY <1>6 DEF HazardOf
<1>9. row.source = "effis" /\ row.attrs.kind = "burnt_area" => row.attrs.area_ha \in Nat
  BY <1>6 DEF Attrs
<1> QED
  BY <1>3, <1>4, <1>5, <1>7, <1>8, <1>9

(***************************************************************************)
(* The cells of the warnings: the days of a year, each with the levels of  *)
(* the warnings that cover it.                                             *)
(***************************************************************************)
CodeIn(row, group) == IF group = "province" THEN row.province_code ELSE NULL

LEMMA CellFacts ==
    ASSUME NEW rows, RowsOfSource(rows, "aemet"), NEW year, NEW zone, NEW group
    PROVE  LET W == WarningsIn(rows, year, zone)
               levels == DayCells(rows, W, year, group)
           IN  /\ IsFiniteSet(DOMAIN levels)
               /\ \A c \in DOMAIN levels :
                     /\ c = <<c[1], c[2]>> /\ c[2] \in Nat /\ YearOf(c[2]) = year
                     /\ group # "province" => c[1] = NULL
                     /\ Max(levels[c]) \in Levels
               /\ \A code, day :
                     <<code, day>> \in DOMAIN levels <=>
                        /\ YearOf(day) = year
                        /\ \E i \in W : CodeIn(rows[i], group) = code /\ day \in DaysOf(rows[i])
               /\ \A code, day :
                     <<code, day>> \in DOMAIN levels =>
                        levels[<<code, day>>] =
                           {rows[i].severity : i \in {j \in W : CodeIn(rows[j], group) = code
                                                                  /\ day \in DaysOf(rows[j])}}
<1> DEFINE W == WarningsIn(rows, year, zone)
           levels == DayCells(rows, W, year, group)
           CellsOf(id) == {<<CodeIn(rows[id], group), day>> : day \in {d \in DaysOf(rows[id]) : YearOf(d) = year}}
           cells == UNION {CellsOf(id) : id \in W}
           Of(cell) == {i \in W : CodeIn(rows[i], group) = cell[1] /\ cell[2] \in DaysOf(rows[i])}
<1>1. levels = [cell \in cells |-> {rows[id].severity : id \in Of(cell)}]
  BY DEF DayCells, CodeIn
<1>2. W \in SUBSET DOMAIN rows /\ \A id \in W : rows[id].severity >= 2
  BY DEF WarningsIn
<1>3. \A id \in W : EventRow(rows[id])
  BY <1>2 DEF RowsOfSource
<1>4. IsFiniteSet(W)
  BY <1>2, FS_Subset DEF RowsOfSource
<1> HIDE DEF W
<1>5. \A id \in W : /\ IsFiniteSet(DaysOf(rows[id])) /\ DaysOf(rows[id]) \subseteq Nat
                    /\ rows[id].severity \in 1 .. 4
  BY <1>3, RowFacts
<1>6. \A id \in W : IsFiniteSet(CellsOf(id))
  <2>1. TAKE id \in W
  <2>2. IsFiniteSet({d \in DaysOf(rows[id]) : YearOf(d) = year})
    BY <1>5, FS_Subset
  <2> DEFINE D == {d \in DaysOf(rows[id]) : YearOf(d) = year}
             f == [d \in D |-> <<CodeIn(rows[id], group), d>>]
  <2>3. {f[d] : d \in D} = CellsOf(id) /\ DOMAIN f = D /\ f = [d \in D |-> f[d]]
    OBVIOUS
  <2> HIDE DEF D, f, CellsOf
  <2>4. IsFiniteSet({f[d] : d \in D})
    BY <2>2, <2>3, ImageFacts DEF D
  <2> QED
    BY <2>3, <2>4
<1>7. IsFiniteSet(cells)
  <2>1. IsFiniteSet({CellsOf(id) : id \in W})
    <3> DEFINE f == [id \in W |-> CellsOf(id)]
    <3>1. {f[id] : id \in W} = {CellsOf(id) : id \in W} /\ DOMAIN f = W /\ f = [id \in W |-> f[id]]
      OBVIOUS
    <3> HIDE DEF f, CellsOf
    <3>2. IsFiniteSet({f[id] : id \in W})
      BY <1>4, <3>1, ImageFacts
    <3> QED
      BY <3>1, <3>2
  <2> QED
    BY <1>6, <2>1, FS_UNION
<1>8. \A code, day : <<code, day>> \in cells <=>
          /\ YearOf(day) = year
          /\ \E i \in W : CodeIn(rows[i], group) = code /\ day \in DaysOf(rows[i])
  OBVIOUS
<1>9. \A c \in cells : c = <<c[1], c[2]>>
  OBVIOUS
<1>10. ASSUME NEW c \in cells
       PROVE  /\ c[2] \in Nat /\ YearOf(c[2]) = year
              /\ group # "province" => c[1] = NULL
              /\ Of(c) # {}
  <2>1. PICK i \in W : CodeIn(rows[i], group) = c[1] /\ c[2] \in DaysOf(rows[i]) /\ YearOf(c[2]) = year
    BY <1>8, <1>9
  <2> QED
    BY <1>5, <2>1 DEF CodeIn
<1>11. ASSUME NEW c \in cells PROVE Max({rows[id].severity : id \in Of(c)}) \in Levels
  <2> DEFINE S == {rows[id].severity : id \in Of(c)}
  <2>1. S # {} /\ S \subseteq 2 .. 4
    BY <1>2, <1>5, <1>10
  <2>2. IsFiniteSet(S)
    <3>1. IsFiniteSet(Of(c))
      BY <1>4, FS_Subset
    <3> DEFINE f == [id \in Of(c) |-> rows[id].severity]
    <3>2. {f[id] : id \in Of(c)} = S /\ DOMAIN f = Of(c) /\ f = [id \in Of(c) |-> f[id]]
      OBVIOUS
    <3> HIDE DEF f, S, Of
    <3>3. IsFiniteSet({f[id] : id \in Of(c)})
      BY <3>1, <3>2, ImageFacts
    <3> QED
      BY <3>2, <3>3
  <2> HIDE DEF S
  <2>3. Max(S) \in S
    <3>1. S \subseteq Int
      BY <2>1
    <3> QED
      BY <2>1, <2>2, <3>1, MaxFacts
  <2> QED
    BY <2>1, <2>3 DEF Levels, S
<1>12. DOMAIN levels = cells /\ \A c \in cells : levels[c] = {rows[id].severity : id \in Of(c)}
  BY <1>1
<1>13. \A code, day : Of(<<code, day>>) =
          {j \in W : CodeIn(rows[j], group) = code /\ day \in DaysOf(rows[j])}
  OBVIOUS
<1> HIDE DEF levels, cells, Of
<1>14. \A c \in DOMAIN levels :
          /\ c = <<c[1], c[2]>> /\ c[2] \in Nat /\ YearOf(c[2]) = year
          /\ group # "province" => c[1] = NULL
          /\ Max(levels[c]) \in Levels
  BY <1>9, <1>10, <1>11, <1>12
<1>15. \A code, day : <<code, day>> \in DOMAIN levels =>
          levels[<<code, day>>] =
             {rows[i].severity : i \in {j \in W : CodeIn(rows[j], group) = code /\ day \in DaysOf(rows[j])}}
  BY <1>12, <1>13
<1>16. /\ IsFiniteSet(DOMAIN levels)
       /\ \A code, day : <<code, day>> \in DOMAIN levels <=>
             /\ YearOf(day) = year
             /\ \E i \in W : CodeIn(rows[i], group) = code /\ day \in DaysOf(rows[i])
  BY <1>7, <1>8, <1>12
<1> QED
  BY <1>14, <1>15, <1>16 DEF levels, W

(* What Metrics gives of the days, whether the key has cells or not. *)
DaysAt(days, k) == IF k \in DOMAIN days THEN days[k] ELSE [level \in Levels |-> 0]

CellsAt(levels, group, k) == {c \in DOMAIN levels : CellKey(c, group) = k}

LEMMA DaysAtFacts ==
    ASSUME NEW rows, NEW year, NEW group, NEW zone, NEW k, k # NULL
    PROVE  LET levels == DayCells(rows, WarningsIn(rows, year, zone), year, group)
           IN  DaysAt(WarningDays(rows, year, group, zone), k) =
                 [level \in Levels |->
                     Cardinality({c \in CellsAt(levels, group, k) : level = Max(levels[c])})]
<1> DEFINE levels == DayCells(rows, WarningsIn(rows, year, zone), year, group)
           days == WarningDays(rows, year, group, zone)
           keys == {CellKey(c, group) : c \in DOMAIN levels} \ {NULL}
           Of(l, level) == {c \in DOMAIN levels : CellKey(c, group) = l /\ level = Max(levels[c])}
<1>1. days = [l \in keys |-> [level \in Levels |-> Cardinality(Of(l, level))]]
  BY DEF WarningDays
<1>2. \A level : {c \in CellsAt(levels, group, k) : level = Max(levels[c])} = Of(k, level)
  BY DEF CellsAt
<1> HIDE DEF levels, days
<1>3. CASE k \in keys
  <2> HIDE DEF keys, Of
  <2>1. k \in DOMAIN days /\ days[k] = [level \in Levels |-> Cardinality(Of(k, level))]
    BY <1>1, <1>3
  <2>2. DaysAt(days, k) = [level \in Levels |-> Cardinality(Of(k, level))]
    BY <2>1 DEF DaysAt
  <2> QED
    BY <1>2, <2>2 DEF levels, days
<1>4. CASE k \notin keys
  <2>1. \A level : Of(k, level) = {}
    BY <1>4
  <2>2. \A level : Cardinality(Of(k, level)) = 0
    BY <2>1, FS_EmptySet
  <2>3. DOMAIN days = keys
    BY <1>1
  <2> QED
    BY <1>2, <1>4, <2>2, <2>3 DEF DaysAt, levels, days
<1> QED
  BY <1>3, <1>4

SnapshotsKnown(snapshots) == \A s \in DOMAIN snapshots : RowsOfSource(snapshots[s], s)

LEMMA SnapshotRows ==
    ASSUME NEW snapshots, SnapshotsKnown(snapshots), NEW s \in Sources
    PROVE  RowsOfSource(RowsOf(snapshots, s), s)
<1>1. CASE s \in DOMAIN snapshots
  BY <1>1 DEF SnapshotsKnown, RowsOf
<1>2. CASE s \notin DOMAIN snapshots
  <2>1. RowsOf(snapshots, s) = NoRows /\ DOMAIN NoRows = {}
    BY <1>2 DEF RowsOf, NoRows
  <2> QED
    BY <2>1, FS_EmptySet DEF RowsOfSource
<1> QED
  BY <1>1, <1>2

LEMMA MonthlyFacts ==
    ASSUME NEW snapshots, NEW year, NEW zone, NEW m \in Months
    PROVE  LET row == ZoneMonthly(snapshots, year, zone).rows[m]
               quakes == Earthquakes(RowsOf(snapshots, "ign"), year, "month", zone)
               fires == BurntAreas(RowsOf(snapshots, "effis"), year, "month", zone)
           IN  /\ row.warning_days = DaysAt(WarningDays(RowsOf(snapshots, "aemet"), year, "month", zone), m)
               /\ row.earthquakes = IF m \in DOMAIN quakes THEN quakes[m].count ELSE 0
               /\ row.max_magnitude = IF m \in DOMAIN quakes THEN quakes[m].max_magnitude ELSE NULL
               /\ row.burnt_areas = IF m \in DOMAIN fires THEN fires[m].count ELSE 0
               /\ row.burned_area_ha = IF m \in DOMAIN fires THEN fires[m].area ELSE 0
BY DEF ZoneMonthly, MetricsBy, Metrics, DaysAt

(* A day of a month has one level, the highest of its warnings. *)
LEMMA DayCountsOnce ==
    ASSUME NEW rows, RowsOfSource(rows, "aemet"), NEW year \in Nat, NEW zone, NEW m \in Months
    PROVE  SumFunction(DaysAt(WarningDays(rows, year, "month", zone), m)) <= DaysPerMonth
<1> DEFINE levels == DayCells(rows, WarningsIn(rows, year, zone), year, "month")
           C == CellsAt(levels, "month", m)
           top == [c \in C |-> Max(levels[c])]
<1>1. m # NULL
  BY EventRowsAssumption DEF Months
<1>2. DaysAt(WarningDays(rows, year, "month", zone), m) =
        [level \in Levels |-> Cardinality({c \in C : level = Max(levels[c])})]
  BY <1>1, DaysAtFacts
<1>3. /\ IsFiniteSet(DOMAIN levels)
      /\ \A c \in DOMAIN levels : /\ c = <<c[1], c[2]>> /\ c[2] \in Nat /\ YearOf(c[2]) = year
                                  /\ c[1] = NULL /\ Max(levels[c]) \in Levels
  BY CellFacts
<1> HIDE DEF levels
<1>4. C \subseteq DOMAIN levels /\ IsFiniteSet(C) /\ \A c \in C : MonthOf(c[2]) = m
  BY <1>3, FS_Subset DEF CellsAt, CellKey
<1>5. top \in [C -> Levels]
  BY <1>3, <1>4
<1>6. \A level \in Levels : OfKey(C, top, level) = {c \in C : level = Max(levels[c])}
  BY DEF OfKey
<1> HIDE DEF C, top
<1>7. IsFiniteSet(Levels)
  <2>1. 2 \in Int /\ 4 \in Int
    OBVIOUS
  <2> QED
    BY <2>1, FS_Interval, Zenon DEF Levels
<1>8. Cardinality(C) = SumFunction([level \in Levels |-> Cardinality(OfKey(C, top, level))])
  BY <1>4, <1>5, <1>7, CountByKey
<1>9. [level \in Levels |-> Cardinality(OfKey(C, top, level))] =
        [level \in Levels |-> Cardinality({c \in C : level = Max(levels[c])})]
  BY <1>6
<1>10. Cardinality(C) <= DaysPerMonth
  <2> DEFINE days == {c[2] : c \in C}
             f == [d \in days |-> <<NULL, d>>]
  <2>1. \A d \in days : d \in Nat /\ YearOf(d) = year /\ MonthOf(d) = m
    BY <1>3, <1>4
  <2>2. {f[d] : d \in days} = C
    <3>1. \A c \in C : c = <<NULL, c[2]>>
      BY <1>3, <1>4
    <3>2. \A c \in C : c \in {f[d] : d \in days}
      BY <3>1
    <3>3. \A d \in days : f[d] \in C
      BY <3>1
    <3> QED
      BY <3>2, <3>3
  <2>3. DOMAIN f = days /\ f = [d \in days |-> f[d]]
    OBVIOUS
  <2> HIDE DEF days, f
  <2>4. IsFiniteSet(days) /\ Cardinality(days) <= DaysPerMonth
    BY <2>1, DaysOfMonth
  <2>5. Cardinality(C) <= Cardinality(days) /\ Cardinality(C) \in Nat /\ Cardinality(days) \in Nat
    BY <1>4, <2>2, <2>3, <2>4, ImageFacts, FS_CardinalityType
  <2> QED
    BY <2>4, <2>5, HistoryQueriesAssumption
<1> QED
  BY <1>2, <1>8, <1>9, <1>10

LEMMA SameSize ==
    ASSUME NEW S, IsFiniteSet(S), NEW T, NEW f \in [S -> T], NEW g \in [T -> S],
           \A y \in T : f[g[y]] = y, \A x \in S : g[f[x]] = x
    PROVE  IsFiniteSet(T) /\ Cardinality(S) = Cardinality(T)
<1>1. f \in Surjection(S, T)
  <2>1. \A y \in T : g[y] \in S /\ f[g[y]] = y
    OBVIOUS
  <2> QED
    BY <2>1 DEF Surjection
<1>2. f \in Injection(S, T)
  <2>1. \A a, b \in S : f[a] = f[b] => a = b
    OBVIOUS
  <2> QED
    BY <2>1 DEF Injection, IsInjective
<1> QED
  BY <1>1, <1>2, FS_Surjection

LEMMA MonthsFinite == IsFiniteSet(Months)
<1>1. 1 \in Int /\ 12 \in Int
  OBVIOUS
<1> QED
  BY <1>1, FS_Interval, Zenon DEF Months

LEMMA ZoneFacts ==
    ASSUME NEW code \in Provinces
    PROVE  \A row : /\ InZone(row, Everywhere)
                    /\ InZone(row, ProvinceZone(code)) <=> row.province_code = code
BY EventRowsAssumption DEF InZone, Everywhere, ProvinceZone, Given

(* The warning days of a year are those of its months. *)
LEMMA YearOfDays ==
    ASSUME NEW rows, RowsOfSource(rows, "aemet"), NEW year \in Nat, NEW code \in Provinces,
           NEW level \in Levels
    PROVE  DaysAt(WarningDays(rows, year, "province", Everywhere), code)[level] =
             SumFunction([m \in Months |->
                 DaysAt(WarningDays(rows, year, "month", ProvinceZone(code)), m)[level]])
<1> DEFINE WP == WarningsIn(rows, year, Everywhere)
           WM == WarningsIn(rows, year, ProvinceZone(code))
           LP == DayCells(rows, WP, year, "province")
           LM == DayCells(rows, WM, year, "month")
           P == {c \in CellsAt(LP, "province", code) : level = Max(LP[c])}
           M == {c \in DOMAIN LM : level = Max(LM[c])}
           month == [c \in M |-> MonthOf(c[2])]
<1>1. code # NULL /\ \A m \in Months : m # NULL
  BY EventRowsAssumption DEF Months
<1>2. DaysAt(WarningDays(rows, year, "province", Everywhere), code)[level] = Cardinality(P)
  BY <1>1, DaysAtFacts
<1>3. \A m \in Months : DaysAt(WarningDays(rows, year, "month", ProvinceZone(code)), m)[level]
         = Cardinality({c \in CellsAt(LM, "month", m) : level = Max(LM[c])})
  BY <1>1, DaysAtFacts
<1>4. WM = {i \in WP : rows[i].province_code = code}
  BY ZoneFacts DEF WarningsIn
<1>5. /\ IsFiniteSet(DOMAIN LP)
      /\ \A c \in DOMAIN LP : c = <<c[1], c[2]>> /\ c[2] \in Nat
      /\ \A day : <<code, day>> \in DOMAIN LP <=>
            /\ YearOf(day) = year
            /\ \E i \in WP : CodeIn(rows[i], "province") = code /\ day \in DaysOf(rows[i])
      /\ \A day : <<code, day>> \in DOMAIN LP =>
            LP[<<code, day>>] =
               {rows[i].severity : i \in {j \in WP : CodeIn(rows[j], "province") = code
                                                       /\ day \in DaysOf(rows[j])}}
  BY CellFacts
<1>6. /\ IsFiniteSet(DOMAIN LM)
      /\ \A c \in DOMAIN LM : c = <<c[1], c[2]>> /\ c[2] \in Nat /\ c[1] = NULL
      /\ \A day : <<NULL, day>> \in DOMAIN LM <=>
            /\ YearOf(day) = year
            /\ \E i \in WM : CodeIn(rows[i], "month") = NULL /\ day \in DaysOf(rows[i])
      /\ \A day : <<NULL, day>> \in DOMAIN LM =>
            LM[<<NULL, day>>] =
               {rows[i].severity : i \in {j \in WM : CodeIn(rows[j], "month") = NULL
                                                       /\ day \in DaysOf(rows[j])}}
  BY CellFacts
<1> HIDE DEF LP, LM, WP
<1>7. \A day : /\ <<code, day>> \in DOMAIN LP <=> <<NULL, day>> \in DOMAIN LM
               /\ <<code, day>> \in DOMAIN LP => LP[<<code, day>>] = LM[<<NULL, day>>]
  <2>1. TAKE day
  <2>2. {j \in WP : CodeIn(rows[j], "province") = code /\ day \in DaysOf(rows[j])}
           = {j \in WM : CodeIn(rows[j], "month") = NULL /\ day \in DaysOf(rows[j])}
    BY <1>4 DEF CodeIn
  <2>3. <<code, day>> \in DOMAIN LP <=> <<NULL, day>> \in DOMAIN LM
    BY <1>4, <1>5, <1>6 DEF CodeIn
  <2> QED
    BY <1>5, <1>6, <2>2, <2>3
<1>8. Cardinality(P) = Cardinality(M) /\ IsFiniteSet(M)
  <2> DEFINE f == [c \in M |-> <<code, c[2]>>]
             g == [c \in P |-> <<NULL, c[2]>>]
  <2>1. M \subseteq DOMAIN LM /\ IsFiniteSet(M)
    BY <1>6, FS_Subset
  <2>2. \A c \in M : c = <<NULL, c[2]>> /\ <<code, c[2]>> \in P
    <3>1. TAKE c \in M
    <3>2. c = <<NULL, c[2]>> /\ c \in DOMAIN LM /\ level = Max(LM[c])
      BY <1>6, <2>1
    <3>3. <<code, c[2]>> \in DOMAIN LP /\ LP[<<code, c[2]>>] = LM[c]
      BY <1>7, <3>2
    <3> QED
      BY <3>2, <3>3 DEF CellsAt, CellKey
  <2>3. \A c \in P : c = <<code, c[2]>> /\ <<NULL, c[2]>> \in M
    <3>1. TAKE c \in P
    <3>2. c \in DOMAIN LP /\ c[1] = code /\ level = Max(LP[c])
      BY DEF CellsAt, CellKey
    <3>3. c = <<code, c[2]>>
      BY <1>5, <3>2
    <3>4. <<NULL, c[2]>> \in DOMAIN LM /\ LP[c] = LM[<<NULL, c[2]>>]
      BY <1>7, <3>2, <3>3
    <3> QED
      BY <3>2, <3>3, <3>4
  <2> HIDE DEF M, P
  <2>4. f \in [M -> P] /\ g \in [P -> M]
    BY <2>2, <2>3
  <2>5. \A y \in P : f[g[y]] = y
    BY <2>3
  <2>6. \A x \in M : g[f[x]] = x
    BY <2>2
  <2> HIDE DEF f, g
  <2> QED
    BY <2>1, <2>4, <2>5, <2>6, SameSize
<1>9. month \in [M -> Months]
  BY <1>6, MonthFacts
<1>10. \A m \in Months : OfKey(M, month, m) = {c \in CellsAt(LM, "month", m) : level = Max(LM[c])}
  BY DEF OfKey, CellsAt, CellKey
<1> HIDE DEF M, month, P
<1>11. Cardinality(M) = SumFunction([m \in Months |-> Cardinality(OfKey(M, month, m))])
  BY <1>8, <1>9, MonthsFinite, CountByKey
<1>12. [m \in Months |-> Cardinality(OfKey(M, month, m))] =
         [m \in Months |-> DaysAt(WarningDays(rows, year, "month", ProvinceZone(code)), m)[level]]
  BY <1>3, <1>10
<1> QED
  BY <1>2, <1>8, <1>11, <1>12

(* The rows of a group: Grouped has a key for those that are not empty. *)
InGroup(rows, S, year, group, zone, k) ==
    {id \in S : /\ YearOf(LocalDay(rows[id].starts_at)) = year
                /\ InZone(rows[id], zone)
                /\ GroupKey(rows[id], group) = k}

LEMMA GroupedFacts ==
    ASSUME NEW rows, NEW S, NEW year, NEW group, NEW zone, NEW k, k # NULL
    PROVE  LET ids == Grouped(rows, S, year, group, zone)
               ofKey == InGroup(rows, S, year, group, zone, k)
           IN  /\ k \in DOMAIN ids <=> ofKey # {}
               /\ k \in DOMAIN ids => ids[k] = ofKey
<1> DEFINE chosen == {id \in S : /\ YearOf(LocalDay(rows[id].starts_at)) = year
                                 /\ InZone(rows[id], zone)}
           keys == {GroupKey(rows[id], group) : id \in chosen} \ {NULL}
           ids == Grouped(rows, S, year, group, zone)
<1>1. ids = [l \in keys |-> {id \in chosen : GroupKey(rows[id], group) = l}]
  BY DEF Grouped
<1>2. InGroup(rows, S, year, group, zone, k) = {id \in chosen : GroupKey(rows[id], group) = k}
  BY DEF InGroup
<1>3. k \in keys <=> {id \in chosen : GroupKey(rows[id], group) = k} # {}
  OBVIOUS
<1> QED
  BY <1>1, <1>2, <1>3

Magnitudes(rows, ids) == {rows[id].attrs.magnitude : id \in ids}

Hectares(rows, ids) == [id \in ids |-> rows[id].attrs.area_ha]

LEMMA QuakesAt ==
    ASSUME NEW rows, NEW year, NEW group, NEW zone, NEW k, k # NULL
    PROVE  LET quakes == Earthquakes(rows, year, group, zone)
               ids == InGroup(rows, Quakes(rows), year, group, zone, k)
           IN  /\ (IF k \in DOMAIN quakes THEN quakes[k].count ELSE 0) = Cardinality(ids)
               /\ (IF k \in DOMAIN quakes THEN quakes[k].max_magnitude ELSE NULL)
                     = IF ids = {} THEN NULL ELSE Max(Magnitudes(rows, ids))
<1> DEFINE ids == Grouped(rows, Quakes(rows), year, group, zone)
           quakes == Earthquakes(rows, year, group, zone)
           At == InGroup(rows, Quakes(rows), year, group, zone, k)
<1>1. quakes = [l \in DOMAIN ids |-> [count |-> Cardinality(ids[l]),
                                      max_magnitude |-> Max(Magnitudes(rows, ids[l]))]]
  BY DEF Earthquakes, Magnitudes
<1>2. /\ k \in DOMAIN ids <=> At # {}
      /\ k \in DOMAIN ids => ids[k] = At
  BY GroupedFacts
<1> HIDE DEF ids, quakes, At
<1>3. CASE At = {}
  BY <1>1, <1>2, <1>3, FS_EmptySet DEF quakes, At
<1>4. CASE At # {}
  <2>1. k \in DOMAIN quakes /\ quakes[k] = [count |-> Cardinality(At), max_magnitude |-> Max(Magnitudes(rows, At))]
    BY <1>1, <1>2, <1>4
  <2> QED
    BY <1>4, <2>1 DEF quakes, At
<1> QED
  BY <1>3, <1>4

LEMMA FiresAt ==
    ASSUME NEW rows, RowsOfSource(rows, "effis"), NEW year, NEW group, NEW zone, NEW k, k # NULL
    PROVE  LET fires == BurntAreas(rows, year, group, zone)
               ids == InGroup(rows, BurntAreasOf(rows), year, group, zone, k)
           IN  /\ (IF k \in DOMAIN fires THEN fires[k].count ELSE 0) = Cardinality(ids)
               /\ (IF k \in DOMAIN fires THEN fires[k].area ELSE 0) = Rounded(SumFunction(Hectares(rows, ids)))
<1> DEFINE ids == Grouped(rows, BurntAreasOf(rows), year, group, zone)
           fires == BurntAreas(rows, year, group, zone)
           At == InGroup(rows, BurntAreasOf(rows), year, group, zone, k)
<1>1. fires = [l \in DOMAIN ids |-> [count |-> Cardinality(ids[l]),
                                     area |-> Rounded(SumFunction(Hectares(rows, ids[l])))]]
  BY DEF BurntAreas, Hectares
<1>2. /\ k \in DOMAIN ids <=> At # {}
      /\ k \in DOMAIN ids => ids[k] = At
  BY GroupedFacts
<1> HIDE DEF ids, fires, At
<1>3. CASE At = {}
  <2>1. SumFunction(Hectares(rows, At)) = 0
    <3>1. Hectares(rows, At) \in [At -> Int]
      BY <1>3 DEF Hectares
    <3> QED
      BY <1>3, <3>1, FS_EmptySet, SumFacts
  <2>2. Rounded(0) = 0
    BY DEF Rounded
  <2> QED
    BY <1>1, <1>2, <1>3, <2>1, <2>2, FS_EmptySet DEF fires, At
<1>4. CASE At # {}
  <2>1. k \in DOMAIN fires /\ fires[k] = [count |-> Cardinality(At), area |-> Rounded(SumFunction(Hectares(rows, At)))]
    BY <1>1, <1>2, <1>4
  <2> QED
    BY <1>4, <2>1 DEF fires, At
<1> QED
  BY <1>3, <1>4

(***************************************************************************)
(* The groups by month of a province are those of its group by province.   *)
(***************************************************************************)
MonthIn(rows, S) == [id \in S |-> MonthOf(LocalDay(rows[id].starts_at))]

LEMMA MonthsOfProvince ==
    ASSUME NEW rows, NEW s, RowsOfSource(rows, s), NEW S \in SUBSET DOMAIN rows, NEW year,
           NEW code \in Provinces
    PROVE  LET X == InGroup(rows, S, year, "province", Everywhere, code)
           IN  /\ IsFiniteSet(X) /\ X \in SUBSET S
               /\ MonthIn(rows, X) \in [X -> Months]
               /\ \A m \in Months : InGroup(rows, S, year, "month", ProvinceZone(code), m)
                                       = OfKey(X, MonthIn(rows, X), m)
<1> DEFINE X == InGroup(rows, S, year, "province", Everywhere, code)
<1>1. X = {id \in S : YearOf(LocalDay(rows[id].starts_at)) = year /\ rows[id].province_code = code}
  BY ZoneFacts DEF InGroup, GroupKey
<1>2. \A m : InGroup(rows, S, year, "month", ProvinceZone(code), m)
         = {id \in S : /\ YearOf(LocalDay(rows[id].starts_at)) = year /\ rows[id].province_code = code
                       /\ MonthOf(LocalDay(rows[id].starts_at)) = m}
  BY ZoneFacts DEF InGroup, GroupKey
<1> HIDE DEF X
<1>3. X \in SUBSET S /\ IsFiniteSet(X)
  BY <1>1, FS_Subset DEF RowsOfSource
<1>4. \A id \in X : MonthOf(LocalDay(rows[id].starts_at)) \in Months
  BY <1>3, RowFacts, MonthFacts DEF RowsOfSource
<1>5. MonthIn(rows, X) \in [X -> Months]
  BY <1>4 DEF MonthIn
<1>6. \A m \in Months : OfKey(X, MonthIn(rows, X), m) = {id \in X : MonthOf(LocalDay(rows[id].starts_at)) = m}
  BY DEF OfKey, MonthIn
<1>7. \A m \in Months : InGroup(rows, S, year, "month", ProvinceZone(code), m) = OfKey(X, MonthIn(rows, X), m)
  BY <1>1, <1>2, <1>6
<1> QED
  BY <1>3, <1>5, <1>7 DEF X

(* A sum is rounded by a half at most. *)
LEMMA RoundedFacts ==
    ASSUME NEW n \in Nat
    PROVE  /\ Rounded(n) \in Nat
           /\ 10 * Rounded(n) - n <= 5 /\ n - 10 * Rounded(n) <= 5
           /\ Rounded(0) = 0
BY DEF Rounded

(* The earthquakes and the burnt areas of a year are those of its months. *)
LEMMA YearOfCounts ==
    ASSUME NEW rows, NEW s, RowsOfSource(rows, s), NEW S \in SUBSET DOMAIN rows, NEW year,
           NEW code \in Provinces
    PROVE  Cardinality(InGroup(rows, S, year, "province", Everywhere, code)) =
             SumFunction([m \in Months |->
                 Cardinality(InGroup(rows, S, year, "month", ProvinceZone(code), m))])
<1> DEFINE X == InGroup(rows, S, year, "province", Everywhere, code)
           key == MonthIn(rows, X)
<1>1. LET X_ == InGroup(rows, S, year, "province", Everywhere, code)
      IN  /\ IsFiniteSet(X_) /\ X_ \in SUBSET S
          /\ MonthIn(rows, X_) \in [X_ -> Months]
          /\ \A m \in Months : InGroup(rows, S, year, "month", ProvinceZone(code), m)
                                  = OfKey(X_, MonthIn(rows, X_), m)
  BY MonthsOfProvince
<1>2. /\ IsFiniteSet(X) /\ key \in [X -> Months]
      /\ \A m \in Months : InGroup(rows, S, year, "month", ProvinceZone(code), m) = OfKey(X, key, m)
  BY <1>1
<1> HIDE DEF X, key
<1>3. Cardinality(X) = SumFunction([m \in Months |-> Cardinality(OfKey(X, key, m))])
  BY <1>2, MonthsFinite, CountByKey
<1>4. [m \in Months |-> Cardinality(OfKey(X, key, m))] =
        [m \in Months |-> Cardinality(InGroup(rows, S, year, "month", ProvinceZone(code), m))]
  BY <1>2
<1> QED
  BY <1>3, <1>4 DEF X

(* The greatest of a set is the greatest of the greatest of its parts. *)
TopOf(S, value) == IF S = {} THEN NULL ELSE Max({value[x] : x \in S})

TopsOf(S, K, key, value) == {TopOf(OfKey(S, key, k), value) : k \in K} \ {NULL}

LEMMA TopOfParts ==
    ASSUME NEW S, IsFiniteSet(S), NEW K, IsFiniteSet(K), NEW key \in [S -> K],
           NEW value \in [S -> Int]
    PROVE  TopOf(S, value) = IF TopsOf(S, K, key, value) = {} THEN NULL ELSE Max(TopsOf(S, K, key, value))
<1> DEFINE Values(T) == {value[x] : x \in T}
           Tops == TopsOf(S, K, key, value)
<1>1. \A T \in SUBSET S : T # {} =>
         /\ Max(Values(T)) \in Values(T) /\ \A y \in Values(T) : Max(Values(T)) >= y
         /\ Values(T) \subseteq Int
  <2>1. TAKE T \in SUBSET S
  <2>2. HAVE T # {}
  <2>3. IsFiniteSet(Values(T))
    <3> DEFINE f == [x \in T |-> value[x]]
    <3>1. IsFiniteSet(T)
      BY FS_Subset
    <3>2. {f[x] : x \in T} = Values(T) /\ DOMAIN f = T /\ f = [x \in T |-> f[x]]
      OBVIOUS
    <3> HIDE DEF f, Values
    <3>3. IsFiniteSet({f[x] : x \in T})
      BY <3>1, <3>2, ImageFacts
    <3> QED
      BY <3>2, <3>3
  <2>4. Values(T) \subseteq Int /\ Values(T) # {}
    BY <2>2
  <2> HIDE DEF Values
  <2> QED
    BY <2>3, <2>4, MaxFacts
<1>2. \A k \in K : OfKey(S, key, k) \in SUBSET S
  BY DEF OfKey
<1>3. \A n \in Int : n # NULL
  BY EventRowsAssumption
<1>4. CASE S = {}
  <2>1. \A k \in K : TopOf(OfKey(S, key, k), value) = NULL
    BY <1>2, <1>4 DEF TopOf
  <2>2. Tops = {}
    BY <2>1 DEF TopsOf
  <2> QED
    BY <1>4, <2>2 DEF TopOf
<1>5. CASE S # {}
  <2> DEFINE top == Max(Values(S))
  <2>1. PICK x \in S : value[x] = top
    BY <1>1, <1>5
  <2>2. \A y \in S : top >= value[y] /\ value[y] \in Int
    BY <1>1, <1>5
  <2>3. \A t \in Tops : t \in Int /\ top >= t
    <3>1. TAKE t \in Tops
    <3>2. PICK k \in K : t = TopOf(OfKey(S, key, k), value) /\ OfKey(S, key, k) # {}
      BY DEF TopOf, TopsOf
    <3>3. t = Max(Values(OfKey(S, key, k)))
      BY <3>2 DEF TopOf
    <3>4. t \in Values(OfKey(S, key, k))
      BY <1>1, <1>2, <3>2, <3>3
    <3>5. PICK y \in OfKey(S, key, k) : t = value[y]
      BY <3>4
    <3> QED
      BY <1>2, <2>2, <3>5
  <2>4. top \in Tops
    <3>1. x \in OfKey(S, key, key[x]) /\ key[x] \in K
      BY DEF OfKey
    <3> DEFINE t == Max(Values(OfKey(S, key, key[x])))
    <3>2. t = TopOf(OfKey(S, key, key[x]), value)
      BY <3>1 DEF TopOf
    <3>3. t \in Int /\ t >= value[x]
      BY <1>1, <1>2, <3>1
    <3>4. t \in Tops
      BY <1>3, <3>1, <3>2, <3>3 DEF TopsOf
    <3>5. top >= t
      BY <2>3, <3>4
    <3> HIDE DEF top, t, Tops
    <3> QED
      BY <2>1, <2>2, <3>3, <3>4, <3>5
  <2>5. IsFiniteSet(Tops)
    <3> DEFINE f == [k \in K |-> TopOf(OfKey(S, key, k), value)]
    <3>1. Tops \in SUBSET {f[k] : k \in K} /\ DOMAIN f = K /\ f = [k \in K |-> f[k]]
      BY DEF TopsOf
    <3> HIDE DEF f, Tops
    <3>2. IsFiniteSet({f[k] : k \in K})
      BY <3>1, ImageFacts
    <3> QED
      BY <3>1, <3>2, FS_Subset
  <2> HIDE DEF Tops, top
  <2>6. Max(Tops) \in Tops /\ \A t \in Tops : Max(Tops) >= t
    BY <2>3, <2>4, <2>5, MaxFacts
  <2>7. Max(Tops) = top
    BY <2>3, <2>4, <2>6
  <2>8. TopOf(S, value) = top
    BY <1>5 DEF TopOf, top
  <2> QED
    BY <2>4, <2>7, <2>8 DEF Tops
<1> QED
  BY <1>4, <1>5

(* The greatest magnitude of a year is the greatest of its months'. *)
LEMMA YearOfMagnitudes ==
    ASSUME NEW rows, RowsOfSource(rows, "ign"), NEW year, NEW code \in Provinces
    PROVE  LET Top(ids) == IF ids = {} THEN NULL ELSE Max(Magnitudes(rows, ids))
               Of(m) == InGroup(rows, Quakes(rows), year, "month", ProvinceZone(code), m)
               Tops == {Top(Of(m)) : m \in Months} \ {NULL}
           IN  Top(InGroup(rows, Quakes(rows), year, "province", Everywhere, code)) =
                 IF Tops = {} THEN NULL ELSE Max(Tops)
<1> DEFINE Top(ids) == IF ids = {} THEN NULL ELSE Max(Magnitudes(rows, ids))
           Of(m) == InGroup(rows, Quakes(rows), year, "month", ProvinceZone(code), m)
           Tops == {Top(Of(m)) : m \in Months} \ {NULL}
           X == InGroup(rows, Quakes(rows), year, "province", Everywhere, code)
           key == MonthIn(rows, X)
           value == [id \in X |-> rows[id].attrs.magnitude]
<1>1. Quakes(rows) \in SUBSET DOMAIN rows
  BY DEF Quakes
<1>2. /\ IsFiniteSet(X) /\ X \in SUBSET Quakes(rows) /\ key \in [X -> Months]
      /\ \A m \in Months : Of(m) = OfKey(X, key, m)
  BY <1>1, MonthsOfProvince
<1>3. \A id \in X : rows[id].attrs.magnitude \in Int
  BY <1>1, <1>2, RowFacts DEF RowsOfSource
<1> HIDE DEF X, key, Of
<1>4. value \in [X -> Int]
  BY <1>3
<1>5. \A T \in SUBSET X : TopOf(T, value) = Top(T)
  <2>1. TAKE T \in SUBSET X
  <2>2. {value[x] : x \in T} = Magnitudes(rows, T)
    BY DEF Magnitudes
  <2> QED
    BY <2>2 DEF TopOf
<1> HIDE DEF value
<1>6. \A m \in Months : OfKey(X, key, m) \in SUBSET X
  BY DEF OfKey
<1>7. TopsOf(X, Months, key, value) = Tops
  <2>1. \A m \in Months : TopOf(OfKey(X, key, m), value) = Top(Of(m))
    BY <1>2, <1>5, <1>6
  <2> QED
    BY <2>1 DEF TopsOf
<1>8. TopOf(X, value) = IF Tops = {} THEN NULL ELSE Max(Tops)
  <2> HIDE DEF Tops, Top
  <2>1. TopOf(X, value) = IF TopsOf(X, Months, key, value) = {} THEN NULL ELSE Max(TopsOf(X, Months, key, value))
    BY <1>2, <1>4, MonthsFinite, TopOfParts
  <2> QED
    BY <1>7, <2>1
<1>9. TopOf(X, value) = Top(X)
  BY <1>5
<1>10. Top(X) = IF Tops = {} THEN NULL ELSE Max(Tops)
  BY <1>8, <1>9
<1> QED
  BY <1>10 DEF Of, X

LEMMA SumOfNaturals ==
    ASSUME NEW S, IsFiniteSet(S), NEW f \in [S -> Nat]
    PROVE  SumFunction(f) \in Nat
<1> DEFINE zeros == [x \in S |-> 0]
<1>1. f \in [S -> Int] /\ zeros \in [S -> Int]
  OBVIOUS
<1>2. \A x \in S : 10 * zeros[x] - f[x] <= 5 * f[x] /\ f[x] - 10 * zeros[x] <= 5 * f[x]
  OBVIOUS
<1>3. SumFunction(zeros) = 0
  BY SumOfZeros
<1> HIDE DEF zeros
<1>4. 10 * SumFunction(zeros) - SumFunction(f) <= 5 * SumFunction(f)
  BY <1>1, <1>2, CloseSums
<1>5. SumFunction(f) \in Int
  BY <1>1, SumFacts
<1> QED
  BY <1>3, <1>4, <1>5

(* How many of K are in S, as a sum over K. *)
LEMMA CountAsSum ==
    ASSUME NEW K, IsFiniteSet(K), NEW S \in SUBSET K, NEW e, e = [k \in K |-> IF k \in S THEN 1 ELSE 0]
    PROVE  Cardinality(S) = SumFunction(e)
<1> DEFINE key == [x \in S |-> x]
<1>1. IsFiniteSet(S)
  BY FS_Subset
<1>2. key \in [S -> K]
  OBVIOUS
<1>3. \A k \in K : Cardinality(OfKey(S, key, k)) = e[k]
  <2>1. TAKE k \in K
  <2>2. CASE k \in S
    <3>1. OfKey(S, key, k) = {k}
      BY <2>2 DEF OfKey
    <3> QED
      BY <2>2, <3>1, FS_Singleton
  <2>3. CASE k \notin S
    <3>1. OfKey(S, key, k) = {}
      BY <2>3 DEF OfKey
    <3> QED
      BY <2>3, <3>1, FS_EmptySet
  <2> QED
    BY <2>2, <2>3
<1> HIDE DEF key
<1>4. Cardinality(S) = SumFunction([k \in K |-> Cardinality(OfKey(S, key, k))])
  BY <1>1, <1>2, CountByKey
<1>5. [k \in K |-> Cardinality(OfKey(S, key, k))] = e
  BY <1>3
<1> QED
  BY <1>4, <1>5

LEMMA HectaresOfPart ==
    ASSUME NEW rows, NEW X, NEW T \in SUBSET X
    PROVE  Restrict(Hectares(rows, X), T) = Hectares(rows, T)
BY DEF Restrict, Hectares

(* The hectares of a year are those of its months, but for the rounding. *)
LEMMA YearOfHectares ==
    ASSUME NEW rows, RowsOfSource(rows, "effis"), NEW year, NEW code \in Provinces
    PROVE  LET X == InGroup(rows, BurntAreasOf(rows), year, "province", Everywhere, code)
               Of(m) == InGroup(rows, BurntAreasOf(rows), year, "month", ProvinceZone(code), m)
               whole == Rounded(SumFunction(Hectares(rows, X)))
               parts == SumFunction([m \in Months |-> Rounded(SumFunction(Hectares(rows, Of(m))))])
           IN  /\ whole \in Int /\ parts \in Int
               /\ 2 * Magnitude(whole - parts) <= 1 + Cardinality({m \in Months : Of(m) # {}})
<1> DEFINE X == InGroup(rows, BurntAreasOf(rows), year, "province", Everywhere, code)
           key == MonthIn(rows, X)
           h == Hectares(rows, X)
           Of(m) == InGroup(rows, BurntAreasOf(rows), year, "month", ProvinceZone(code), m)
           sums == [m \in Months |-> SumFunction(Hectares(rows, Of(m)))]
           rounded == [m \in Months |-> Rounded(SumFunction(Hectares(rows, Of(m))))]
           burnt == {m \in Months : Of(m) # {}}
           e == [m \in Months |-> IF m \in burnt THEN 1 ELSE 0]
           total == SumFunction(h)
<1>1. BurntAreasOf(rows) \in SUBSET DOMAIN rows
  BY DEF BurntAreasOf
<1>2. /\ IsFiniteSet(X) /\ X \in SUBSET BurntAreasOf(rows) /\ key \in [X -> Months]
      /\ \A m \in Months : Of(m) = OfKey(X, key, m)
  BY <1>1, MonthsOfProvince
<1>3. \A id \in X : rows[id].attrs.area_ha \in Nat
  <2>1. \A id \in X : id \in DOMAIN rows /\ rows[id].attrs.kind = "burnt_area"
    BY <1>2 DEF BurntAreasOf
  <2> QED
    BY <2>1, RowFacts DEF RowsOfSource
<1> HIDE DEF X, key, Of
<1>4. \A T \in SUBSET X : Hectares(rows, T) \in [T -> Nat]
  BY <1>3 DEF Hectares
<1>5. \A m \in Months : Of(m) \in SUBSET X
  BY <1>2 DEF OfKey
<1>6. \A m \in Months : sums[m] \in Nat
  <2>1. TAKE m \in Months
  <2>2. Hectares(rows, Of(m)) \in [Of(m) -> Nat] /\ IsFiniteSet(Of(m))
    BY <1>2, <1>4, <1>5, FS_Subset
  <2>3. SumFunction(Hectares(rows, Of(m))) \in Nat
    BY <2>2, SumOfNaturals
  <2> QED
    BY <2>3
<1>7. total \in Nat
  BY <1>2, <1>4, SumOfNaturals
<1>8. total = SumFunction(sums)
  <2>1. h \in [X -> Int]
    BY <1>4
  <2> HIDE DEF h
  <2>2. SumFunction(h) = SumFunction([m \in Months |-> SumFunction(Restrict(h, OfKey(X, key, m)))])
    BY <1>2, <2>1, MonthsFinite, SumByKey
  <2>3. \A m \in Months : Restrict(h, OfKey(X, key, m)) = Hectares(rows, Of(m))
    BY <1>2, <1>5, HectaresOfPart DEF h
  <2>4. [m \in Months |-> SumFunction(Restrict(h, OfKey(X, key, m)))] = sums
    BY <2>3
  <2> QED
    BY <2>2, <2>4
<1>9. \A m \in Months : rounded[m] = Rounded(sums[m])
  OBVIOUS
<1>10. \A m \in Months : m \notin burnt => sums[m] = 0
  <2>1. SUFFICES ASSUME NEW m \in Months, Of(m) = {} PROVE sums[m] = 0
    OBVIOUS
  <2>2. Hectares(rows, Of(m)) \in [Of(m) -> Int]
    BY <2>1 DEF Hectares
  <2> QED
    BY <2>1, <2>2, FS_EmptySet, SumFacts
<1>11. sums \in [Months -> Int] /\ rounded \in [Months -> Int] /\ e \in [Months -> Int]
  <2>1. \A m \in Months : Rounded(sums[m]) \in Int
    BY <1>6, RoundedFacts
  <2> QED
    BY <1>6, <1>9, <2>1
<1>12. burnt \in SUBSET Months /\ \A m \in Months : e[m] = IF m \in burnt THEN 1 ELSE 0
  OBVIOUS
<1>13. Cardinality(burnt) = SumFunction(e)
  BY MonthsFinite, CountAsSum
<1> HIDE DEF sums, rounded, burnt, e, total
<1>14. \A m \in Months : /\ 10 * rounded[m] - sums[m] <= 5 * e[m]
                         /\ sums[m] - 10 * rounded[m] <= 5 * e[m]
  <2>1. TAKE m \in Months
  <2>2. /\ Rounded(sums[m]) \in Nat
        /\ 10 * Rounded(sums[m]) - sums[m] <= 5 /\ sums[m] - 10 * Rounded(sums[m]) <= 5
        /\ Rounded(0) = 0
    BY <1>6, RoundedFacts
  <2>3. CASE m \in burnt
    BY <1>6, <1>9, <1>12, <2>2, <2>3
  <2>4. CASE m \notin burnt
    <3>1. sums[m] = 0 /\ e[m] = 0
      BY <1>10, <1>12, <2>4
    <3>2. rounded[m] = 0
      BY <1>9, <2>2, <3>1
    <3> QED
      BY <3>1, <3>2
  <2> QED
    BY <2>3, <2>4
<1>15. /\ 10 * SumFunction(rounded) - SumFunction(sums) <= 5 * SumFunction(e)
       /\ SumFunction(sums) - 10 * SumFunction(rounded) <= 5 * SumFunction(e)
  BY <1>11, <1>14, MonthsFinite, CloseSums
<1>16. SumFunction(rounded) \in Int /\ SumFunction(e) \in Int
  BY <1>11, MonthsFinite, SumFacts
<1>17. /\ Rounded(total) \in Nat
       /\ 10 * Rounded(total) - total <= 5 /\ total - 10 * Rounded(total) <= 5
  BY <1>7, RoundedFacts
<1>18. /\ 2 * (Rounded(total) - SumFunction(rounded)) <= 1 + SumFunction(e)
       /\ 2 * (SumFunction(rounded) - Rounded(total)) <= 1 + SumFunction(e)
  BY <1>7, <1>8, <1>15, <1>16, <1>17
<1>19. 2 * Magnitude(Rounded(total) - SumFunction(rounded)) <= 1 + Cardinality(burnt)
  <2> DEFINE d == Rounded(total) - SumFunction(rounded)
  <2>1. d \in Int /\ SumFunction(rounded) - Rounded(total) = -d
    BY <1>16, <1>17
  <2>2. 2 * d <= 1 + SumFunction(e) /\ 2 * (-d) <= 1 + SumFunction(e)
    BY <1>18, <2>1
  <2> HIDE DEF d
  <2>3. Magnitude(d) = d \/ Magnitude(d) = -d
    BY DEF Magnitude
  <2>4. 2 * Magnitude(d) <= 1 + SumFunction(e)
    BY <2>2, <2>3
  <2> QED
    BY <1>13, <2>4 DEF d
<1> QED
  BY <1>16, <1>17, <1>19 DEF total, rounded, burnt, Of, X

LEMMA SummaryFacts ==
    ASSUME NEW snapshots, NEW year, NEW code \in Provinces
    PROVE  LET row == ProvincesSummary(snapshots, year).rows[code]
               quakes == Earthquakes(RowsOf(snapshots, "ign"), year, "province", Everywhere)
               fires == BurntAreas(RowsOf(snapshots, "effis"), year, "province", Everywhere)
           IN  /\ row.warning_days = DaysAt(WarningDays(RowsOf(snapshots, "aemet"), year, "province", Everywhere), code)
               /\ row.earthquakes = IF code \in DOMAIN quakes THEN quakes[code].count ELSE 0
               /\ row.max_magnitude = IF code \in DOMAIN quakes THEN quakes[code].max_magnitude ELSE NULL
               /\ row.burnt_areas = IF code \in DOMAIN fires THEN fires[code].count ELSE 0
               /\ row.burned_area_ha = IF code \in DOMAIN fires THEN fires[code].area ELSE 0
BY DEF ProvincesSummary, MetricsBy, Metrics, DaysAt

(***************************************************************************)
(* The year of a province is the sum of its months (ProvincesSummary and   *)
(* ZoneMonthly).                                                           *)
(***************************************************************************)
LEMMA YearSums ==
    ASSUME NEW snapshots, SnapshotsKnown(snapshots), NEW year \in Nat, NEW code \in Provinces
    PROVE  YearIsSumOfMonths(snapshots, year, code)
<1> DEFINE quakes == RowsOf(snapshots, "ign")
           fires == RowsOf(snapshots, "effis")
           days == RowsOf(snapshots, "aemet")
           zone == ProvinceZone(code)
           row == ProvincesSummary(snapshots, year).rows[code]
           months == ZoneMonthly(snapshots, year, zone).rows
           QuakesIn(m) == InGroup(quakes, Quakes(quakes), year, "month", zone, m)
           FiresIn(m) == InGroup(fires, BurntAreasOf(fires), year, "month", zone, m)
           QuakesOfYear == InGroup(quakes, Quakes(quakes), year, "province", Everywhere, code)
           FiresOfYear == InGroup(fires, BurntAreasOf(fires), year, "province", Everywhere, code)
           Top(ids) == IF ids = {} THEN NULL ELSE Max(Magnitudes(quakes, ids))
           Maxima == {months[m].max_magnitude : m \in Months} \ {NULL}
           Area(ids) == Rounded(SumFunction(Hectares(fires, ids)))
<1>1. RowsOfSource(quakes, "ign") /\ RowsOfSource(fires, "effis") /\ RowsOfSource(days, "aemet")
  BY SnapshotRows DEF Sources
<1>2. code # NULL /\ \A m \in Months : m # NULL
  BY EventRowsAssumption DEF Months
<1>3. /\ Quakes(quakes) \in SUBSET DOMAIN quakes /\ BurntAreasOf(fires) \in SUBSET DOMAIN fires
  BY DEF Quakes, BurntAreasOf
<1> HIDE DEF quakes, fires, days, zone
<1>4. /\ row.earthquakes = Cardinality(QuakesOfYear)
      /\ row.max_magnitude = Top(QuakesOfYear)
  <2>1. LET q == Earthquakes(quakes, year, "province", Everywhere)
        IN  /\ row.earthquakes = IF code \in DOMAIN q THEN q[code].count ELSE 0
            /\ row.max_magnitude = IF code \in DOMAIN q THEN q[code].max_magnitude ELSE NULL
    BY SummaryFacts DEF quakes
  <2> QED
    BY <1>2, <2>1, QuakesAt
<1>5. /\ row.burnt_areas = Cardinality(FiresOfYear)
      /\ row.burned_area_ha = Area(FiresOfYear)
  <2>1. LET q == BurntAreas(fires, year, "province", Everywhere)
        IN  /\ row.burnt_areas = IF code \in DOMAIN q THEN q[code].count ELSE 0
            /\ row.burned_area_ha = IF code \in DOMAIN q THEN q[code].area ELSE 0
    BY SummaryFacts DEF fires
  <2> QED
    BY <1>1, <1>2, <2>1, FiresAt
<1>6. \A m \in Months : /\ months[m].earthquakes = Cardinality(QuakesIn(m))
                        /\ months[m].max_magnitude = Top(QuakesIn(m))
  <2>1. TAKE m \in Months
  <2>2. LET q == Earthquakes(quakes, year, "month", zone)
        IN  /\ months[m].earthquakes = IF m \in DOMAIN q THEN q[m].count ELSE 0
            /\ months[m].max_magnitude = IF m \in DOMAIN q THEN q[m].max_magnitude ELSE NULL
    BY MonthlyFacts DEF quakes
  <2> QED
    BY <1>2, <2>2, QuakesAt
<1>7. \A m \in Months : /\ months[m].burnt_areas = Cardinality(FiresIn(m))
                        /\ months[m].burned_area_ha = Area(FiresIn(m))
  <2>1. TAKE m \in Months
  <2>2. LET q == BurntAreas(fires, year, "month", zone)
        IN  /\ months[m].burnt_areas = IF m \in DOMAIN q THEN q[m].count ELSE 0
            /\ months[m].burned_area_ha = IF m \in DOMAIN q THEN q[m].area ELSE 0
    BY MonthlyFacts DEF fires
  <2> QED
    BY <1>1, <1>2, <2>2, FiresAt
<1>8. \A level \in Levels : row.warning_days[level] = SumFunction([m \in Months |-> months[m].warning_days[level]])
  <2>1. TAKE level \in Levels
  <2>2. row.warning_days = DaysAt(WarningDays(days, year, "province", Everywhere), code)
    BY SummaryFacts DEF days
  <2>3. \A m \in Months : months[m].warning_days = DaysAt(WarningDays(days, year, "month", zone), m)
    BY MonthlyFacts DEF days
  <2>4. DaysAt(WarningDays(days, year, "province", Everywhere), code)[level] =
          SumFunction([m \in Months |-> DaysAt(WarningDays(days, year, "month", zone), m)[level]])
    BY <1>1, YearOfDays DEF zone
  <2> HIDE DEF row, months
  <2>5. [m \in Months |-> DaysAt(WarningDays(days, year, "month", zone), m)[level]] =
          [m \in Months |-> months[m].warning_days[level]]
    BY <2>3
  <2> QED
    BY <2>2, <2>4, <2>5
<1>9. row.earthquakes = SumFunction([m \in Months |-> months[m].earthquakes])
  <2>1. Cardinality(QuakesOfYear) = SumFunction([m \in Months |-> Cardinality(QuakesIn(m))])
    BY <1>1, <1>3, YearOfCounts DEF zone
  <2> HIDE DEF row, months, QuakesIn, QuakesOfYear
  <2>2. [m \in Months |-> Cardinality(QuakesIn(m))] = [m \in Months |-> months[m].earthquakes]
    BY <1>6
  <2> QED
    BY <1>4, <2>1, <2>2
<1>10. row.burnt_areas = SumFunction([m \in Months |-> months[m].burnt_areas])
  <2>1. Cardinality(FiresOfYear) = SumFunction([m \in Months |-> Cardinality(FiresIn(m))])
    BY <1>1, <1>3, YearOfCounts DEF zone
  <2> HIDE DEF row, months, FiresIn, FiresOfYear
  <2>2. [m \in Months |-> Cardinality(FiresIn(m))] = [m \in Months |-> months[m].burnt_areas]
    BY <1>7
  <2> QED
    BY <1>5, <2>1, <2>2
<1>11. row.max_magnitude = IF Maxima = {} THEN NULL ELSE Max(Maxima)
  <2> DEFINE Tops == {Top(QuakesIn(m)) : m \in Months} \ {NULL}
  <2>1. Top(QuakesOfYear) = IF Tops = {} THEN NULL ELSE Max(Tops)
    BY <1>1, YearOfMagnitudes DEF zone
  <2> HIDE DEF row, months, QuakesIn, QuakesOfYear, Top
  <2>2. Maxima = Tops
    BY <1>6
  <2> QED
    BY <1>4, <2>1, <2>2
<1>12. 2 * Magnitude(row.burned_area_ha - SumFunction([m \in Months |-> months[m].burned_area_ha]))
          <= 1 + Cardinality({m \in Months : months[m].burnt_areas > 0})
  <2> DEFINE parts == SumFunction([m \in Months |-> Area(FiresIn(m))])
             burnt == {m \in Months : FiresIn(m) # {}}
  <2>1. 2 * Magnitude(Area(FiresOfYear) - parts) <= 1 + Cardinality(burnt)
    BY <1>1, YearOfHectares DEF zone
  <2>2. \A m \in Months : IsFiniteSet(FiresIn(m))
    <3>1. \A m : FiresIn(m) \in SUBSET DOMAIN fires
      BY <1>3 DEF InGroup
    <3> QED
      BY <1>1, <3>1, FS_Subset DEF RowsOfSource
  <2> HIDE DEF row, months, FiresIn, FiresOfYear, Area
  <2>3. [m \in Months |-> Area(FiresIn(m))] = [m \in Months |-> months[m].burned_area_ha]
    BY <1>7
  <2>4. burnt = {m \in Months : months[m].burnt_areas > 0}
    <3>1. \A m \in Months : months[m].burnt_areas > 0 <=> FiresIn(m) # {}
      BY <1>7, <2>2, FS_EmptySet, FS_CardinalityType
    <3> QED
      BY <3>1
  <2> HIDE DEF burnt
  <2> QED
    BY <1>5, <2>1, <2>3, <2>4
<1>13. ProvincesSummary(snapshots, year).history_since = ZoneMonthly(snapshots, year, zone).history_since
  BY DEF ProvincesSummary, ZoneMonthly
<1> HIDE DEF Top, Area
<1> QED
  BY <1>8, <1>9, <1>10, <1>11, <1>12, <1>13 DEF YearIsSumOfMonths, zone

(* No month counts more warning days than it has days. *)
LEMMA DaysOfYear ==
    ASSUME NEW snapshots, SnapshotsKnown(snapshots), NEW year \in Nat, NEW zone
    PROVE  DaysCountOnce(snapshots, year, zone)
<1>1. RowsOfSource(RowsOf(snapshots, "aemet"), "aemet")
  BY SnapshotRows DEF Sources
<1>2. \A m \in Months : ZoneMonthly(snapshots, year, zone).rows[m].warning_days =
          DaysAt(WarningDays(RowsOf(snapshots, "aemet"), year, "month", zone), m)
  BY MonthlyFacts
<1>3. \A m \in Months : SumFunction(DaysAt(WarningDays(RowsOf(snapshots, "aemet"), year, "month", zone), m)) <= DaysPerMonth
  BY <1>1, DayCountsOnce
<1> QED
  BY <1>2, <1>3 DEF DaysCountOnce

(* Counting by one key, and what has that key by another. *)
CountedBy(S, K, key, inner, part) ==
    /\ key \in [S -> K]
    /\ \A x \in S : inner[x] \in DOMAIN part[key[x]]
    /\ \A k \in K : /\ part[k] = [l \in DOMAIN part[k] |-> part[k][l]]
                    /\ IsFiniteSet(DOMAIN part[k])
                    /\ \A l \in DOMAIN part[k] :
                          part[k][l] = Cardinality({x \in S : key[x] = k /\ inner[x] = l})

LEMMA CountByTwoKeys ==
    ASSUME NEW S, IsFiniteSet(S), NEW K, IsFiniteSet(K), NEW key, NEW inner, NEW part,
           CountedBy(S, K, key, inner, part)
    PROVE  Cardinality(S) = SumFunction([k \in K |-> SumFunction(part[k])])
<1>1. key \in [S -> K] /\ \A x \in S : inner[x] \in DOMAIN part[key[x]]
  BY DEF CountedBy
<1>2. \A k \in K : /\ part[k] = [l \in DOMAIN part[k] |-> part[k][l]]
                    /\ IsFiniteSet(DOMAIN part[k])
                    /\ \A l \in DOMAIN part[k] :
                          part[k][l] = Cardinality({x \in S : key[x] = k /\ inner[x] = l})
  BY DEF CountedBy
<1>3. \A k \in K : Cardinality(OfKey(S, key, k)) = SumFunction(part[k])
  <2>1. TAKE k \in K
  <2> DEFINE X == OfKey(S, key, k)
             own == [x \in X |-> inner[x]]
  <2>2. X \in SUBSET S /\ IsFiniteSet(X) /\ \A x \in X : key[x] = k
    BY FS_Subset DEF OfKey
  <2>3. own \in [X -> DOMAIN part[k]]
    BY <1>1, <2>2
  <2>4. \A l \in DOMAIN part[k] : OfKey(X, own, l) = {x \in S : key[x] = k /\ inner[x] = l}
    BY DEF OfKey
  <2> HIDE DEF X, own
  <2>5. Cardinality(X) = SumFunction([l \in DOMAIN part[k] |-> Cardinality(OfKey(X, own, l))])
    <3>1. IsFiniteSet(DOMAIN part[k])
      BY <1>2
    <3> QED
      BY <2>2, <2>3, <3>1, CountByKey
  <2>6. [l \in DOMAIN part[k] |-> Cardinality(OfKey(X, own, l))] = [l \in DOMAIN part[k] |-> part[k][l]]
    <3> DEFINE size(l) == Cardinality(OfKey(X, own, l))
    <3>1. \A l \in DOMAIN part[k] : size(l) = part[k][l]
      BY <1>2, <2>4
    <3> HIDE DEF size
    <3>2. [l \in DOMAIN part[k] |-> size(l)] = [l \in DOMAIN part[k] |-> part[k][l]]
      BY <3>1
    <3> QED
      BY <3>2 DEF size
  <2>7. Cardinality(X) = SumFunction(part[k])
    BY <1>2, <2>5, <2>6
  <2> QED
    BY <2>7 DEF X
<1>4. Cardinality(S) = SumFunction([k \in K |-> Cardinality(OfKey(S, key, k))])
  BY <1>1, CountByKey
<1>5. [k \in K |-> Cardinality(OfKey(S, key, k))] = [k \in K |-> SumFunction(part[k])]
  BY <1>3
<1> QED
  BY <1>4, <1>5

(* Every instant lies in one year of each calendar, and all of those are asked. *)
AllYears(snapshots) == UNION {YearsOf(snapshots[s]) : s \in DOMAIN snapshots}

LEMMA SourcesFinite == IsFiniteSet(Sources)
<1>1. IsFiniteSet({"effis"})
  BY FS_Singleton
<1>2. IsFiniteSet({"effis"} \cup {"ign"})
  BY <1>1, FS_AddElement
<1>3. IsFiniteSet(({"effis"} \cup {"ign"}) \cup {"aemet"})
  BY <1>2, FS_AddElement
<1>4. ({"effis"} \cup {"ign"}) \cup {"aemet"} = Sources
  BY DEF Sources
<1> QED
  BY <1>3, <1>4

LEMMA YearsOfRows ==
    ASSUME NEW rows, NEW s, RowsOfSource(rows, s)
    PROVE  /\ IsFiniteSet(YearsOf(rows)) /\ YearsOf(rows) \subseteq Nat
           /\ \A id \in DOMAIN rows : /\ YearOf(LocalDay(rows[id].starts_at)) \in YearsOf(rows)
                                      /\ UtcYear(rows[id]) \in YearsOf(rows)
<1> DEFINE S == DOMAIN rows
           utc == [id \in S |-> YearOf(UtcDay(rows[id].starts_at))]
           local == [id \in S |-> YearOf(LocalDay(rows[id].starts_at))]
           end == [id \in S |-> YearOf(LocalDay(EndOf(rows[id])))]
<1>1. YearsOf(rows) = ({utc[id] : id \in S} \cup {local[id] : id \in S}) \cup {end[id] : id \in S}
  BY DEF YearsOf
<1>2. \A id \in S : utc[id] \in Nat /\ local[id] \in Nat /\ end[id] \in Nat
  <2>1. TAKE id \in S
  <2>2. /\ UtcDay(rows[id].starts_at) \in Nat /\ LocalDay(rows[id].starts_at) \in Nat
        /\ LocalDay(EndOf(rows[id])) \in Nat
    BY RowFacts DEF RowsOfSource
  <2> QED
    BY <2>2, MonthFacts
<1>3. /\ DOMAIN utc = S /\ utc = [id \in S |-> utc[id]]
      /\ DOMAIN local = S /\ local = [id \in S |-> local[id]]
      /\ DOMAIN end = S /\ end = [id \in S |-> end[id]]
  OBVIOUS
<1>4. IsFiniteSet(S)
  BY DEF RowsOfSource
<1>5. \A id \in S : utc[id] = UtcYear(rows[id]) /\ local[id] = YearOf(LocalDay(rows[id].starts_at))
  BY DEF UtcYear
<1> HIDE DEF S, utc, local, end
<1>6. /\ IsFiniteSet({utc[id] : id \in S}) /\ IsFiniteSet({local[id] : id \in S})
      /\ IsFiniteSet({end[id] : id \in S})
  BY <1>3, <1>4, ImageFacts
<1>7. IsFiniteSet(YearsOf(rows))
  <2> DEFINE A == {utc[id] : id \in S}
             B == {local[id] : id \in S}
             C == {end[id] : id \in S}
  <2>1. IsFiniteSet(A) /\ IsFiniteSet(B) /\ IsFiniteSet(C) /\ YearsOf(rows) = (A \cup B) \cup C
    BY <1>1, <1>6
  <2> HIDE DEF A, B, C
  <2>2. IsFiniteSet(A \cup B)
    BY <2>1, FS_Union
  <2>3. IsFiniteSet((A \cup B) \cup C)
    BY <2>1, <2>2, FS_Union
  <2> QED
    BY <2>1, <2>3
<1>8. YearsOf(rows) \subseteq Nat
  BY <1>1, <1>2
<1>9. \A id \in S : utc[id] \in YearsOf(rows) /\ local[id] \in YearsOf(rows)
  BY <1>1
<1> QED
  BY <1>5, <1>7, <1>8, <1>9 DEF S

LEMMA YearsFacts ==
    ASSUME NEW snapshots, SnapshotsKnown(snapshots)
    PROVE  /\ IsFiniteSet(AllYears(snapshots)) /\ AllYears(snapshots) \subseteq Nat
           /\ \A s \in Sources : \A id \in DOMAIN RowsOf(snapshots, s) :
                 /\ YearOf(LocalDay(RowsOf(snapshots, s)[id].starts_at)) \in AllYears(snapshots)
                 /\ UtcYear(RowsOf(snapshots, s)[id]) \in AllYears(snapshots)
<1> DEFINE D == DOMAIN snapshots
           years == [s \in D |-> YearsOf(snapshots[s])]
<1>1. \A s \in D : RowsOfSource(snapshots[s], s)
  BY DEF SnapshotsKnown
<1>2. IsFiniteSet(D)
  <2>1. D \in SUBSET Sources
    BY <1>1 DEF RowsOfSource
  <2> QED
    BY <2>1, SourcesFinite, FS_Subset
<1>3. \A s \in D : IsFiniteSet(years[s]) /\ years[s] \subseteq Nat
  BY <1>1, YearsOfRows
<1>4. AllYears(snapshots) = UNION {years[s] : s \in D}
  BY DEF AllYears
<1>5. DOMAIN years = D /\ years = [s \in D |-> years[s]]
  OBVIOUS
<1>6. \A s \in D : \A id \in DOMAIN snapshots[s] :
          /\ YearOf(LocalDay(snapshots[s][id].starts_at)) \in years[s]
          /\ UtcYear(snapshots[s][id]) \in years[s]
  BY <1>1, YearsOfRows
<1>7. \A s \in Sources : \A id \in DOMAIN RowsOf(snapshots, s) :
          s \in D /\ RowsOf(snapshots, s) = snapshots[s]
  BY DEF RowsOf, NoRows
<1> HIDE DEF D, years
<1>8. IsFiniteSet({years[s] : s \in D})
  BY <1>2, <1>5, ImageFacts
<1>9. IsFiniteSet(UNION {years[s] : s \in D})
  <2>1. \A T \in {years[s] : s \in D} : IsFiniteSet(T)
    BY <1>3
  <2> QED
    BY <1>8, <2>1, FS_UNION
<1>10. AllYears(snapshots) \subseteq Nat
  BY <1>3, <1>4
<1>11. \A s \in D : years[s] \subseteq AllYears(snapshots)
  BY <1>4
<1>12. \A s \in Sources : \A id \in DOMAIN RowsOf(snapshots, s) :
          /\ YearOf(LocalDay(RowsOf(snapshots, s)[id].starts_at)) \in AllYears(snapshots)
          /\ UtcYear(RowsOf(snapshots, s)[id]) \in AllYears(snapshots)
  BY <1>6, <1>7, <1>11
<1> QED
  BY <1>4, <1>9, <1>10, <1>12

(* The years of an instant in each calendar, and its month in UTC's. *)
LEMMA UtcMonths ==
    ASSUME NEW row, EventRow(row)
    PROVE  UtcMonth(row) \in Months /\ MonthOf(LocalDay(row.starts_at)) \in Months
<1>1. UtcDay(row.starts_at) \in Nat /\ LocalDay(row.starts_at) \in Nat
  BY RowFacts
<1> QED
  BY <1>1, MonthFacts DEF UtcMonth

(* Each earthquake counts in one civil month of one year. *)
LEMMA QuakesByCivilMonth ==
    ASSUME NEW snapshots, SnapshotsKnown(snapshots)
    PROVE  Cardinality(Quakes(RowsOf(snapshots, "ign"))) =
             SumFunction([y \in AllYears(snapshots) |->
                SumFunction([m \in Months |-> ZoneMonthly(snapshots, y, Everywhere).rows[m].earthquakes])])
<1> DEFINE rows == RowsOf(snapshots, "ign")
           S == Quakes(rows)
           K == AllYears(snapshots)
           key == [id \in S |-> YearOf(LocalDay(rows[id].starts_at))]
           inner == MonthIn(rows, S)
           part == [y \in K |-> [m \in Months |-> ZoneMonthly(snapshots, y, Everywhere).rows[m].earthquakes]]
<1>1. RowsOfSource(rows, "ign") /\ S \in SUBSET DOMAIN rows
  BY SnapshotRows DEF Sources, Quakes
<1>2. IsFiniteSet(S) /\ \A id \in S : id \in DOMAIN rows /\ EventRow(rows[id])
  BY <1>1, FS_Subset DEF RowsOfSource
<1>3. \A m \in Months : m # NULL
  BY EventRowsAssumption DEF Months
<1>4. IsFiniteSet(K) /\ \A id \in DOMAIN rows : YearOf(LocalDay(rows[id].starts_at)) \in K
  BY YearsFacts DEF Sources
<1>5. \A row : InZone(row, Everywhere)
  BY EventRowsAssumption DEF InZone, Everywhere, Given
<1>6. \A y \in K : \A m \in Months :
         ZoneMonthly(snapshots, y, Everywhere).rows[m].earthquakes
            = Cardinality(InGroup(rows, S, y, "month", Everywhere, m))
  <2>1. TAKE y \in K
  <2>2. TAKE m \in Months
  <2>3. LET q == Earthquakes(rows, y, "month", Everywhere)
        IN  ZoneMonthly(snapshots, y, Everywhere).rows[m].earthquakes
               = IF m \in DOMAIN q THEN q[m].count ELSE 0
    BY MonthlyFacts
  <2> QED
    BY <1>3, <2>3, QuakesAt
<1>7. inner = [id \in S |-> MonthOf(LocalDay(rows[id].starts_at))]
  BY DEF MonthIn
<1> HIDE DEF rows, K, inner
<1>8. \A y \in K : \A m \in Months :
         InGroup(rows, S, y, "month", Everywhere, m) = {x \in S : key[x] = y /\ inner[x] = m}
  BY <1>5, <1>7 DEF InGroup, GroupKey
<1> HIDE DEF S
<1>9. key \in [S -> K]
  BY <1>2, <1>4
<1>10. \A x \in S : inner[x] \in Months
  BY <1>2, <1>7, UtcMonths
<1>11. \A y \in K : part[y] = [m \in Months |-> Cardinality({x \in S : key[x] = y /\ inner[x] = m})]
  BY <1>6, <1>8
<1>12. part = [y \in K |-> part[y]] /\ \A y \in K : DOMAIN part[y] = Months
  OBVIOUS
<1>13. DOMAIN inner = S
  BY <1>7
<1> HIDE DEF key, part
<1>14. \A y \in K : /\ part[y] = [l \in DOMAIN part[y] |-> part[y][l]]
                    /\ IsFiniteSet(DOMAIN part[y])
                    /\ \A l \in DOMAIN part[y] :
                          part[y][l] = Cardinality({x \in S : key[x] = y /\ inner[x] = l})
  BY <1>11, <1>12, MonthsFinite
<1>15. \A x \in S : inner[x] \in DOMAIN part[key[x]]
  BY <1>9, <1>10, <1>12
<1>16. Cardinality(S) = SumFunction([y \in K |-> SumFunction(part[y])])
  <2>1. CountedBy(S, K, key, inner, part)
    BY <1>9, <1>14, <1>15 DEF CountedBy
  <2> QED
    BY <1>2, <1>4, <2>1, CountByTwoKeys
<1>17. [y \in K |-> SumFunction(part[y])] =
         [y \in K |-> SumFunction([m \in Months |-> ZoneMonthly(snapshots, y, Everywhere).rows[m].earthquakes])]
  BY DEF part
<1> QED
  BY <1>16, <1>17 DEF S, rows, K

(* And in one month of UTC. *)
LEMMA QuakesByUtcMonth ==
    ASSUME NEW snapshots, SnapshotsKnown(snapshots)
    PROVE  LET quakes == RowsOf(snapshots, "ign")
               Utc(y) == FrequencyByMonth(quakes, y, NULL)
           IN  Cardinality(Quakes(quakes)) =
                 SumFunction([y \in AllYears(snapshots) |->
                    SumFunction([m \in DOMAIN Utc(y) |-> Utc(y)[m].events])])
<1> DEFINE rows == RowsOf(snapshots, "ign")
           S == Quakes(rows)
           K == AllYears(snapshots)
           Utc(y) == FrequencyByMonth(rows, y, NULL)
           key == [id \in S |-> UtcYear(rows[id])]
           inner == [id \in S |-> UtcMonth(rows[id])]
           part == [y \in K |-> [m \in DOMAIN Utc(y) |-> Utc(y)[m].events]]
           Of(y) == {id \in S : UtcYear(rows[id]) = y}
<1>1. RowsOfSource(rows, "ign") /\ S \in SUBSET DOMAIN rows
  BY SnapshotRows DEF Sources, Quakes
<1>2. IsFiniteSet(S) /\ \A id \in S : /\ id \in DOMAIN rows /\ EventRow(rows[id])
                                      /\ rows[id].attrs.magnitude >= 0
  BY <1>1, FS_Subset, RowFacts DEF RowsOfSource
<1>3. IsFiniteSet(K) /\ \A id \in DOMAIN rows : UtcYear(rows[id]) \in K
  BY YearsFacts DEF Sources
<1>4. \A y : /\ DOMAIN Utc(y) = {UtcMonth(rows[id]) : id \in Of(y)}
             /\ \A m \in DOMAIN Utc(y) :
                   Utc(y)[m].events = Cardinality({id \in Of(y) : UtcMonth(rows[id]) = m})
  <2>1. TAKE y
  <2> DEFINE chosen == {id \in Quakes(rows) : UtcYear(rows[id]) = y /\ rows[id].attrs.magnitude >= 0}
             In(m) == {id \in chosen : UtcMonth(rows[id]) = m}
  <2>2. Utc(y) = [m \in {UtcMonth(rows[id]) : id \in chosen} |->
                    [events |-> Cardinality(In(m)),
                     max_magnitude |-> Max({rows[id].attrs.magnitude : id \in In(m)})]]
    BY DEF FrequencyByMonth, Given
  <2>3. chosen = Of(y)
    BY <1>2
  <2>4. \A m : In(m) = {id \in Of(y) : UtcMonth(rows[id]) = m}
    BY <2>3
  <2>5. {UtcMonth(rows[id]) : id \in chosen} = {UtcMonth(rows[id]) : id \in Of(y)}
    BY <2>3
  <2> HIDE DEF chosen, Of, In, Utc
  <2>6. DOMAIN Utc(y) = {UtcMonth(rows[id]) : id \in chosen}
    BY <2>2
  <2>7. \A m \in DOMAIN Utc(y) : Utc(y)[m].events = Cardinality(In(m))
    BY <2>2
  <2>8. DOMAIN Utc(y) = {UtcMonth(rows[id]) : id \in Of(y)}
    BY <2>5, <2>6
  <2>9. \A m \in DOMAIN Utc(y) : Utc(y)[m].events = Cardinality({id \in Of(y) : UtcMonth(rows[id]) = m})
    BY <2>4, <2>7
  <2> QED
    BY <2>8, <2>9
<1>5. \A x \in S : UtcMonth(rows[x]) \in Months
  BY <1>2, UtcMonths
<1> HIDE DEF rows, S, K, Utc
<1>6. key \in [S -> K] /\ DOMAIN inner = S
  BY <1>2, <1>3
<1>7. \A y \in K : \A m : {id \in Of(y) : UtcMonth(rows[id]) = m} = {x \in S : key[x] = y /\ inner[x] = m}
  OBVIOUS
<1>8. part = [y \in K |-> part[y]]
      /\ \A y \in K : part[y] = [m \in DOMAIN Utc(y) |-> Utc(y)[m].events] /\ DOMAIN part[y] = DOMAIN Utc(y)
  OBVIOUS
<1>9. \A x \in S : x \in Of(key[x]) /\ UtcMonth(rows[x]) = inner[x]
  OBVIOUS
<1>10. \A y : DOMAIN Utc(y) \in SUBSET Months
  <2>1. \A y : Of(y) \in SUBSET S
    OBVIOUS
  <2> HIDE DEF Of
  <2>2. TAKE y
  <2>3. DOMAIN Utc(y) = {UtcMonth(rows[id]) : id \in Of(y)}
    BY <1>4
  <2>4. \A id \in Of(y) : UtcMonth(rows[id]) \in Months
    BY <1>5, <2>1
  <2> QED
    BY <2>3, <2>4
<1> HIDE DEF key, part, inner, Of
<1>11. \A y \in K : /\ part[y] = [l \in DOMAIN part[y] |-> part[y][l]]
                    /\ IsFiniteSet(DOMAIN part[y])
                    /\ \A l \in DOMAIN part[y] :
                          part[y][l] = Cardinality({x \in S : key[x] = y /\ inner[x] = l})
  <2>1. TAKE y \in K
  <2>2. IsFiniteSet(DOMAIN Utc(y))
    BY <1>10, MonthsFinite, FS_Subset
  <2>3. part[y] = [m \in DOMAIN Utc(y) |-> Utc(y)[m].events] /\ DOMAIN part[y] = DOMAIN Utc(y)
    BY <1>8
  <2>4. \A l \in DOMAIN Utc(y) : part[y][l] = Cardinality({id \in Of(y) : UtcMonth(rows[id]) = l})
    BY <1>4, <2>3
  <2>5. \A l \in DOMAIN Utc(y) : part[y][l] = Cardinality({x \in S : key[x] = y /\ inner[x] = l})
    BY <1>7, <2>4
  <2> QED
    BY <2>2, <2>3, <2>5
<1>12. \A x \in S : inner[x] \in DOMAIN part[key[x]]
  <2>1. TAKE x \in S
  <2>2. key[x] \in K
    BY <1>6
  <2>3. DOMAIN part[key[x]] = {UtcMonth(rows[id]) : id \in Of(key[x])}
    BY <1>4, <1>8, <2>2
  <2> QED
    BY <1>9, <2>3
<1>13. Cardinality(S) = SumFunction([y \in K |-> SumFunction(part[y])])
  <2>1. CountedBy(S, K, key, inner, part)
    BY <1>6, <1>11, <1>12 DEF CountedBy
  <2> QED
    BY <1>2, <1>3, <2>1, CountByTwoKeys
<1>14. [y \in K |-> SumFunction(part[y])] =
         [y \in K |-> SumFunction([m \in DOMAIN Utc(y) |-> Utc(y)[m].events])]
  BY <1>8
<1> QED
  BY <1>13, <1>14 DEF S, rows, K, Utc

GroupOfWarning(row) == <<row.attrs.phenomenon, row.attrs.level>>

(* Each warning counts under one phenomenon and level, in the year it begins. *)
LEMMA WarningsByPhenomenon ==
    ASSUME NEW snapshots, SnapshotsKnown(snapshots)
    PROVE  LET warnings == RowsOf(snapshots, "aemet")
               Summary(y) == SummaryByPhenomenon(warnings, y, NULL)
           IN  Cardinality(DOMAIN warnings) =
                 SumFunction([y \in AllYears(snapshots) |->
                    SumFunction([g \in DOMAIN Summary(y) |-> Summary(y)[g].warnings])])
<1> DEFINE rows == RowsOf(snapshots, "aemet")
           S == DOMAIN rows
           K == AllYears(snapshots)
           Summary(y) == SummaryByPhenomenon(rows, y, NULL)
           key == [id \in S |-> UtcYear(rows[id])]
           inner == [id \in S |-> GroupOfWarning(rows[id])]
           part == [y \in K |-> [g \in DOMAIN Summary(y) |-> Summary(y)[g].warnings]]
           Of(y) == {id \in S : UtcYear(rows[id]) = y}
<1>1. RowsOfSource(rows, "aemet")
  BY SnapshotRows DEF Sources
<1>2. IsFiniteSet(S) /\ \A id \in S : rows[id].hazard_type = "weather_warning"
  BY <1>1, RowFacts DEF RowsOfSource
<1>3. IsFiniteSet(K) /\ \A id \in S : UtcYear(rows[id]) \in K
  BY YearsFacts DEF Sources
<1>4. \A y : /\ DOMAIN Summary(y) = {GroupOfWarning(rows[id]) : id \in Of(y)}
             /\ \A g \in DOMAIN Summary(y) :
                   Summary(y)[g].warnings = Cardinality({id \in Of(y) : GroupOfWarning(rows[id]) = g})
  <2>1. TAKE y
  <2> DEFINE chosen == {id \in S : rows[id].hazard_type = "weather_warning" /\ UtcYear(rows[id]) = y}
             In(g) == {id \in chosen : GroupOfWarning(rows[id]) = g}
  <2>2. Summary(y) = [g \in {GroupOfWarning(rows[id]) : id \in chosen} |->
                        [warnings |-> Cardinality(In(g)),
                         zones |-> Cardinality({rows[id].attrs.zone : id \in In(g)})]]
    BY DEF SummaryByPhenomenon, Given, GroupOfWarning
  <2>3. chosen = Of(y)
    BY <1>2
  <2>4. \A g : In(g) = {id \in Of(y) : GroupOfWarning(rows[id]) = g}
    BY <2>3
  <2>5. {GroupOfWarning(rows[id]) : id \in chosen} = {GroupOfWarning(rows[id]) : id \in Of(y)}
    BY <2>3
  <2> HIDE DEF chosen, Of, In, Summary
  <2>6. DOMAIN Summary(y) = {GroupOfWarning(rows[id]) : id \in chosen}
    BY <2>2
  <2>7. \A g \in DOMAIN Summary(y) : Summary(y)[g].warnings = Cardinality(In(g))
    BY <2>2
  <2>8. DOMAIN Summary(y) = {GroupOfWarning(rows[id]) : id \in Of(y)}
    BY <2>5, <2>6
  <2>9. \A g \in DOMAIN Summary(y) :
           Summary(y)[g].warnings = Cardinality({id \in Of(y) : GroupOfWarning(rows[id]) = g})
    BY <2>4, <2>7
  <2> QED
    BY <2>8, <2>9
<1> HIDE DEF rows, S, K, Summary
<1>5. key \in [S -> K] /\ DOMAIN inner = S
  BY <1>3
<1>6. \A y \in K : \A g : {id \in Of(y) : GroupOfWarning(rows[id]) = g} = {x \in S : key[x] = y /\ inner[x] = g}
  OBVIOUS
<1>7. part = [y \in K |-> part[y]]
      /\ \A y \in K : part[y] = [g \in DOMAIN Summary(y) |-> Summary(y)[g].warnings] /\ DOMAIN part[y] = DOMAIN Summary(y)
  OBVIOUS
<1>8. \A x \in S : x \in Of(key[x]) /\ GroupOfWarning(rows[x]) = inner[x]
  OBVIOUS
<1>9. \A y \in K : IsFiniteSet(DOMAIN Summary(y))
  <2>1. TAKE y \in K
  <2> DEFINE f == [id \in Of(y) |-> GroupOfWarning(rows[id])]
  <2>2. IsFiniteSet(Of(y))
    BY <1>2, FS_Subset
  <2>3. DOMAIN Summary(y) = {GroupOfWarning(rows[id]) : id \in Of(y)}
    BY <1>4
  <2>4. {f[id] : id \in Of(y)} = {GroupOfWarning(rows[id]) : id \in Of(y)}
        /\ DOMAIN f = Of(y) /\ f = [id \in Of(y) |-> f[id]]
    OBVIOUS
  <2> HIDE DEF f, Of
  <2>5. IsFiniteSet({f[id] : id \in Of(y)})
    BY <2>2, <2>4, ImageFacts
  <2> QED
    BY <2>3, <2>4, <2>5
<1> HIDE DEF key, part, inner, Of
<1>10. \A y \in K : /\ part[y] = [l \in DOMAIN part[y] |-> part[y][l]]
                    /\ IsFiniteSet(DOMAIN part[y])
                    /\ \A l \in DOMAIN part[y] :
                          part[y][l] = Cardinality({x \in S : key[x] = y /\ inner[x] = l})
  <2>1. TAKE y \in K
  <2>2. IsFiniteSet(DOMAIN Summary(y))
    BY <1>9
  <2>3. part[y] = [g \in DOMAIN Summary(y) |-> Summary(y)[g].warnings] /\ DOMAIN part[y] = DOMAIN Summary(y)
    BY <1>7
  <2>4. \A l \in DOMAIN Summary(y) : part[y][l] = Cardinality({id \in Of(y) : GroupOfWarning(rows[id]) = l})
    BY <1>4, <2>3
  <2>5. \A l \in DOMAIN Summary(y) : part[y][l] = Cardinality({x \in S : key[x] = y /\ inner[x] = l})
    BY <1>6, <2>4
  <2> QED
    BY <2>2, <2>3, <2>5
<1>11. \A x \in S : inner[x] \in DOMAIN part[key[x]]
  <2>1. TAKE x \in S
  <2>2. key[x] \in K
    BY <1>5
  <2>3. DOMAIN part[key[x]] = {GroupOfWarning(rows[id]) : id \in Of(key[x])}
    BY <1>4, <1>7, <2>2
  <2> QED
    BY <1>8, <2>3
<1>12. Cardinality(S) = SumFunction([y \in K |-> SumFunction(part[y])])
  <2>1. CountedBy(S, K, key, inner, part)
    BY <1>5, <1>10, <1>11 DEF CountedBy
  <2> QED
    BY <1>2, <1>3, <2>1, CountByTwoKeys
<1>13. [y \in K |-> SumFunction(part[y])] =
         [y \in K |-> SumFunction([g \in DOMAIN Summary(y) |-> Summary(y)[g].warnings])]
  BY <1>7
<1> QED
  BY <1>12, <1>13 DEF S, rows, K, Summary

(* The province a burnt area is counted in. *)
ProvinceOfCentroid(row) == CHOOSE c \in Provinces : c \in CentroidProvinces(row)

LEMMA OneProvince ==
    ASSUME NEW row, NEW c \in CentroidProvinces(row)
    PROVE  c \in Provinces /\ c = ProvinceOfCentroid(row)
<1> DEFINE d == ProvinceOfCentroid(row)
<1>1. c \in Provinces /\ Centroid(row.geom) \in ProvinceArea[c]
  BY DEF CentroidProvinces
<1>2. d \in Provinces /\ d \in CentroidProvinces(row)
  BY <1>1 DEF ProvinceOfCentroid
<1>3. Centroid(row.geom) \in ProvinceArea[d]
  BY <1>2 DEF CentroidProvinces
<1> HIDE DEF d
<1>4. c = d
  BY <1>1, <1>2, <1>3, HistoryQueriesAssumption
<1> QED
  BY <1>1, <1>4 DEF d

(* Each burnt area counts in one province at most, that of its centroid. *)
LEMMA FiresByProvince ==
    ASSUME NEW snapshots, SnapshotsKnown(snapshots)
    PROVE  LET fires == RowsOf(snapshots, "effis")
               Burned(y) == BurnedAreaByMonth(fires, y, NULL)
           IN  Cardinality(BurntAreasOf(fires)) >=
                 SumFunction([y \in AllYears(snapshots) |->
                    SumFunction([g \in DOMAIN Burned(y) |-> Burned(y)[g].events])])
<1> DEFINE rows == RowsOf(snapshots, "effis")
           B == BurntAreasOf(rows)
           S == {id \in B : CentroidProvinces(rows[id]) # {}}
           K == AllYears(snapshots)
           Burned(y) == BurnedAreaByMonth(rows, y, NULL)
           key == [id \in S |-> UtcYear(rows[id])]
           inner == [id \in S |-> <<ProvinceOfCentroid(rows[id]), UtcMonth(rows[id])>>]
           part == [y \in K |-> [g \in DOMAIN Burned(y) |-> Burned(y)[g].events]]
           Of(y, c, m) == {id \in B : UtcYear(rows[id]) = y /\ c \in CentroidProvinces(rows[id]) /\ UtcMonth(rows[id]) = m}
<1>1. RowsOfSource(rows, "effis") /\ B \in SUBSET DOMAIN rows
  BY SnapshotRows DEF Sources, BurntAreasOf
<1>2. IsFiniteSet(B) /\ \A id \in B : id \in DOMAIN rows /\ EventRow(rows[id])
  BY <1>1, FS_Subset DEF RowsOfSource
<1>3. IsFiniteSet(K) /\ \A id \in DOMAIN rows : UtcYear(rows[id]) \in K
  BY YearsFacts DEF Sources
<1>4. \A y : /\ DOMAIN Burned(y) = {h \in Provinces \X Months : Of(y, h[1], h[2]) # {}}
             /\ \A g \in DOMAIN Burned(y) : Burned(y)[g].events = Cardinality(Of(y, g[1], g[2]))
  <2>1. TAKE y
  <2> DEFINE chosen == {id \in B : UtcYear(rows[id]) = y}
             In(c, m) == {id \in chosen : c \in CentroidProvinces(rows[id]) /\ UtcMonth(rows[id]) = m}
  <2>2. Burned(y) = [g \in {h \in Provinces \X Months : In(h[1], h[2]) # {}} |->
                       [events |-> Cardinality(In(g[1], g[2])),
                        burned_area_ha |-> Rounded(SumFunction([id \in In(g[1], g[2]) |-> rows[id].attrs.area_ha]))]]
    BY DEF BurnedAreaByMonth, Given
  <2>3. \A c, m : In(c, m) = Of(y, c, m)
    OBVIOUS
  <2> HIDE DEF chosen, Of, In, Burned
  <2>4. DOMAIN Burned(y) = {h \in Provinces \X Months : In(h[1], h[2]) # {}}
    BY <2>2
  <2>5. \A g \in DOMAIN Burned(y) : Burned(y)[g].events = Cardinality(In(g[1], g[2]))
    BY <2>2
  <2>6. DOMAIN Burned(y) = {h \in Provinces \X Months : Of(y, h[1], h[2]) # {}}
    BY <2>3, <2>4
  <2>7. \A g \in DOMAIN Burned(y) : Burned(y)[g].events = Cardinality(Of(y, g[1], g[2]))
    BY <2>3, <2>5
  <2> QED
    BY <2>6, <2>7
<1>5. \A id \in B : UtcMonth(rows[id]) \in Months
  BY <1>2, UtcMonths
<1>6. \A id \in S : /\ ProvinceOfCentroid(rows[id]) \in Provinces
                    /\ ProvinceOfCentroid(rows[id]) \in CentroidProvinces(rows[id])
  BY OneProvince
<1>7. \A y \in K : \A g \in Provinces \X Months :
         Of(y, g[1], g[2]) = {x \in S : key[x] = y /\ inner[x] = g}
  <2>1. TAKE y \in K
  <2>2. TAKE g \in Provinces \X Months
  <2>3. g = <<g[1], g[2]>>
    OBVIOUS
  <2>4. \A x \in Of(y, g[1], g[2]) : x \in S /\ key[x] = y /\ inner[x] = g
    <3>1. TAKE x \in Of(y, g[1], g[2])
    <3>2. x \in B /\ UtcYear(rows[x]) = y /\ g[1] \in CentroidProvinces(rows[x]) /\ UtcMonth(rows[x]) = g[2]
      OBVIOUS
    <3>3. x \in S /\ g[1] = ProvinceOfCentroid(rows[x])
      BY <3>2, OneProvince
    <3> QED
      BY <2>3, <3>2, <3>3
  <2>5. \A x \in S : key[x] = y /\ inner[x] = g => x \in Of(y, g[1], g[2])
    BY <1>6, <2>3
  <2> HIDE DEF Of, S
  <2>6. \A x \in Of(y, g[1], g[2]) : x \in {z \in S : key[z] = y /\ inner[z] = g}
    BY <2>4
  <2> QED
    BY <2>5, <2>6
<1>8. S \in SUBSET B /\ IsFiniteSet(S) /\ Cardinality(S) <= Cardinality(B)
  <2>1. S \in SUBSET B
    OBVIOUS
  <2> HIDE DEF S, B
  <2> QED
    BY <1>2, <2>1, FS_Subset
<1> HIDE DEF rows, B, S, K, Burned
<1>9. key \in [S -> K] /\ DOMAIN inner = S
  BY <1>2, <1>3, <1>8
<1>10. part = [y \in K |-> part[y]]
       /\ \A y \in K : part[y] = [g \in DOMAIN Burned(y) |-> Burned(y)[g].events] /\ DOMAIN part[y] = DOMAIN Burned(y)
  OBVIOUS
<1>11. \A x \in S : inner[x] \in Provinces \X Months
  BY <1>5, <1>6, <1>8
<1> HIDE DEF key, part, inner, Of
<1>12. \A y \in K : IsFiniteSet(DOMAIN Burned(y))
  <2>1. TAKE y \in K
  <2>2. DOMAIN Burned(y) \in SUBSET (Provinces \X Months)
    BY <1>4
  <2>3. IsFiniteSet(Provinces \X Months)
    BY EventRowsAssumption, MonthsFinite, FS_Product
  <2> QED
    BY <2>2, <2>3, FS_Subset
<1>13. \A y \in K : /\ part[y] = [l \in DOMAIN part[y] |-> part[y][l]]
                    /\ IsFiniteSet(DOMAIN part[y])
                    /\ \A l \in DOMAIN part[y] :
                          part[y][l] = Cardinality({x \in S : key[x] = y /\ inner[x] = l})
  <2>1. TAKE y \in K
  <2>2. IsFiniteSet(DOMAIN Burned(y)) /\ DOMAIN Burned(y) \in SUBSET (Provinces \X Months)
    BY <1>4, <1>12
  <2>3. part[y] = [g \in DOMAIN Burned(y) |-> Burned(y)[g].events] /\ DOMAIN part[y] = DOMAIN Burned(y)
    BY <1>10
  <2>4. \A l \in DOMAIN Burned(y) : part[y][l] = Cardinality(Of(y, l[1], l[2]))
    BY <1>4, <2>3
  <2>5. \A l \in DOMAIN Burned(y) : part[y][l] = Cardinality({x \in S : key[x] = y /\ inner[x] = l})
    BY <1>7, <2>2, <2>4
  <2> QED
    BY <2>2, <2>3, <2>5
<1>14. \A x \in S : inner[x] \in DOMAIN part[key[x]]
  <2>1. TAKE x \in S
  <2>2. key[x] \in K /\ inner[x] \in Provinces \X Months
    BY <1>9, <1>11
  <2>3. x \in Of(key[x], inner[x][1], inner[x][2])
    BY <1>7, <2>2
  <2>4. inner[x] \in DOMAIN Burned(key[x])
    BY <1>4, <2>2, <2>3
  <2> QED
    BY <1>10, <2>2, <2>4
<1>15. Cardinality(S) = SumFunction([y \in K |-> SumFunction(part[y])])
  <2>1. CountedBy(S, K, key, inner, part)
    BY <1>9, <1>13, <1>14 DEF CountedBy
  <2> QED
    BY <1>3, <1>8, <2>1, CountByTwoKeys
<1>16. [y \in K |-> SumFunction(part[y])] =
         [y \in K |-> SumFunction([g \in DOMAIN Burned(y) |-> Burned(y)[g].events])]
  BY <1>10
<1>17. Cardinality(B) >= SumFunction([y \in K |-> SumFunction([g \in DOMAIN Burned(y) |-> Burned(y)[g].events])])
  BY <1>2, <1>8, <1>15, <1>16, FS_CardinalityType
<1> QED
  BY <1>17 DEF B, rows, K, Burned

LEMMA EventsOnce ==
    ASSUME NEW snapshots, SnapshotsKnown(snapshots)
    PROVE  EventsCountOnce(snapshots, AllYears(snapshots))
BY QuakesByCivilMonth, QuakesByUtcMonth, WarningsByPhenomenon, FiresByProvince DEF EventsCountOnce

LEMMA KnownHistoriesAgree ==
    ASSUME NEW snapshots, SnapshotsKnown(snapshots)
    PROVE  HistoryAgrees(snapshots)
<1>1. AllYears(snapshots) \subseteq Nat
  BY YearsFacts
<1>2. \A y \in AllYears(snapshots) : \A code \in Provinces : YearIsSumOfMonths(snapshots, y, code)
  BY <1>1, YearSums
<1>3. \A y \in AllYears(snapshots) : \A zone : DaysCountOnce(snapshots, y, zone)
  BY <1>1, DaysOfYear
<1>4. EventsCountOnce(snapshots, AllYears(snapshots))
  BY EventsOnce
<1> QED
  BY <1>2, <1>3, <1>4 DEF HistoryAgrees, AllYears

(* Every version a snapshot can hold is made of rows of its source. *)
LEMMA VersionOfRows ==
    ASSUME NEW s \in Sources, NEW v \in 0 .. Len(Versions[s])
    PROVE  RowsOfSource(ExportRows(s, v), s)
<1>1. Len(Versions[s]) \in Nat
  BY ReadSideAssumption
<1>2. CASE v = 0
  <2>1. ExportRows(s, v) = NoRows /\ DOMAIN NoRows = {}
    BY <1>2 DEF ExportRows, NoRows
  <2> QED
    BY <2>1, FS_EmptySet DEF RowsOfSource
<1>3. CASE v # 0
  <2>1. v \in 1 .. Len(Versions[s]) /\ ExportRows(s, v) = Versions[s][v]
    BY <1>1, <1>3 DEF ExportRows
  <2> QED
    BY <2>1, EventRowsAssumption DEF RowsOfSource
<1> QED
  BY <1>2, <1>3

LEMMA VersionsOfSources ==
    ASSUME NEW f, f \in AllVersions
    PROVE  f \in [Sources -> Nat] /\ \A s \in Sources : f[s] \in 0 .. Len(Versions[s])
<1>1. \A s \in Sources : Len(Versions[s]) \in Nat
  BY ReadSideAssumption
<1>2. PICK e \in 0 .. Len(Versions["effis"]), i \in 0 .. Len(Versions["ign"]),
           a \in 0 .. Len(Versions["aemet"]) : f = [effis |-> e, ign |-> i, aemet |-> a]
  BY DEF AllVersions
<1>3. f \in [Sources -> Nat]
  BY <1>1, <1>2 DEF Sources
<1> QED
  BY <1>2, <1>3 DEF Sources

LEMMA KnownVersions ==
    ASSUME NEW f \in [Sources -> Nat], \A s \in Sources : f[s] <= Len(Versions[s])
    PROVE  f \in AllVersions
<1>1. \A s \in Sources : f[s] \in 0 .. Len(Versions[s])
  BY ReadSideAssumption
<1>2. f = [effis |-> f["effis"], ign |-> f["ign"], aemet |-> f["aemet"]]
  BY DEF Sources
<1> QED
  BY <1>1, <1>2 DEF AllVersions, Sources

(***************************************************************************)
(* Whatever batches the snapshots hold, the histories of the analytics     *)
(* plane tell of the same events: a year is the sum of its months, a day   *)
(* counts once, and every event of a source counts once by month, by       *)
(* phenomenon or by province (analytics/queries/zones.py, earthquakes.py,  *)
(* warnings.py and wildfires.py).                                          *)
(***************************************************************************)
THEOREM HistoriesAlwaysAgree == Spec => []HistoriesAgree
<1>1. Init => IInv /\ Bounds
  <2> SUFFICES ASSUME Init PROVE IInv /\ Bounds
    OBVIOUS
  <2>1. Bounds
    BY ReadSideAssumption DEF Init, Bounds, NoListing
  <2> QED
    BY <2>1, Initially
<1>2. IInv /\ Bounds /\ [Next]_vars => (IInv /\ Bounds)'
  BY Inductive, BoundsKept
<1>3. IInv /\ Bounds => HistoriesAgree
  <2> SUFFICES ASSUME IInv, Bounds PROVE HistoriesAgree
    OBVIOUS
  <2>1. /\ file \in [Sources -> Nat] /\ version \in [Sources -> Nat]
        /\ \A s \in Sources : file[s] <= version[s] /\ version[s] <= Len(Versions[s])
    BY DEF IInv, Shapes, BatchesKnown, Bounds
  <2>2. file \in AllVersions
    <3>1. \A s \in Sources : file[s] <= Len(Versions[s])
      BY <2>1, ReadSideAssumption
    <3> QED
      BY <2>1, <3>1, KnownVersions
  <2>3. SnapshotsKnown(SnapshotsOf(file))
    <3>1. SUFFICES ASSUME NEW s \in DOMAIN SnapshotsOf(file)
                   PROVE  RowsOfSource(SnapshotsOf(file)[s], s)
      BY DEF SnapshotsKnown
    <3>2. s \in Sources /\ SnapshotsOf(file)[s] = ExportRows(s, file[s])
      BY DEF SnapshotsOf
    <3>3. file[s] \in 0 .. Len(Versions[s])
      BY <2>2, <3>2, VersionsOfSources
    <3> QED
      BY <3>2, <3>3, VersionOfRows
  <2>4. HistoryAgrees(SnapshotsOf(file))
    BY <2>3, KnownHistoriesAgree
  <2> QED
    BY <2>2, <2>4 DEF HistoriesAgree, AgreeingHistories
<1> QED
  BY <1>1, <1>2, <1>3, PTL DEF Spec

(***************************************************************************)
(* The views of the events.  The box around a point holds the rows within  *)
(* the radius, and so does the envelope of the prefilter.                  *)
(***************************************************************************)
LEMMA LeastOf ==
    ASSUME NEW S \in SUBSET Nat, S # {}
    PROVE  Min(S) \in S /\ \A n \in S : Min(S) <= n
<1>1. \E m \in S : \A n \in S : m <= n
  BY LeastNatural
<1> QED
  BY <1>1 DEF Min

(* A number is no larger than another when its square is not. *)
LEMMA SquareRoots ==
    ASSUME NEW x \in Nat, NEW r \in Nat, Square(x) <= Square(r)
    PROVE  x <= r
<1> SUFFICES ASSUME r + 1 <= x PROVE FALSE
  OBVIOUS
<1>1. (r + 1) * (r + 1) <= x * x
  <2>1. (r + 1) * (r + 1) <= x * (r + 1)
    OBVIOUS
  <2>2. x * (r + 1) <= x * x
    OBVIOUS
  <2>3. (r + 1) * (r + 1) \in Int /\ x * (r + 1) \in Int /\ x * x \in Int
    OBVIOUS
  <2> QED
    BY <2>1, <2>2, <2>3
<1>2. (r + 1) * (r + 1) = r * r + 2 * r + 1
  OBVIOUS
<1>3. x * x <= r * r
  BY DEF Square
<1> QED
  BY <1>1, <1>2, <1>3

LEMMA DegreesFacts ==
    ASSUME NEW m \in Nat \ {0}, NEW r \in Nat
    PROVE  DegreesIn(r, m) \in Nat \ {0} /\ DegreesIn(r, m) <= 1 + r
<1> DEFINE q == r \div m
<1>1. q \in Nat
  OBVIOUS
<1>2. m * q <= r
  OBVIOUS
<1> HIDE DEF q
<1>3. q <= m * q /\ m * q \in Nat
  BY <1>1
<1>4. q <= r
  BY <1>1, <1>2, <1>3
<1> QED
  BY <1>1, <1>4 DEF DegreesIn, q

(* So many metres are no more degrees than DegreesIn says, and the whole metres of them no more. *)
LEMMA MetresOfDegrees ==
    ASSUME NEW m \in Nat \ {0}, NEW d \in Int, NEW r \in Nat, Square(m * d) <= Square(r)
    PROVE  /\ m * Magnitude(d) \in Nat /\ m * Magnitude(d) <= r
           /\ Magnitude(d) \in Nat /\ Magnitude(d) <= DegreesIn(r, m)
<1> DEFINE a == Magnitude(d)
           q == r \div m
<1>1. a \in Nat /\ (a = d \/ a = -d)
  BY DEF Magnitude
<1>2. Square(m * d) = Square(m * a)
  <2>1. (m * (-d)) * (m * (-d)) = (m * d) * (m * d)
    OBVIOUS
  <2> HIDE DEF a
  <2> QED
    BY <1>1, <2>1 DEF Square
<1> HIDE DEF a
<1>3. m * a \in Nat
  BY <1>1
<1>4. m * a <= r
  BY <1>2, <1>3, SquareRoots
<1>5. q \in Nat /\ r < m * (q + 1)
  <2>1. q \in Nat
    OBVIOUS
  <2>2. r < m * q + m
    OBVIOUS
  <2>3. m * (q + 1) = m * q + m /\ m * q \in Nat
    BY <2>1
  <2> HIDE DEF q
  <2> QED
    BY <2>1, <2>2, <2>3
<1> HIDE DEF q
<1>6. a <= q
  <2> SUFFICES ASSUME q + 1 <= a PROVE FALSE
    BY <1>1, <1>5
  <2>1. m * (q + 1) <= m * a
    BY <1>1, <1>5
  <2>2. m * (q + 1) \in Nat
    BY <1>5
  <2> QED
    BY <1>3, <1>4, <1>5, <2>1, <2>2
<1>7. a <= DegreesIn(r, m)
  BY <1>1, <1>5, <1>6 DEF DegreesIn, q
<1> QED
  BY <1>1, <1>3, <1>4, <1>7 DEF a

(* The distance of two points. *)
LEMMA SquaredDistances ==
    ASSUME NEW p \in Int \X Int, NEW q \in Int \X Int
    PROVE  /\ SquaredDistance(p, q) \in Nat
           /\ SquaredDistance(p, p) = 0
           /\ \A r \in Nat : SquaredDistance(p, q) <= Square(r) =>
                 /\ Square(MetresPerLon * (p[1] - q[1])) <= Square(r)
                 /\ Square(MetresPerLat * (p[2] - q[2])) <= Square(r)
<1> DEFINE x == MetresPerLon * (p[1] - q[1])
           y == MetresPerLat * (p[2] - q[2])
<1>1. x \in Int /\ y \in Int
  BY EventRowsAssumption
<1>2. MetresPerLon * (p[1] - p[1]) = 0 /\ MetresPerLat * (p[2] - p[2]) = 0
  BY EventRowsAssumption
<1>3. SquaredDistance(p, p) = 0
  BY <1>2 DEF SquaredDistance, Square
<1>4. SquaredDistance(p, q) = Square(x) + Square(y)
  BY DEF SquaredDistance
<1> HIDE DEF x, y
<1>5. \A n \in Int : Square(n) \in Nat
  <2> SUFFICES ASSUME NEW n \in Int PROVE n * n >= 0
    BY DEF Square
  <2> QED
    OBVIOUS
<1>6. \A r \in Nat : Square(x) + Square(y) <= Square(r) => Square(x) <= Square(r) /\ Square(y) <= Square(r)
  <2>1. TAKE r \in Nat
  <2>2. r \in Int
    OBVIOUS
  <2>3. Square(x) \in Nat /\ Square(y) \in Nat /\ Square(r) \in Nat
    BY <1>1, <1>5, <2>2
  <2> QED
    BY <2>3
<1> QED
  BY <1>1, <1>3, <1>4, <1>5, <1>6 DEF x, y

(* The distance of two regions is that of two of their points. *)
LEMMA Distances ==
    ASSUME NEW g \in SUBSET (Int \X Int), g # {}, NEW h \in SUBSET (Int \X Int), h # {}
    PROVE  Distance(g, h) \in Nat
<1> DEFINE S == {SquaredDistance(p, q) : p \in g, q \in h}
<1>1. S \in SUBSET Nat /\ S # {}
  <2>1. \A p \in g, q \in h : SquaredDistance(p, q) \in Nat
    BY SquaredDistances
  <2> QED
    BY <2>1
<1>2. Distance(g, h) = Min(S)
  BY DEF Distance
<1> HIDE DEF S
<1> QED
  BY <1>1, <1>2, LeastOf

(***************************************************************************)
(* What lies within radius_m of a point is in the box around it, and the   *)
(* prefilter of near does not cut it: 101 hundredths of 995 thousandths of *)
(* the radius are more than the radius.                                    *)
(***************************************************************************)
LEMMA WithinBox ==
    ASSUME NEW g \in SUBSET (Int \X Int),
           NEW p, p.lon \in Int, p.lat \in Int, p.radius_m \in Nat,
           Within(g, {<<p.lon, p.lat>>}, p.radius_m)
    PROVE  /\ Intersects(g, BoxAround(<<p.lon, p.lat>>, p.radius_m))
           /\ Prefiltered(g, p)
<1> DEFINE r == p.radius_m
           c == <<p.lon, p.lat>>
           dx(q) == q[1] - p.lon
           dy(q) == q[2] - p.lat
<1>1. MetresPerLon \in Nat \ {0} /\ MetresPerLat \in Nat \ {0} /\ r \in Nat
  BY EventRowsAssumption
<1>2. PICK q \in g : SquaredDistance(q, c) <= Square(r)
  BY DEF Within
<1>3. q \in Int \X Int /\ c \in Int \X Int
  OBVIOUS
<1>4. q[1] \in Int /\ q[2] \in Int /\ dx(q) \in Int /\ dy(q) \in Int
  BY <1>3
<1>5. Square(MetresPerLon * dx(q)) <= Square(r) /\ Square(MetresPerLat * dy(q)) <= Square(r)
  BY <1>1, <1>2, <1>3, SquaredDistances
<1> DEFINE ax == Magnitude(dx(q))
           ay == Magnitude(dy(q))
<1>6. /\ MetresPerLon * ax \in Nat /\ MetresPerLon * ax <= r
      /\ ax \in Nat /\ ax <= DegreesIn(r, MetresPerLon)
  BY <1>1, <1>4, <1>5, MetresOfDegrees
<1>7. /\ MetresPerLat * ay \in Nat /\ MetresPerLat * ay <= r
      /\ ay \in Nat /\ ay <= DegreesIn(r, MetresPerLat)
  BY <1>1, <1>4, <1>5, MetresOfDegrees
<1>8. DegreesIn(r, MetresPerLon) \in Nat /\ DegreesIn(r, MetresPerLat) \in Nat
  BY <1>1, DegreesFacts
<1>9. Intersects(g, BoxAround(c, r))
  <2> DEFINE lon == DegreesIn(r, MetresPerLon)
             lat == DegreesIn(r, MetresPerLat)
  <2>1. BoxAround(c, r) = <<p.lon - lon, p.lat - lat, p.lon + lon, p.lat + lat>>
    BY DEF BoxAround
  <2>2. (ax = dx(q) \/ ax = -dx(q)) /\ (ay = dy(q) \/ ay = -dy(q))
    BY DEF Magnitude
  <2> HIDE DEF lon, lat, ax, ay
  <2>3. q[1] \in p.lon - lon .. p.lon + lon /\ q[2] \in p.lat - lat .. p.lat + lat
    BY <1>4, <1>6, <1>7, <1>8, <2>2 DEF lon, lat
  <2> QED
    BY <2>1, <2>3 DEF Intersects, InEnvelope
<1>10. Prefiltered(g, p)
  <2>1. \A n \in Nat : n <= r => 100000 * n <= 101 * BufferReach * r
    <3>1. BufferReach \in Nat /\ BufferReach >= 995
      BY EventQueriesAssumption
    <3>2. 101 * BufferReach >= 100000
      BY <3>1
    <3>3. 101 * BufferReach * r >= 100000 * r
      <4> DEFINE b == 101 * BufferReach
      <4>1. b \in Nat /\ b >= 100000
        BY <3>1, <3>2
      <4> HIDE DEF b
      <4>2. b * r >= 100000 * r
        BY <1>1, <4>1
      <4> QED
        BY <4>2 DEF b
    <3>4. 101 * BufferReach * r \in Nat
      BY <1>1, <3>1
    <3> QED
      BY <1>1, <3>3, <3>4
  <2> HIDE DEF ax, ay
  <2>2. 100000 * (MetresPerLon * ax) = 100000 * MetresPerLon * ax
        /\ 100000 * (MetresPerLat * ay) = 100000 * MetresPerLat * ay
    BY <1>1, <1>6, <1>7
  <2>3. /\ 100000 * MetresPerLon * ax <= 101 * BufferReach * r
        /\ 100000 * MetresPerLat * ay <= 101 * BufferReach * r
    BY <1>6, <1>7, <2>1, <2>2
  <2> QED
    BY <2>3 DEF Prefiltered, ax, ay
<1> QED
  BY <1>9, <1>10

(* A table the queries are asked of. *)
RowsTable(table) ==
    /\ TableOfRows(table)
    /\ \A id \in DOMAIN table : EventRow(table[id])

(* The filters of the three views, whatever else each is asked. *)
FilterFields == {"hazard_types", "source", "severity_min", "starts_after", "starts_before", "active"}

SameFilters(p, f) ==
    /\ p.hazard_types = f.hazard_types /\ p.source = f.source /\ p.severity_min = f.severity_min
    /\ p.starts_after = f.starts_after /\ p.starts_before = f.starts_before /\ p.active = f.active

LEMMA FilterFacts ==
    ASSUME NEW f \in Filters
    PROVE  /\ DOMAIN f = FilterFields
           /\ ValidFilters(f) /\ f.source = NULL
<1>1. /\ DOMAIN NoFilters = FilterFields /\ NoFilters.hazard_types = {} /\ NoFilters.source = NULL
      /\ NoFilters.severity_min = NULL
  BY DEF NoFilters, FilterFields
<1>2. /\ DOMAIN f = FilterFields /\ f.source = NULL
      /\ f.hazard_types \in {{}, {"wildfire", "earthquake"}}
      /\ f.severity_min \in {NULL, 3}
  BY DEF Filters, NoFilters, FilterFields
<1> QED
  BY <1>2 DEF ValidFilters, Given, HazardTypes

LEMMA FiltersKept ==
    ASSUME NEW p, NEW f, SameFilters(p, f)
    PROVE  /\ ValidFilters(p) <=> ValidFilters(f)
           /\ \A row, time : Passes(row, p, time) <=> Passes(row, f, time)
BY DEF SameFilters, ValidFilters, Passes

LEMMA WithFacts ==
    ASSUME NEW f, DOMAIN f = FilterFields, NEW more, DOMAIN more \cap FilterFields = {}
    PROVE  /\ SameFilters(With(f, more), f)
           /\ \A k \in DOMAIN more : With(f, more)[k] = more[k]
<1>1. \A k \in FilterFields : With(f, more)[k] = f[k]
  BY DEF With
<1>2. \A k \in DOMAIN more : With(f, more)[k] = more[k]
  BY DEF With
<1> QED
  BY <1>1, <1>2 DEF SameFilters, FilterFields

(***************************************************************************)
(* The list of a table that fits a page holds all the rows that match.     *)
(***************************************************************************)
Chosen(table, f, bbox, t) ==
    {id \in DOMAIN table : Intersects(table[id].geom, bbox) /\ Passes(table[id], f, t)}

LEMMA WholeList ==
    ASSUME NEW table, TableOfRows(table), Cardinality(DOMAIN table) <= 1000,
           NEW f \in Filters, NEW bbox, bbox # NULL, ValidBbox(bbox), NEW t
    PROVE  LET S == Chosen(table, f, bbox, t)
               list == ListAll(table, f, bbox, t)
           IN  /\ list.features \in Seq(S)
               /\ Len(list.features) = Cardinality(S)
               /\ \A i \in 1 .. Cardinality(S) : list.features[i] = Newest(table, S)[i]
               /\ list.attribution = AttributionsFor(SourcesOf(table, Elements(list.features)))
<1> DEFINE S == Chosen(table, f, bbox, t)
           more == [bbox |-> bbox, province |-> NULL, limit |-> 1000, cursor |-> NULL]
           p == With(f, more)
           q == Newest(table, S)
           n == p.limit + 1
           rows == Limited(q, n)
           list == ListEvents(table, p, t)
<1>1. list = ListAll(table, f, bbox, t)
  BY DEF ListAll
<1>2. DOMAIN f = FilterFields /\ ValidFilters(f)
  BY FilterFacts
<1>3. DOMAIN more = {"bbox", "province", "limit", "cursor"} /\ DOMAIN more \cap FilterFields = {}
  BY DEF FilterFields
<1>4. SameFilters(p, f) /\ \A k \in DOMAIN more : p[k] = more[k]
  BY <1>2, <1>3, WithFacts
<1>5. p.bbox = bbox /\ p.province = NULL /\ p.limit = 1000 /\ p.cursor = NULL
  BY <1>3, <1>4
<1> HIDE DEF p
<1>6. ValidFilters(p) /\ ValidLimit(p) /\ ValidBbox(p.bbox) /\ ~ Given(p.cursor) /\ ~ Given(p.province)
  BY <1>2, <1>4, <1>5, FiltersKept DEF ValidLimit, Given
<1>7. Listable(table, p, t, NULL) = S
  BY <1>4, <1>5, FiltersKept DEF Listable, Matches, Chosen, Given
<1>8. S \in SUBSET DOMAIN table
  BY DEF Chosen
<1> HIDE DEF S
<1>9. Cardinality(S) \in Nat /\ Cardinality(S) <= 1000
  <2>1. IsFiniteSet(DOMAIN table)
    BY DEF TableOfRows
  <2>2. IsFiniteSet(S) /\ Cardinality(S) <= Cardinality(DOMAIN table)
    BY <1>8, <2>1, FS_Subset
  <2> QED
    BY <2>1, <2>2, FS_CardinalityType
<1>10. q \in [1 .. Cardinality(S) -> S]
  BY <1>8, NewestFacts
<1> HIDE DEF q
<1>11. /\ rows \in Seq(S) /\ Len(rows) = Cardinality(S)
       /\ \A i \in 1 .. Cardinality(S) : rows[i] = q[i]
  <2>1. n \in Nat /\ Cardinality(S) <= n
    BY <1>5, <1>9
  <2> HIDE DEF n
  <2>2. FirstOf(q, Cardinality(S), S, n)
    BY <1>9, <1>10, <2>1, LimitedFacts
  <2> QED
    BY <2>1, <2>2 DEF FirstOf
<1>12. LET page == ListPage(table, p, t, NULL)
       IN  page.items = rows /\ page.next_key = NULL
  <2> HIDE DEF rows
  <2>1. Len(rows) <= p.limit
    BY <1>5, <1>9, <1>11
  <2>2. Limited(InOrder(Listable(table, p, t, NULL), LAMBDA a, b : Newer(Key(table, a), Key(table, b))), p.limit + 1) = rows
    BY <1>7 DEF q, Newest, rows
  <2> QED
    BY <2>1, <2>2 DEF ListPage
<1> HIDE DEF rows
<1>13. /\ list.features = rows
       /\ list.attribution = AttributionsFor(SourcesOf(table, {rows[i] : i \in 1 .. Len(rows)}) \cup {})
  BY <1>6, <1>12, Zenon DEF ListEvents
<1>14. DOMAIN rows = 1 .. Len(rows)
  BY <1>11
<1>15. list.attribution = AttributionsFor(SourcesOf(table, Elements(rows)))
  <2>1. Elements(rows) = {rows[i] : i \in 1 .. Len(rows)}
    BY <1>14 DEF Elements
  <2>2. SourcesOf(table, Elements(rows)) \cup {} = SourcesOf(table, Elements(rows))
    OBVIOUS
  <2> QED
    BY <1>13, <2>1, <2>2
<1> QED
  BY <1>1, <1>11, <1>13, <1>15 DEF S, q

(* The order of near. *)
NearerIn(table, S, p) ==
    {e \in S \X S :
        \/ DistanceTo(table[e[1]], p) < DistanceTo(table[e[2]], p)
        \/ /\ DistanceTo(table[e[1]], p) = DistanceTo(table[e[2]], p)
           /\ e[1] < e[2]}

NearRows(table, p, time) ==
    {id \in DOMAIN table :
        /\ Prefiltered(table[id].geom, p)
        /\ Within(table[id].geom, {<<p.lon, p.lat>>}, p.radius_m)
        /\ Passes(table[id], p, time)}

(* The nearest rows, in their order, when they are not more than the limit. *)
LEMMA NearPageFacts ==
    ASSUME NEW table, TableOfRows(table), NEW p, p.limit \in Nat, NEW time,
           Cardinality(DOMAIN table) <= p.limit,
           \A id \in DOMAIN table : DistanceTo(table[id], p) \in Nat
    PROVE  LET S == NearRows(table, p, time)
               ids == NearPage(table, p, time)
           IN  /\ ids \in Seq(S) /\ Len(ids) = Cardinality(S) /\ Elements(ids) = S
               /\ \A i, j \in 1 .. Len(ids) :
                     i < j => DistanceTo(table[ids[i]], p) <= DistanceTo(table[ids[j]], p)
<1> DEFINE S == NearRows(table, p, time)
           R == NearerIn(table, S, p)
           d(a) == DistanceTo(table[a], p)
           Preds(x) == {y \in S : d(y) < d(x) \/ (d(y) = d(x) /\ y < x)}
           q == [i \in 1 .. Cardinality(S) |-> CHOOSE x \in S : Cardinality(Preds(x)) = i - 1]
           ids == NearPage(table, p, time)
<1>1. S \in SUBSET DOMAIN table
  BY DEF NearRows
<1>2. ids = Limited(q, p.limit)
  BY DEF NearPage, InOrder, NearRows
<1>3. IsFiniteSet(S) /\ Cardinality(S) \in Nat /\ Cardinality(S) <= p.limit
  <2>1. IsFiniteSet(DOMAIN table)
    BY DEF TableOfRows
  <2> HIDE DEF S
  <2>2. IsFiniteSet(S) /\ Cardinality(S) <= Cardinality(DOMAIN table)
    BY <1>1, <2>1, FS_Subset
  <2> QED
    BY <2>1, <2>2, FS_CardinalityType
<1>4. \A a \in S : a \in Nat /\ d(a) \in Nat
  BY <1>1 DEF TableOfRows
<1> HIDE DEF S, ids
<1>5. \A a, b \in S : <<a, b>> \in R <=> d(a) < d(b) \/ (d(a) = d(b) /\ a < b)
  BY DEF NearerIn
<1>6. \A x \in S : Preds(x) = Ahead(S, R, x)
  BY <1>5 DEF Ahead
<1> HIDE DEF R, d
<1>7. TotalOrder(S, R)
  <2>1. \A a \in S : <<a, a>> \notin R
    BY <1>4, <1>5
  <2>2. ASSUME NEW a \in S, NEW b \in S, NEW c \in S, <<a, b>> \in R, <<b, c>> \in R
        PROVE  <<a, c>> \in R
    <3>1. a \in Nat /\ b \in Nat /\ c \in Nat /\ d(a) \in Nat /\ d(b) \in Nat /\ d(c) \in Nat
      BY <1>4
    <3>2. /\ d(a) < d(b) \/ (d(a) = d(b) /\ a < b)
          /\ d(b) < d(c) \/ (d(b) = d(c) /\ b < c)
      BY <1>5, <2>2
    <3>3. d(a) < d(c) \/ (d(a) = d(c) /\ a < c)
      BY <3>1, <3>2
    <3> QED
      BY <1>5, <3>3
  <2>3. ASSUME NEW a \in S, NEW b \in S, a # b PROVE <<a, b>> \in R \/ <<b, a>> \in R
    <3>1. a \in Nat /\ b \in Nat /\ d(a) \in Nat /\ d(b) \in Nat
      BY <1>4
    <3>2. \/ d(a) < d(b) \/ (d(a) = d(b) /\ a < b)
          \/ d(b) < d(a) \/ (d(b) = d(a) /\ b < a)
      BY <2>3, <3>1
    <3> QED
      BY <1>5, <3>2
  <2> QED
    BY <2>1, <2>2, <2>3 DEF TotalOrder
<1>8. Sorted(q, S, R)
  <2> HIDE DEF Preds
  <2>1. DOMAIN q = 1 .. Cardinality(S) /\ q = [i \in DOMAIN q |-> q[i]]
    OBVIOUS
  <2>2. \A i \in DOMAIN q :
           (\E x \in S : Cardinality(Ahead(S, R, x)) = i - 1) =>
              q[i] \in S /\ Cardinality(Ahead(S, R, q[i])) = i - 1
    <3>1. TAKE i \in DOMAIN q
    <3>2. HAVE \E x \in S : Cardinality(Ahead(S, R, x)) = i - 1
    <3>3. \E x \in S : Cardinality(Preds(x)) = i - 1
      BY <1>6, <3>2
    <3>4. q[i] \in S /\ Cardinality(Preds(q[i])) = i - 1
      BY <3>3
    <3> QED
      BY <1>6, <3>4
  <2> HIDE DEF q
  <2> QED
    BY <1>3, <1>7, <2>1, <2>2, OrderFacts
<1> HIDE DEF q
<1>9. /\ q \in [1 .. Cardinality(S) -> S]
      /\ \A x \in S : \E i \in 1 .. Cardinality(S) : q[i] = x
      /\ \A i, j \in 1 .. Cardinality(S) : i < j => <<q[i], q[j]>> \in R
  BY <1>8 DEF Sorted
<1>10. /\ ids \in Seq(S) /\ Len(ids) = Cardinality(S)
       /\ \A i \in 1 .. Cardinality(S) : ids[i] = q[i]
  <2> DEFINE n == p.limit
             m == Cardinality(S)
  <2>1. n \in Nat /\ m \in Nat /\ m <= n /\ q \in [1 .. m -> S]
    BY <1>3, <1>9
  <2> HIDE DEF n, m
  <2>2. FirstOf(q, m, S, n)
    BY <2>1, LimitedFacts
  <2>3. /\ Limited(q, n) \in Seq(S) /\ Len(Limited(q, n)) = m
        /\ \A i \in 1 .. m : Limited(q, n)[i] = q[i]
    BY <2>1, <2>2 DEF FirstOf
  <2>4. /\ Limited(q, p.limit) \in Seq(S) /\ Len(Limited(q, p.limit)) = Cardinality(S)
        /\ \A i \in 1 .. Cardinality(S) : Limited(q, p.limit)[i] = q[i]
    BY <2>3 DEF n, m
  <2> QED
    BY <1>2, <2>4
<1>11. Elements(ids) = S
  <2>1. DOMAIN ids = 1 .. Cardinality(S)
    BY <1>10
  <2> QED
    BY <1>9, <1>10, <2>1 DEF Elements
<1>12. \A i, j \in 1 .. Len(ids) : i < j => d(ids[i]) <= d(ids[j])
  <2>1. TAKE i \in 1 .. Len(ids), j \in 1 .. Len(ids)
  <2>2. HAVE i < j
  <2>3. ids[i] \in S /\ ids[j] \in S /\ <<ids[i], ids[j]>> \in R
    BY <1>9, <1>10, <2>2
  <2> QED
    BY <1>4, <1>5, <2>3
<1> QED
  BY <1>10, <1>11, <1>12 DEF S, ids, d

LEMMA SmallRadii ==
    \A n \in 1 .. 5 : n \in Radii
<1>1. MaxRadius \in Int /\ 5 <= MaxRadius
  BY DEF MaxRadius
<1> QED
  BY <1>1 DEF Radii

(* Where the two are compared. *)
LEMMA NearPoint ==
    ASSUME NEW p, p.lon \in 0 .. 4, p.lat \in 0 .. 2, p.radius_m \in 1 .. 5
    PROVE  ValidPoint(p)
<1>1. p.lon \in -180 .. 180 /\ p.lat \in -90 .. 90
  OBVIOUS
<1>2. p.radius_m \in Radii
  BY SmallRadii
<1> QED
  BY <1>1, <1>2 DEF ValidPoint

(* What is near a point is what lies in the circle, of the list of the box around it. *)
LEMMA NearAgrees ==
    ASSUME NEW table, RowsTable(table), Cardinality(DOMAIN table) <= 1000,
           NEW f \in Filters, NEW t, NEW q \in {<<0, 0>>, <<4, 2>>}, NEW radius_m \in {3, 5}
    PROVE  ListAgreesWithNear(table, f, q, radius_m, t)
<1> DEFINE box == BoxAround(q, radius_m)
           more == [lon |-> q[1], lat |-> q[2], radius_m |-> radius_m, limit |-> 1000]
           p == With(f, more)
           S == Chosen(table, f, box, t)
           list == ListAll(table, f, box, t)
           near == NearAll(table, f, q, radius_m, t)
           ids == NearPage(table, p, t)
           InCircle(geom) == \E x \in geom : SquaredDistance(x, q) <= Square(radius_m)
           N == NearRows(table, p, t)
<1>1. TableOfRows(table)
  BY DEF RowsTable
<1>2. DOMAIN f = FilterFields /\ ValidFilters(f)
  BY FilterFacts
<1>3. DOMAIN more = {"lon", "lat", "radius_m", "limit"} /\ DOMAIN more \cap FilterFields = {}
  BY DEF FilterFields
<1>4. SameFilters(p, f) /\ \A k \in DOMAIN more : p[k] = more[k]
  BY <1>2, <1>3, WithFacts
<1>5. p.lon = q[1] /\ p.lat = q[2] /\ p.radius_m = radius_m /\ p.limit = 1000
  BY <1>3, <1>4
<1>6. q[1] \in Int /\ q[2] \in Int /\ radius_m \in Nat /\ q[1] \in 0 .. 4 /\ q[2] \in 0 .. 2
      /\ radius_m \in 1 .. 5
  OBVIOUS
<1> HIDE DEF p
<1>7. ValidFilters(p) /\ ValidLimit(p) /\ ValidPoint(p)
  <2>1. ValidFilters(p)
    BY <1>2, <1>4, FiltersKept
  <2>2. ValidLimit(p)
    BY <1>5 DEF ValidLimit
  <2>3. ValidPoint(p)
    <3>1. p.lon \in 0 .. 4 /\ p.lat \in 0 .. 2 /\ p.radius_m \in 1 .. 5
      BY <1>5, <1>6
    <3> QED
      BY <3>1, NearPoint
  <2> QED
    BY <2>1, <2>2, <2>3
<1>8. box # NULL /\ ValidBbox(box)
  <2> DEFINE lon == DegreesIn(radius_m, MetresPerLon)
             lat == DegreesIn(radius_m, MetresPerLat)
  <2>1. lon \in 1 .. 6 /\ lat \in 1 .. 6
    <3>1. /\ lon \in Nat \ {0} /\ lon <= 1 + radius_m
          /\ lat \in Nat \ {0} /\ lat <= 1 + radius_m
      BY <1>6, EventRowsAssumption, DegreesFacts
    <3> HIDE DEF lon, lat
    <3> QED
      BY <1>6, <3>1
  <2>2. box = <<q[1] - lon, q[2] - lat, q[1] + lon, q[2] + lat>>
    BY DEF BoxAround
  <2> HIDE DEF box, lon, lat
  <2>3. \A i \in 1 .. 4 : box[i] \in Int
    BY <1>6, <2>1, <2>2
  <2>4. \A i \in 1 .. 4 : Given(box[i])
    BY <2>3, EventRowsAssumption DEF Given
  <2>5. Len(box) = 4 /\ -180 <= box[1] /\ box[1] < box[3] /\ box[3] <= 180
        /\ -90 <= box[2] /\ box[2] < box[4] /\ box[4] <= 90
    BY <1>6, <2>1, <2>2
  <2>6. ValidBbox(box)
    BY <2>4, <2>5 DEF ValidBbox
  <2>7. box \in Boxes
    BY <1>6, <2>1, <2>2 DEF Boxes
  <2> QED
    BY <2>6, <2>7, EventQueriesAssumption
<1>9. \A id \in DOMAIN table :
         /\ DistanceTo(table[id], p) \in Nat
         /\ Within(table[id].geom, {<<p.lon, p.lat>>}, p.radius_m) <=> InCircle(table[id].geom)
         /\ InCircle(table[id].geom) =>
               Intersects(table[id].geom, box) /\ Prefiltered(table[id].geom, p)
  <2>1. TAKE id \in DOMAIN table
  <2> DEFINE g == table[id].geom
             c == <<p.lon, p.lat>>
  <2>2. g \in SUBSET (Int \X Int) /\ g # {}
    BY DEF RowsTable, EventRow
  <2>3. p.lon \in Int /\ p.lat \in Int /\ p.radius_m \in Nat
    BY <1>5, <1>6
  <2>4. c = q
    BY <1>5
  <2>5. box = BoxAround(c, p.radius_m)
    BY <1>5, <2>4
  <2> HIDE DEF g, box
  <2>6. Distance(g, {c}) \in Nat
    <3>1. {c} \in SUBSET (Int \X Int) /\ {c} # {}
      BY <2>3
    <3> QED
      BY <2>2, <3>1, Distances
  <2>7. Within(g, {c}, p.radius_m) <=> InCircle(g)
    BY <1>5, <2>4 DEF Within
  <2>8. Within(g, {c}, p.radius_m) => Intersects(g, box) /\ Prefiltered(g, p)
    BY <2>2, <2>3, <2>5, WithinBox
  <2> QED
    BY <2>6, <2>7, <2>8 DEF DistanceTo, g
<1> HIDE DEF box
<1>10. N = {id \in S : InCircle(table[id].geom)}
  <2>1. \A id \in DOMAIN table : Passes(table[id], p, t) <=> Passes(table[id], f, t)
    BY <1>4, FiltersKept
  <2> HIDE DEF InCircle
  <2>2. N \subseteq {id \in S : InCircle(table[id].geom)}
    <3>1. SUFFICES ASSUME NEW id \in N PROVE id \in S /\ InCircle(table[id].geom)
      OBVIOUS
    <3>2. /\ id \in DOMAIN table /\ Passes(table[id], p, t)
          /\ Within(table[id].geom, {<<p.lon, p.lat>>}, p.radius_m)
      BY DEF NearRows
    <3>3. InCircle(table[id].geom) /\ Intersects(table[id].geom, box)
      BY <1>9, <3>2
    <3> QED
      BY <2>1, <3>2, <3>3 DEF Chosen
  <2>3. {id \in S : InCircle(table[id].geom)} \subseteq N
    <3>1. SUFFICES ASSUME NEW id \in S, InCircle(table[id].geom) PROVE id \in N
      OBVIOUS
    <3>2. id \in DOMAIN table /\ Passes(table[id], f, t)
      BY DEF Chosen
    <3>3. /\ Prefiltered(table[id].geom, p)
          /\ Within(table[id].geom, {<<p.lon, p.lat>>}, p.radius_m)
      BY <1>9, <3>1, <3>2
    <3> QED
      BY <2>1, <3>2, <3>3 DEF NearRows
  <2> QED
    BY <2>2, <2>3
<1>11. /\ list.features \in Seq(S)
       /\ Len(list.features) = Cardinality(S)
       /\ \A i \in 1 .. Cardinality(S) : list.features[i] = Newest(table, S)[i]
  BY <1>1, <1>8, WholeList
<1>12. /\ ids \in Seq(N) /\ Len(ids) = Cardinality(N) /\ Elements(ids) = N
       /\ \A i, j \in 1 .. Len(ids) :
             i < j => DistanceTo(table[ids[i]], p) <= DistanceTo(table[ids[j]], p)
  <2>1. p.limit \in Nat /\ Cardinality(DOMAIN table) <= p.limit
    BY <1>5
  <2> QED
    BY <1>1, <1>9, <2>1, NearPageFacts
<1>13. S \in SUBSET DOMAIN table
  BY DEF Chosen
<1> HIDE DEF S, N, list, ids
<1>14. Elements(list.features) = S
  <2>1. /\ Newest(table, S) \in [1 .. Cardinality(S) -> S]
        /\ \A x \in S : \E i \in 1 .. Cardinality(S) : Newest(table, S)[i] = x
    BY <1>1, <1>13, NewestFacts
  <2>2. DOMAIN list.features = 1 .. Cardinality(S)
    BY <1>11
  <2> DEFINE o == Newest(table, S)
  <2> HIDE DEF o
  <2>3. /\ \A i \in 1 .. Cardinality(S) : list.features[i] = o[i] /\ o[i] \in S
        /\ \A x \in S : \E i \in 1 .. Cardinality(S) : o[i] = x
    BY <1>11, <2>1 DEF o
  <2> QED
    BY <2>2, <2>3 DEF Elements
<1>15. N = {id \in Elements(list.features) : InCircle(table[id].geom)}
  BY <1>10, <1>14
<1>16. /\ near.features = [i \in 1 .. Len(ids) |-> [id |-> ids[i], distance_m2 |-> DistanceTo(table[ids[i]], p)]]
       /\ near.attribution = AttributionsFor(SourcesOf(table, {ids[i] : i \in 1 .. Len(ids)}))
  BY <1>7 DEF NearAll, NearEvents, ids, p
<1> HIDE DEF near
<1>17. DOMAIN ids = 1 .. Len(ids) /\ DOMAIN near.features = 1 .. Len(ids)
       /\ \A i \in 1 .. Len(ids) : /\ near.features[i].id = ids[i]
                                   /\ near.features[i].distance_m2 = DistanceTo(table[ids[i]], p)
  BY <1>12, <1>16
<1>18. {n.id : n \in Elements(near.features)} = N
  BY <1>12, <1>17 DEF Elements
<1>19. Len(near.features) = Cardinality(N)
  <2>1. Len(ids) \in Nat
    BY <1>12
  <2> QED
    BY <1>12, <1>16, <2>1
<1>20. near.attribution = AttributionsFor(SourcesOf(table, N))
  <2>1. {ids[i] : i \in 1 .. Len(ids)} = N
    BY <1>12, <1>17 DEF Elements
  <2> QED
    BY <1>16, <2>1
<1>21. \A i, j \in DOMAIN near.features :
          i < j => near.features[i].distance_m2 <= near.features[j].distance_m2
  BY <1>12, <1>17
<1> QED
  BY <1>15, <1>18, <1>19, <1>20, <1>21 DEF ListAgreesWithNear, list, near, box

(***************************************************************************)
(* The clusters are parts of the rows.                                     *)
(***************************************************************************)
Partition(parts, S) ==
    /\ parts \in SUBSET SUBSET S
    /\ {} \notin parts
    /\ \A x \in S : \E P \in parts : x \in P
    /\ \A P, Q \in parts : P # Q => P \cap Q = {}

(* One element more joins the parts that it touches. *)
Joining(a, parts, close) ==
    LET touching == {P \in parts : \E b \in P : <<a, b>> \in close}
    IN (parts \ touching) \cup {{a} \cup UNION touching}

LEMMA JoiningKeepsParts ==
    ASSUME NEW T, NEW parts, Partition(parts, T), NEW a, a \notin T, NEW close
    PROVE  Partition(Joining(a, parts, close), T \cup {a})
<1> DEFINE touching == {P \in parts : \E b \in P : <<a, b>> \in close}
           whole == {a} \cup UNION touching
           joined == Joining(a, parts, close)
<1>1. joined = (parts \ touching) \cup {whole}
  BY DEF Joining
<1>2. touching \in SUBSET parts
  OBVIOUS
<1>3. /\ parts \in SUBSET SUBSET T /\ {} \notin parts
      /\ \A x \in T : \E P \in parts : x \in P
      /\ \A P, Q \in parts : P # Q => P \cap Q = {}
  BY DEF Partition
<1> HIDE DEF touching, joined
<1>4. joined \in SUBSET SUBSET (T \cup {a}) /\ {} \notin joined
  BY <1>1, <1>2, <1>3
<1>5. \A x \in T \cup {a} : \E P \in joined : x \in P
  <2>1. TAKE x \in T \cup {a}
  <2>2. CASE x = a
    BY <1>1, <2>2
  <2>3. CASE x \in T
    <3>1. PICK P \in parts : x \in P
      BY <1>3, <2>3
    <3>2. CASE P \in touching
      BY <1>1, <3>1, <3>2
    <3>3. CASE P \notin touching
      BY <1>1, <3>1, <3>3
    <3> QED
      BY <3>2, <3>3
  <2> QED
    BY <2>2, <2>3
<1>6. \A P \in parts \ touching : P \cap whole = {}
  <2>1. TAKE P \in parts \ touching
  <2>2. a \notin P
    BY <1>3
  <2>3. \A Q \in touching : P \cap Q = {}
    BY <1>2, <1>3
  <2> QED
    BY <2>2, <2>3
<1> HIDE DEF whole
<1>7. \A P, Q \in joined : P # Q => P \cap Q = {}
  <2>1. TAKE P \in joined, Q \in joined
  <2>2. HAVE P # Q
  <2>3. CASE P = whole \/ Q = whole
    BY <1>1, <1>6, <2>2, <2>3
  <2>4. CASE P # whole /\ Q # whole
    BY <1>1, <1>3, <2>2, <2>4
  <2> QED
    BY <2>3, <2>4
<1> QED
  BY <1>4, <1>5, <1>7 DEF Partition, joined

(* Whatever is close to what, the components part a set. *)
LEMMA ComponentsAreParts ==
    ASSUME NEW S, IsFiniteSet(S), NEW close
    PROVE  Partition(Components(S, close), S)
<1> DEFINE it == CHOOSE g : g = [T \in SUBSET S |->
                                    IF T = {} THEN {} ELSE Joining(Pick(T), g[T \ {Pick(T)}], close)]
           V == SUBSET SUBSET S
           step == [e \in S \X V |-> Joining(e[1], e[2], close)]
<1>1. Components(S, close) = it[S]
  BY Zenon DEF Components, FoldSet, MapThenFoldSet, Joining, Pick
<1>2. step \in [S \X V -> V]
  <2>1. \A a \in S, parts \in V : Joining(a, parts, close) \in V
    BY DEF Joining
  <2> HIDE DEF V
  <2> QED
    BY <2>1
<1>3. PICK g \in [SUBSET S -> V] : IsFold(g, S, {}, step)
  <2>1. {} \in V
    OBVIOUS
  <2> HIDE DEF step, V
  <2> QED
    BY <1>2, <2>1, FoldExists, Zenon
<1>4. \A T \in SUBSET S : g[T] = IF T = {} THEN {} ELSE Joining(Pick(T), g[T \ {Pick(T)}], close)
  <2>1. TAKE T \in SUBSET S
  <2>2. CASE T = {}
    BY <1>3, <2>2 DEF IsFold
  <2>3. CASE T # {}
    <3>1. Pick(T) \in S /\ g[T \ {Pick(T)}] \in V
      BY <1>3, <2>3, Picked
    <3> DEFINE e == <<Pick(T), g[T \ {Pick(T)}]>>
    <3>2. e \in S \X V /\ e[1] = Pick(T) /\ e[2] = g[T \ {Pick(T)}]
      BY <3>1
    <3>3. g[T] = step[e]
      BY <1>3, <2>3 DEF IsFold
    <3> HIDE DEF e
    <3>4. step[e] = Joining(e[1], e[2], close)
      BY <3>2
    <3> QED
      BY <2>3, <3>2, <3>3, <3>4
  <2> QED
    BY <2>2, <2>3
<1>5. g = [T \in SUBSET S |-> IF T = {} THEN {} ELSE Joining(Pick(T), g[T \ {Pick(T)}], close)]
  BY <1>3, <1>4
<1>6. it = [T \in SUBSET S |-> IF T = {} THEN {} ELSE Joining(Pick(T), it[T \ {Pick(T)}], close)]
  BY <1>5
<1> HIDE DEF it
<1>7. \A T \in SUBSET S : it[T] = IF T = {} THEN {} ELSE Joining(Pick(T), it[T \ {Pick(T)}], close)
  BY <1>6
<1> DEFINE G == {T \in SUBSET S : Partition(it[T], T)}
<1>8. ASSUME NEW T \in SUBSET S, \A x \in T : T \ {x} \in G
      PROVE  T \in G
  <2>1. CASE T = {}
    <3>1. it[T] = {}
      BY <1>7, <2>1
    <3> QED
      BY <2>1, <3>1 DEF Partition
  <2>2. CASE T # {}
    <3> DEFINE a == Pick(T)
               U == T \ {a}
    <3>1. a \in T
      BY <2>2, Picked
    <3>2. Partition(it[U], U) /\ it[T] = Joining(a, it[U], close)
      BY <1>7, <1>8, <2>2, <3>1
    <3>3. U \cup {a} = T /\ a \notin U
      BY <3>1
    <3> HIDE DEF a, U
    <3>4. Partition(it[T], T)
      BY <3>2, <3>3, JoiningKeepsParts
    <3> QED
      BY <3>4
  <2> QED
    BY <2>1, <2>2
<1> HIDE DEF G
<1>9. S \in G
  BY <1>8, SubsetInduction
<1> QED
  BY <1>1, <1>9 DEF G

(* There are no more parts than elements. *)
LEMMA PartFacts ==
    ASSUME NEW S, IsFiniteSet(S), NEW parts, Partition(parts, S)
    PROVE  /\ IsFiniteSet(parts) /\ Cardinality(parts) \in Nat /\ Cardinality(parts) <= Cardinality(S)
           /\ \A P \in parts : P \in SUBSET S /\ IsFiniteSet(P) /\ P # {}
<1> DEFINE partOf == [x \in S |-> CHOOSE P \in parts : x \in P]
<1>1. /\ parts \in SUBSET SUBSET S /\ {} \notin parts
      /\ \A x \in S : \E P \in parts : x \in P
      /\ \A P, Q \in parts : P # Q => P \cap Q = {}
  BY DEF Partition
<1>2. \A P \in parts : P \in SUBSET S /\ IsFiniteSet(P) /\ P # {}
  BY <1>1, FS_Subset
<1>3. {partOf[x] : x \in S} = parts
  <2>1. \A x \in S : partOf[x] \in parts /\ x \in partOf[x]
    BY <1>1
  <2>2. ASSUME NEW P \in parts PROVE \E x \in S : partOf[x] = P
    <3>1. PICK x \in P : TRUE
      BY <1>2
    <3> QED
      BY <1>1, <2>1, <3>1
  <2> HIDE DEF partOf
  <2> QED
    BY <2>1, <2>2
<1>4. DOMAIN partOf = S /\ partOf = [x \in S |-> partOf[x]]
  OBVIOUS
<1> HIDE DEF partOf
<1>5. IsFiniteSet({partOf[x] : x \in S}) /\ Cardinality({partOf[x] : x \in S}) <= Cardinality(S)
  BY <1>4, ImageFacts
<1> QED
  BY <1>2, <1>3, <1>5, FS_CardinalityType

(* With one row or more to a cluster, every row is in the core of one. *)
LEMMA ClustersArePartsOfRows ==
    ASSUME NEW table, RowsTable(table), NEW rows \in SUBSET DOMAIN table,
           NEW p, p.eps_m \in Nat, p.min_points = 1
    PROVE  Partition(Clusters(table, p, rows), rows)
<1> DEFINE close == {e \in rows \X rows : Within(table[e[1]].geom, table[e[2]].geom, p.eps_m)}
           Beside(a) == {b \in rows : <<a, b>> \in close}
           core == {a \in rows : Cardinality(Beside(a)) >= p.min_points}
           Border(part) == {a \in rows \ core : /\ Beside(a) \cap core # {}
                                                /\ Min(Beside(a) \cap core) \in part}
<1>1. Clusters(table, p, rows) = {part \cup Border(part) : part \in Components(core, close)}
  BY Zenon DEF Clusters
<1>2. IsFiniteSet(rows)
  BY FS_Subset DEF RowsTable, TableOfRows
<1>3. \A a \in rows : <<a, a>> \in close
  <2>1. TAKE a \in rows
  <2> DEFINE g == table[a].geom
  <2>2. g # {} /\ g \in SUBSET (Int \X Int)
    BY DEF RowsTable, EventRow
  <2> HIDE DEF g
  <2>3. PICK q \in g : TRUE
    BY <2>2
  <2>4. SquaredDistance(q, q) = 0
    BY <2>2, SquaredDistances
  <2>5. Within(g, g, p.eps_m)
    <3>1. 0 <= Square(p.eps_m)
      BY DEF Square
    <3> QED
      BY <2>4, <3>1 DEF Within
  <2> QED
    BY <2>5 DEF g
<1> HIDE DEF close
<1>4. core = rows
  <2>1. \A a \in rows : Cardinality(Beside(a)) >= 1
    <3>1. TAKE a \in rows
    <3> DEFINE B == Beside(a)
    <3>2. B \in SUBSET rows /\ a \in B
      BY <1>3
    <3> HIDE DEF B
    <3>3. IsFiniteSet(B)
      BY <1>2, <3>2, FS_Subset
    <3>4. Cardinality(B) \in Nat /\ Cardinality(B) # 0
      BY <3>2, <3>3, FS_CardinalityType, FS_EmptySet
    <3> QED
      BY <3>4 DEF B
  <2> HIDE DEF Beside
  <2> QED
    BY <2>1
<1> HIDE DEF Beside
<1>5. \A part : Border(part) = {}
  <2> HIDE DEF core
  <2> QED
    BY <1>4
<1> HIDE DEF core, Border
<1>6. Clusters(table, p, rows) = Components(rows, close)
  <2>1. {part \cup Border(part) : part \in Components(core, close)} = Components(core, close)
    BY <1>5
  <2> QED
    BY <1>1, <1>4, <2>1
<1> QED
  BY <1>2, <1>6, ComponentsAreParts

LargerIn(parts) ==
    {e \in parts \X parts :
        \/ Cardinality(e[1]) > Cardinality(e[2])
        \/ /\ Cardinality(e[1]) = Cardinality(e[2])
           /\ Min(e[1]) < Min(e[2])}

(* The clusters are answered in a total order: no two have the same least row. *)
LEMMA LargerIsTotal ==
    ASSUME NEW S \in SUBSET Nat, IsFiniteSet(S), NEW parts, Partition(parts, S)
    PROVE  TotalOrder(parts, LargerIn(parts))
<1> DEFINE R == LargerIn(parts)
           n(c) == Cardinality(c)
           m(c) == Min(c)
<1>1. \A c, d \in parts : <<c, d>> \in R <=> n(c) > n(d) \/ (n(c) = n(d) /\ m(c) < m(d))
  BY DEF LargerIn
<1>2. \A c \in parts : n(c) \in Nat
  BY PartFacts, FS_CardinalityType
<1>3. \A c \in parts : c \in SUBSET Nat /\ m(c) \in c /\ m(c) \in Nat
  <2>1. TAKE c \in parts
  <2>2. c \in SUBSET Nat /\ c # {}
    BY PartFacts
  <2> QED
    BY <2>2, LeastOf
<1> HIDE DEF n, m
<1>4. \A c, d \in parts : c # d => m(c) # m(d)
  <2>1. TAKE c \in parts, d \in parts
  <2>2. HAVE c # d
  <2>3. c \cap d = {}
    BY <2>2 DEF Partition
  <2> QED
    BY <1>3, <2>3
<1> HIDE DEF R
<1>5. \A a \in parts : <<a, a>> \notin R
  BY <1>1, <1>2, <1>3
<1>6. ASSUME NEW a \in parts, NEW b \in parts, NEW c \in parts, <<a, b>> \in R, <<b, c>> \in R
      PROVE  <<a, c>> \in R
  <2>1. /\ n(a) \in Nat /\ n(b) \in Nat /\ n(c) \in Nat
        /\ m(a) \in Nat /\ m(b) \in Nat /\ m(c) \in Nat
    BY <1>2, <1>3
  <2>2. /\ n(a) > n(b) \/ (n(a) = n(b) /\ m(a) < m(b))
        /\ n(b) > n(c) \/ (n(b) = n(c) /\ m(b) < m(c))
    BY <1>1, <1>6
  <2>3. n(a) > n(c) \/ (n(a) = n(c) /\ m(a) < m(c))
    BY <2>1, <2>2
  <2> QED
    BY <1>1, <2>3
<1>7. ASSUME NEW a \in parts, NEW b \in parts, a # b PROVE <<a, b>> \in R \/ <<b, a>> \in R
  <2>1. n(a) \in Nat /\ n(b) \in Nat /\ m(a) \in Nat /\ m(b) \in Nat /\ m(a) # m(b)
    BY <1>2, <1>3, <1>4, <1>7
  <2>2. \/ n(a) > n(b) \/ (n(a) = n(b) /\ m(a) < m(b))
        \/ n(b) > n(a) \/ (n(b) = n(a) /\ m(b) < m(a))
    BY <2>1
  <2> QED
    BY <1>1, <2>2
<1>8. TotalOrder(parts, R)
  BY <1>5, <1>6, <1>7 DEF TotalOrder
<1> QED
  BY <1>8 DEF R

(* A row of the answer of GET /events/clusters. *)
ClusterOf(table, c) ==
    [count |-> Cardinality(c),
     max_severity |-> Max({table[id].severity : id \in c}),
     first_starts_at |-> Min({table[id].starts_at : id \in c}),
     last_starts_at |-> Max({table[id].starts_at : id \in c})]

(* s lists the parts of S, each once. *)
ListsParts(s, S) ==
    /\ \A i \in DOMAIN s : s[i] \in SUBSET S /\ s[i] # {}
    /\ \A x \in S : \E i \in DOMAIN s : x \in s[i]
    /\ \A i, j \in DOMAIN s : i # j => s[i] \cap s[j] = {}

LargestFirst(parts) ==
    InOrder(parts, LAMBDA c, d : \/ Cardinality(c) > Cardinality(d)
                                 \/ /\ Cardinality(c) = Cardinality(d)
                                    /\ Min(c) < Min(d))

(* When they are not too many, the page of the clusters holds them all. *)
LEMMA PartsInOrder ==
    ASSUME NEW S \in SUBSET Nat, IsFiniteSet(S), NEW parts, Partition(parts, S),
           NEW n \in Nat, Cardinality(S) <= n
    PROVE  /\ Limited(LargestFirst(parts), n) \in Seq(parts)
           /\ ListsParts(Limited(LargestFirst(parts), n), S)
<1> DEFINE q == LargestFirst(parts)
           R == LargerIn(parts)
           k == Cardinality(parts)
           Preds(c) == {d \in parts : \/ Cardinality(d) > Cardinality(c)
                                      \/ /\ Cardinality(d) = Cardinality(c)
                                         /\ Min(d) < Min(c)}
           s == Limited(q, n)
<1>1. /\ IsFiniteSet(parts) /\ k \in Nat /\ k <= n
      /\ \A P \in parts : P \in SUBSET S /\ P # {}
  <2>1. Cardinality(S) \in Nat
    BY FS_CardinalityType
  <2>2. /\ IsFiniteSet(parts) /\ k \in Nat /\ k <= Cardinality(S)
        /\ \A P \in parts : P \in SUBSET S /\ P # {}
    BY PartFacts
  <2> HIDE DEF k
  <2> QED
    BY <2>1, <2>2
<1>2. TotalOrder(parts, R)
  BY LargerIsTotal
<1>3. \A c \in parts : Preds(c) = Ahead(parts, R, c)
  BY DEF Ahead, LargerIn
<1>4. q = [i \in 1 .. Cardinality(parts) |-> CHOOSE c \in parts : Cardinality(Preds(c)) = i - 1]
  BY DEF LargestFirst, InOrder
<1> HIDE DEF q, Preds, R
<1>5. DOMAIN q = 1 .. Cardinality(parts) /\ q = [i \in DOMAIN q |-> q[i]]
  BY <1>4
<1>6. \A i \in DOMAIN q :
         (\E x \in parts : Cardinality(Ahead(parts, R, x)) = i - 1) =>
            q[i] \in parts /\ Cardinality(Ahead(parts, R, q[i])) = i - 1
  <2>1. TAKE i \in DOMAIN q
  <2>2. HAVE \E x \in parts : Cardinality(Ahead(parts, R, x)) = i - 1
  <2>3. q[i] = CHOOSE x \in parts : Cardinality(Preds(x)) = i - 1
    BY <1>4, <1>5
  <2>4. \E x \in parts : Cardinality(Preds(x)) = i - 1
    BY <1>3, <2>2
  <2>5. q[i] \in parts /\ Cardinality(Preds(q[i])) = i - 1
    BY <2>3, <2>4
  <2> QED
    BY <1>3, <2>5
<1>7. Sorted(q, parts, R)
  BY <1>1, <1>2, <1>5, <1>6, OrderFacts
<1>8. /\ q \in [1 .. k -> parts]
      /\ \A x \in parts : \E i \in 1 .. k : q[i] = x
      /\ \A i, j \in 1 .. k : i < j => <<q[i], q[j]>> \in R
  BY <1>7 DEF Sorted
<1> HIDE DEF k
<1>9. s \in Seq(parts) /\ Len(s) = k /\ \A i \in 1 .. k : s[i] = q[i]
  <2> HIDE DEF s
  <2>1. q \in [1 .. k -> parts] /\ k \in Nat /\ k <= n /\ n \in Nat
    BY <1>1, <1>8
  <2>2. FirstOf(q, k, parts, n)
    BY <2>1, LimitedFacts
  <2>3. /\ Limited(q, n) \in Seq(parts) /\ Len(Limited(q, n)) = k
        /\ \A i \in 1 .. k : Limited(q, n)[i] = q[i]
    BY <2>1, <2>2 DEF FirstOf
  <2> QED
    BY <2>3 DEF s
<1> HIDE DEF s
<1>10. DOMAIN s = 1 .. k
  BY <1>9
<1>11. \A i, j \in DOMAIN s : i # j => s[i] \cap s[j] = {}
  <2>1. TAKE i \in DOMAIN s, j \in DOMAIN s
  <2>2. HAVE i # j
  <2>3. i \in 1 .. k /\ j \in 1 .. k /\ (i < j \/ j < i)
    BY <1>1, <1>10, <2>2
  <2>4. <<q[i], q[j]>> \in R \/ <<q[j], q[i]>> \in R
    BY <1>8, <2>3
  <2>5. q[i] \in parts /\ q[j] \in parts
    BY <1>8, <2>3
  <2>6. q[i] # q[j]
    BY <1>2, <2>4, <2>5 DEF TotalOrder
  <2>7. q[i] \cap q[j] = {}
    BY <2>5, <2>6 DEF Partition
  <2> QED
    BY <1>9, <2>3, <2>7
<1>12. \A i \in DOMAIN s : s[i] \in SUBSET S /\ s[i] # {}
  <2>1. \A i \in DOMAIN s : s[i] \in parts
    BY <1>8, <1>9, <1>10
  <2> QED
    BY <1>1, <2>1
<1>13. \A x \in S : \E i \in DOMAIN s : x \in s[i]
  <2>1. TAKE x \in S
  <2>2. PICK P \in parts : x \in P
    BY DEF Partition
  <2>3. PICK i \in 1 .. k : q[i] = P
    BY <1>8
  <2> QED
    BY <1>9, <1>10, <2>2, <2>3
<1> QED
  BY <1>9, <1>11, <1>12, <1>13 DEF ListsParts, s, q

(* Each row counts in one part. *)
LEMMA PartsCountAll ==
    ASSUME NEW S, IsFiniteSet(S), NEW T, NEW s \in Seq(T), ListsParts(s, S)
    PROVE  Cardinality(S) = SumFunction([i \in DOMAIN s |-> Cardinality(s[i])])
<1> DEFINE K == DOMAIN s
           key == [x \in S |-> CHOOSE i \in K : x \in s[i]]
<1>1. /\ \A i \in K : s[i] \in SUBSET S
      /\ \A x \in S : \E i \in K : x \in s[i]
      /\ \A i, j \in K : i # j => s[i] \cap s[j] = {}
  BY DEF ListsParts
<1>2. IsFiniteSet(K)
  <2>1. K = 1 .. Len(s) /\ Len(s) \in Nat
    OBVIOUS
  <2> HIDE DEF K
  <2> QED
    BY <2>1, FS_Interval
<1> HIDE DEF K
<1>3. \A x \in S : key[x] \in K /\ x \in s[key[x]]
  BY <1>1
<1>4. key \in [S -> K]
  BY <1>3
<1> HIDE DEF key
<1>5. \A i \in K : OfKey(S, key, i) = s[i]
  <2>1. TAKE i \in K
  <2>2. \A x \in S : key[x] = i <=> x \in s[i]
    BY <1>1, <1>3
  <2> QED
    BY <1>1, <2>2 DEF OfKey
<1>6. [i \in K |-> Cardinality(OfKey(S, key, i))] = [i \in K |-> Cardinality(s[i])]
  BY <1>5
<1>7. Cardinality(S) = SumFunction([i \in K |-> Cardinality(OfKey(S, key, i))])
  BY <1>2, <1>4, CountByKey
<1> QED
  BY <1>6, <1>7 DEF K

(* What is as large as any is the largest. *)
LEMMA MaxIs ==
    ASSUME NEW S \in SUBSET Int, NEW m \in S, \A y \in S : y <= m
    PROVE  Max(S) = m
<1>1. \A y \in S : m >= y
  OBVIOUS
<1> DEFINE k == Max(S)
<1>2. k \in S /\ \A y \in S : k >= y
  BY <1>1 DEF Max
<1> HIDE DEF k
<1>3. k = m
  BY <1>2
<1> QED
  BY <1>3 DEF k

LEMMA TheWorld == World # NULL /\ ValidBbox(World)
<1>1. \A i \in 1 .. 4 : World[i] \in Int
  BY DEF World
<1>2. \A i \in 1 .. 4 : Given(World[i])
  BY <1>1, EventRowsAssumption DEF Given
<1>3. Len(World) = 4 /\ -180 <= World[1] /\ World[1] < World[3] /\ World[3] <= 180
      /\ -90 <= World[2] /\ World[2] < World[4] /\ World[4] <= 90
  BY DEF World
<1>4. World \in Boxes
  BY DEF World, Boxes
<1> QED
  BY <1>2, <1>3, <1>4, EventQueriesAssumption DEF ValidBbox

(* The first of a list is the newest of its rows. *)
LEMMA FirstIsNewest ==
    ASSUME NEW table, TableOfRows(table), NEW S \in SUBSET DOMAIN table, Cardinality(S) # 0
    PROVE  LET x == Newest(table, S)[1]
           IN  x \in S /\ \A y \in S : table[y].starts_at <= table[x].starts_at
<1> DEFINE q == Newest(table, S)
           n == Cardinality(S)
<1>1. /\ n \in Nat /\ q \in [1 .. n -> S]
      /\ \A y \in S : \E i \in 1 .. n : q[i] = y
      /\ \A i, j \in 1 .. n : i < j => Newer(Key(table, q[i]), Key(table, q[j]))
  BY NewestFacts
<1>2. n # 0
  OBVIOUS
<1> HIDE DEF q, n
<1>3. 1 \in 1 .. n /\ q[1] \in S
  BY <1>1, <1>2
<1>4. ASSUME NEW y \in S PROVE table[y].starts_at <= table[q[1]].starts_at
  <2>1. PICK i \in 1 .. n : q[i] = y
    BY <1>1
  <2>2. table[y].starts_at \in Nat /\ table[q[1]].starts_at \in Nat
    BY <1>3 DEF TableOfRows
  <2>3. CASE i = 1
    BY <2>1, <2>2, <2>3
  <2>4. CASE i # 1
    <3>1. Newer(Key(table, q[1]), Key(table, y))
      <4>1. 1 < i
        BY <1>1, <2>4
      <4> QED
        BY <1>1, <1>3, <2>1, <4>1
    <3> QED
      BY <2>2, <3>1 DEF Newer, Key
  <2> QED
    BY <2>3, <2>4
<1> QED
  BY <1>3, <1>4 DEF q

StampsOf(table, c) == {table[id].starts_at : id \in c}

LastsOf(table, s) == {Max(StampsOf(table, s[i])) : i \in DOMAIN s}

LEMMA ClusterFields ==
    ASSUME NEW table, NEW c
    PROVE  /\ ClusterOf(table, c).count = Cardinality(c)
           /\ ClusterOf(table, c).last_starts_at = Max(StampsOf(table, c))
  BY DEF ClusterOf, StampsOf

(* The last event of the parts is the last event of all. *)
LEMMA LastOfParts ==
    ASSUME NEW table, TableOfRows(table), NEW S \in SUBSET DOMAIN table, IsFiniteSet(S),
           NEW s, ListsParts(s, S), NEW x \in S,
           \A y \in S : table[y].starts_at <= table[x].starts_at
    PROVE  Max(LastsOf(table, s)) = table[x].starts_at
<1> DEFINE Stamps(i) == StampsOf(table, s[i])
           Lasts == LastsOf(table, s)
           last == table[x].starts_at
<1>1. \A y \in S : table[y].starts_at \in Nat
  BY DEF TableOfRows
<1>2. \A i \in DOMAIN s : /\ Max(Stamps(i)) \in Nat /\ Max(Stamps(i)) <= last
                          /\ \A y \in s[i] : table[y].starts_at <= Max(Stamps(i))
  <2>1. TAKE i \in DOMAIN s
  <2> DEFINE c == s[i]
             f == [id \in c |-> table[id].starts_at]
  <2>2. c \in SUBSET S /\ c # {} /\ IsFiniteSet(c)
    BY FS_Subset DEF ListsParts
  <2>3. DOMAIN f = c /\ f = [id \in c |-> f[id]] /\ Stamps(i) = {f[id] : id \in c}
    BY DEF StampsOf
  <2>4. \A id \in c : f[id] = table[id].starts_at /\ f[id] \in Int /\ f[id] \in Nat /\ f[id] <= last
    BY <1>1, <2>2
  <2> HIDE DEF f, c, last
  <2>5. IsFiniteSet({f[id] : id \in c})
    BY <2>2, <2>3, ImageFacts
  <2> DEFINE A == {f[id] : id \in c}
  <2>6. A \subseteq Int /\ A # {} /\ \A y \in A : y \in Nat /\ y <= last
    BY <2>2, <2>4
  <2>7. \A y \in c : f[y] \in A
    OBVIOUS
  <2>8. Stamps(i) = A
    BY <2>3
  <2> HIDE DEF A, Stamps
  <2>9. Max(A) \in A /\ \A y \in A : Max(A) >= y
    <3>1. IsFiniteSet(A)
      BY <2>5 DEF A
    <3> QED
      BY <2>6, <3>1, MaxFacts
  <2>10. Max(A) \in Nat /\ Max(A) <= last /\ \A y \in c : table[y].starts_at <= Max(A)
    <3>1. Max(A) \in Nat /\ Max(A) <= last
      BY <2>6, <2>9
    <3>2. \A y \in A : y <= Max(A)
      BY <2>6, <2>9, <3>1
    <3> QED
      BY <2>4, <2>7, <3>1, <3>2
  <2> QED
    BY <2>8, <2>10 DEF c
<1>3. PICK i \in DOMAIN s : x \in s[i]
  BY DEF ListsParts
<1>4. last \in Nat
  BY <1>1
<1>5. last <= Max(Stamps(i))
  BY <1>2, <1>3
<1> HIDE DEF Stamps, last
<1>6. Max(Stamps(i)) = last
  <2>1. Max(Stamps(i)) \in Nat /\ Max(Stamps(i)) <= last
    BY <1>2
  <2> QED
    BY <1>4, <1>5, <2>1
<1>7. /\ Lasts \in SUBSET Int /\ last \in Lasts
      /\ \A y \in Lasts : y <= last
  BY <1>2, <1>6 DEF LastsOf, Stamps
<1> HIDE DEF Lasts
<1>8. Max(Lasts) = last
  BY <1>7, MaxIs
<1> QED
  BY <1>8 DEF Lasts, Stamps, last

(***************************************************************************)
(* The clusters of one row or more count the rows of the list, their last  *)
(* event is the first of the list, and their attributions name its         *)
(* sources.                                                                *)
(***************************************************************************)
LEMMA ClustersAgree ==
    ASSUME NEW table, RowsTable(table), Cardinality(DOMAIN table) <= 1000,
           Cardinality(DOMAIN table) <= MaxClusters,
           NEW f \in Filters, NEW t, NEW eps_m \in {3, 5}
    PROVE  ListAgreesWithClusters(table, f, eps_m, t)
<1> DEFINE more == [bbox |-> World, eps_m |-> eps_m, min_points |-> 1]
           p == With(f, more)
           S == Chosen(table, f, World, t)
           list == ListAll(table, f, World, t)
           answer == ClusterEvents(table, p, t)
           parts == Clusters(table, p, S)
           s == Limited(LargestFirst(parts), MaxClusters)
<1>1. TableOfRows(table) /\ IsFiniteSet(DOMAIN table) /\ DOMAIN table \subseteq Nat
  BY DEF RowsTable, TableOfRows
<1>2. DOMAIN f = FilterFields /\ ValidFilters(f) /\ f.source = NULL
  BY FilterFacts
<1>3. DOMAIN more = {"bbox", "eps_m", "min_points"} /\ DOMAIN more \cap FilterFields = {}
  BY DEF FilterFields
<1>4. SameFilters(p, f) /\ \A k \in DOMAIN more : p[k] = more[k]
  BY <1>2, <1>3, WithFacts
<1>5. p.bbox = World /\ p.eps_m = eps_m /\ p.min_points = 1 /\ p.source = NULL
  BY <1>2, <1>3, <1>4 DEF SameFilters
<1> HIDE DEF p
<1>6. ValidFilters(p) /\ ValidDbscan(p) /\ ValidBbox(p.bbox) /\ Given(p.bbox) /\ ~ Given(p.source)
  <2>1. ValidFilters(p)
    BY <1>2, <1>4, FiltersKept
  <2>2. p.eps_m \in Radii
    BY <1>5, SmallRadii
  <2> QED
    BY <1>5, <2>1, <2>2, TheWorld DEF ValidDbscan, Given
<1>7. S \in SUBSET DOMAIN table /\ S \in SUBSET Nat
  BY <1>1 DEF Chosen
<1>8. {id \in DOMAIN table : /\ Given(p.bbox) => Intersects(table[id].geom, p.bbox)
                             /\ Passes(table[id], p, t)} = S
  BY <1>4, <1>5, <1>6, FiltersKept DEF Chosen
<1> HIDE DEF S
<1>9. IsFiniteSet(S) /\ Cardinality(S) \in Nat /\ Cardinality(S) <= MaxClusters
  <2>1. IsFiniteSet(S) /\ Cardinality(S) <= Cardinality(DOMAIN table)
    BY <1>1, <1>7, FS_Subset
  <2>2. Cardinality(S) \in Nat /\ Cardinality(DOMAIN table) \in Nat /\ MaxClusters \in Nat
    BY <1>1, <2>1, FS_CardinalityType, EventQueriesAssumption
  <2> QED
    BY <2>1, <2>2
<1>10. Partition(parts, S)
  BY <1>5, <1>7, ClustersArePartsOfRows
<1>11. answer.features = [i \in 1 .. Len(s) |-> ClusterOf(table, s[i])]
       /\ answer.attribution = AttributionsFor(Sources)
  <2>1. answer.features = ClusterRows(table, p, t) /\ answer.attribution = AttributionsFor(Sources)
    BY <1>6 DEF ClusterEvents
  <2>2. ClusterRows(table, p, t) = [i \in 1 .. Len(s) |-> ClusterOf(table, s[i])]
    BY <1>8, ZenonT(30) DEF ClusterRows, ClusterOf, LargestFirst
  <2> QED
    BY <2>1, <2>2
<1> HIDE DEF parts, answer, list
<1>12. s \in Seq(parts) /\ ListsParts(s, S)
  <2>1. MaxClusters \in Nat
    BY EventQueriesAssumption
  <2> QED
    BY <1>7, <1>9, <1>10, <2>1, PartsInOrder
<1> HIDE DEF s
<1>13. DOMAIN s = 1 .. Len(s) /\ DOMAIN answer.features = DOMAIN s
       /\ \A i \in DOMAIN s : answer.features[i] = ClusterOf(table, s[i])
  BY <1>11, <1>12
<1>14. /\ list.features \in Seq(S) /\ Len(list.features) = Cardinality(S)
       /\ \A i \in 1 .. Cardinality(S) : list.features[i] = Newest(table, S)[i]
       /\ list.attribution = AttributionsFor(SourcesOf(table, Elements(list.features)))
  BY <1>1, TheWorld, WholeList DEF S, list
<1>15. SumFunction([i \in DOMAIN answer.features |-> answer.features[i].count]) = Len(list.features)
  <2>1. [i \in DOMAIN answer.features |-> answer.features[i].count] = [i \in DOMAIN s |-> Cardinality(s[i])]
    BY <1>13, ClusterFields
  <2>2. Cardinality(S) = SumFunction([i \in DOMAIN s |-> Cardinality(s[i])])
    BY <1>9, <1>12, PartsCountAll
  <2> QED
    BY <1>14, <2>1, <2>2
<1>16. list.attribution \subseteq answer.attribution
  <2>1. \A x \in Elements(list.features) : x \in DOMAIN table
    <3>1. DOMAIN list.features = 1 .. Len(list.features)
      BY <1>14
    <3>2. \A i \in DOMAIN list.features : list.features[i] \in S
      BY <1>14, <3>1
    <3> QED
      BY <1>7, <3>2 DEF Elements
  <2>2. SourcesOf(table, Elements(list.features)) \subseteq Sources
    BY <2>1 DEF SourcesOf, RowsTable, EventRow
  <2> QED
    BY <1>11, <1>14, <2>2 DEF AttributionsFor
<1>17. list.features # <<>> =>
         Max({c.last_starts_at : c \in Elements(answer.features)}) = table[list.features[1]].starts_at
  <2>1. HAVE list.features # <<>>
  <2>2. Cardinality(S) # 0 /\ 1 \in 1 .. Cardinality(S)
    BY <1>9, <1>14, <2>1
  <2> DEFINE x == list.features[1]
  <2>3. x = Newest(table, S)[1]
    BY <1>14, <2>2
  <2> HIDE DEF x
  <2>4. x \in S /\ \A y \in S : table[y].starts_at <= table[x].starts_at
    BY <1>1, <1>7, <2>2, <2>3, FirstIsNewest
  <2>5. Max(LastsOf(table, s)) = table[x].starts_at
    BY <1>1, <1>7, <1>9, <1>12, <2>4, LastOfParts
  <2>6. {c.last_starts_at : c \in Elements(answer.features)} = LastsOf(table, s)
    <3>1. \A i \in DOMAIN s : answer.features[i].last_starts_at = Max(StampsOf(table, s[i]))
      BY <1>13, ClusterFields
    <3>2. {c.last_starts_at : c \in Elements(answer.features)}
            = {answer.features[i].last_starts_at : i \in DOMAIN s}
      BY <1>13 DEF Elements
    <3> QED
      BY <3>1, <3>2 DEF LastsOf
  <2> QED
    BY <2>5, <2>6 DEF x
<1>18. \A i \in DOMAIN list.features : GetEvent(table, list.features[i]).status = 200
  <2>1. TAKE i \in DOMAIN list.features
  <2>2. list.features[i] \in DOMAIN table
    BY <1>7, <1>14
  <2> QED
    BY <2>2 DEF GetEvent
<1> QED
  BY <1>15, <1>16, <1>17, <1>18 DEF ListAgreesWithClusters, list, answer, p

LEMMA KnownTable ==
    ASSUME NEW v, v \in AllVersions
    PROVE  RowsTable(Table(v))
<1>1. v \in [Sources -> Nat] /\ \A s \in Sources : v[s] \in 0 .. Len(Versions[s])
  BY VersionsOfSources
<1>2. VersionsKnown(v)
  BY <1>1, ReadSideAssumption DEF VersionsKnown
<1>3. /\ TableOfRows(Table(v))
      /\ \A s \in Sources : \A id \in DOMAIN ExportRows(s, v[s]) :
            id \in DOMAIN Table(v) /\ Table(v)[id] = ExportRows(s, v[s])[id]
  BY <1>2, TableFacts
<1>4. ASSUME NEW id \in DOMAIN Table(v) PROVE EventRow(Table(v)[id])
  <2>1. PICK s \in Sources : id \in DOMAIN ExportRows(s, v[s])
    BY DEF Table
  <2>2. RowsOfSource(ExportRows(s, v[s]), s)
    BY <1>1, VersionOfRows
  <2> QED
    BY <1>3, <2>1, <2>2 DEF RowsOfSource
<1> QED
  BY <1>3, <1>4 DEF RowsTable

LEMMA KnownViewsAgree ==
    ASSUME NEW v, v \in AllVersions, NEW t
    PROVE  ViewsAgreeOn(Table(v), t)
<1> DEFINE table == Table(v)
<1>1. RowsTable(table)
  BY KnownTable
<1> HIDE DEF table
<1>2. SUFFICES ASSUME Cardinality(DOMAIN table) <= 1000, Cardinality(DOMAIN table) <= MaxClusters,
                      NEW f \in Filters
               PROVE  /\ \A q \in {<<0, 0>>, <<4, 2>>} : \A radius_m \in {3, 5} :
                            ListAgreesWithNear(table, f, q, radius_m, t)
                      /\ \A eps_m \in {3, 5} : ListAgreesWithClusters(table, f, eps_m, t)
  BY DEF ViewsAgreeOn, FitsAPage, table
<1>3. \A q \in {<<0, 0>>, <<4, 2>>} : \A radius_m \in {3, 5} : ListAgreesWithNear(table, f, q, radius_m, t)
  BY <1>1, <1>2, NearAgrees
<1>4. \A eps_m \in {3, 5} : ListAgreesWithClusters(table, f, eps_m, t)
  BY <1>1, <1>2, ClustersAgree
<1> QED
  BY <1>3, <1>4

(***************************************************************************)
(* Whatever batches the table has taken, a table that fits a page gives    *)
(* the same events to the list, near and clusters, under the same filters, *)
(* and the attributions of each name their sources (hazards/api/events.py, *)
(* hazard_event.py).                                                       *)
(***************************************************************************)
THEOREM ViewsAlwaysAgree == Spec => []ViewsAgree
<1>1. Init => IInv /\ Bounds
  <2> SUFFICES ASSUME Init PROVE IInv /\ Bounds
    OBVIOUS
  <2>1. Bounds
    BY ReadSideAssumption DEF Init, Bounds, NoListing
  <2> QED
    BY <2>1, Initially
<1>2. IInv /\ Bounds /\ [Next]_vars => (IInv /\ Bounds)'
  BY Inductive, BoundsKept
<1>3. IInv /\ Bounds => ViewsAgree
  <2> SUFFICES ASSUME IInv, Bounds PROVE ViewsAgree
    OBVIOUS
  <2>1. version \in AllVersions
    <3>1. version \in [Sources -> Nat] /\ \A s \in Sources : version[s] <= Len(Versions[s])
      BY DEF IInv, Shapes, Bounds
    <3> QED
      BY <3>1, KnownVersions
  <2>2. now \in UNION {Start .. x.until : x \in Scenes}
    BY DEF Bounds
  <2>3. ViewsAgreeOn(Table(version), now)
    BY <2>1, KnownViewsAgree
  <2> DEFINE e == <<version, now>>
  <2>4. e \in {<<v, t>> : v \in AllVersions, t \in UNION {Start .. x.until : x \in Scenes}}
    BY <2>1, <2>2
  <2>5. e[1] = version /\ e[2] = now
    OBVIOUS
  <2> HIDE DEF e
  <2> QED
    BY <2>3, <2>4, <2>5 DEF ViewsAgree, AgreeingViews, e
<1> QED
  BY <1>1, <1>2, <1>3, PTL DEF Spec
=============================================================================
