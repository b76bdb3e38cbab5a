---------------------------- MODULE OutboxProofs ----------------------------
(***************************************************************************)
(* Outbox for every set of events, handlers and workers, any bound on      *)
(* retries and faults.  The inductive invariant says what a row lock means *)
(* (its holder read the row as it is now), and that everything recorded as *)
(* done, in a row or in the hands of a worker, has taken effect.           *)
(***************************************************************************)
EXTENDS Outbox, FiniteSetTheorems, TLAPS

(* A row that is still to be dispatched has a retry left. *)
RetriesLeft ==
    \A e \in Events : row[e].status \in {"absent", "PENDING"} => row[e].retry_count < MaxRetries

(* Who holds a row lock has the event in hands, and the row as it is. *)
LockMeaning ==
    \A e \in Events, w \in Workers : lock[e] = w =>
        /\ pc[w] \in Busy
        /\ event[w] = e
        /\ row[e].status = "PENDING"
        /\ row[e].handler_state = known[w]

(* Without a fault nobody loses a row lock under a dispatch. *)
LockedWithoutFault ==
    faults = 0 => \A w \in Workers : pc[w] \in Busy => lock[event[w]] = w

(* What is recorded as done has taken effect. *)
RecordedIsDone ==
    /\ \A e \in Events : \A h \in row[e].handler_state : effects[e][h] > 0
    /\ \A w \in Workers : pc[w] \in Busy =>
        \A h \in known[w] \cup good[w] : effects[event[w]][h] > 0

(* The handlers passed so far are the good and the bad ones. *)
PassedAccounted ==
    \A w \in Workers : pc[w] \in Busy =>
        /\ \A i \in 1 .. Len(HandlersOf[event[w]]) :
            i < nth[w] => HandlersOf[event[w]][i] \in good[w] \cup bad[w]
        /\ pc[w] = "commit" => nth[w] > Len(HandlersOf[event[w]])

(* A worker with no event starts its next dispatch from nothing. *)
IdleIsFresh ==
    \A w \in Workers : pc[w] \notin Busy => nth[w] = 1 /\ good[w] = {} /\ bad[w] = {}

IInv ==
    /\ TypeOK
    /\ RetriesLeft
    /\ IdleIsFresh
    /\ LockMeaning
    /\ LockedWithoutFault
    /\ RecordedIsDone
    /\ PassedAccounted
    /\ ProcessedMeansHandled

LEMMA ConstantFacts ==
    /\ MaxRetries \in Nat /\ 0 < MaxRetries
    /\ BatchSize \in Nat /\ 0 < BatchSize
    /\ MaxFaults \in Nat
    /\ \A e \in Events : e # NULL /\ HandlersOf[e] \in Seq(Handlers)
    /\ \A w \in Workers : w # NULL
  BY OutboxAssumption

(* The columns an outcome sets. *)
LEMMA RowUpdated ==
    ASSUME NEW q \in Row, NEW n \in 0 .. MaxRetries, NEW d \in Int, NEW hs \in SUBSET Handlers,
           NEW r,
           \/ r = [q EXCEPT !.status = "PROCESSED", !.handler_state = @ \cup hs]
           \/ r = [q EXCEPT !.handler_state = @ \cup hs, !.retry_count = n, !.status = "FAILED"]
           \/ r = [q EXCEPT !.handler_state = @ \cup hs, !.retry_count = n, !.scheduled_at = d]
    PROVE  r \in Row
  BY DEF Row

(***************************************************************************)
(* What the commit of a dispatch may write.                                *)
(***************************************************************************)
LEMMA OutcomeOf ==
    ASSUME IInv, NEW w \in Workers, pc[w] = "commit",
           lock[event[w]] = w, NEW r \in Outcomes(w, row[event[w]])
    PROVE  /\ event[w] \in Events
           /\ r \in Row
           /\ r.handler_state = row[event[w]].handler_state \cup good[w]
           /\ r.status = "PENDING" => r.retry_count < MaxRetries
           /\ r.status # "absent"
           /\ r.status = "PROCESSED" => AllSucceeded(w)
<1> DEFINE e == event[w]
<1>1. e \in Events /\ row[e] \in Row /\ good[w] \in SUBSET Handlers
  BY DEF IInv, TypeOK, Busy
<1>2. row[e].status = "PENDING" /\ row[e].retry_count < MaxRetries
  BY <1>1 DEF IInv, LockMeaning, RetriesLeft
<1>3. MaxRetries \in Nat /\ row[e].retry_count \in Nat
  BY <1>1, ConstantFacts DEF Row
<1>4. CASE AllSucceeded(w)
  <2>1. r = [row[e] EXCEPT !.status = "PROCESSED", !.handler_state = @ \cup good[w]]
    BY <1>4 DEF Outcomes, Processed
  <2>2. r \in Row
    <3>1. 0 \in 0 .. MaxRetries /\ 0 \in Int
      BY <1>3
    <3> QED
      BY <1>1, <2>1, <3>1, RowUpdated
  <2> QED
    BY <1>1, <1>4, <2>1, <2>2 DEF Row
<1>5. CASE ~AllSucceeded(w) /\ row[e].retry_count + 1 >= MaxRetries
  <2>1. r = [row[e] EXCEPT !.handler_state = @ \cup good[w],
                           !.retry_count = row[e].retry_count + 1, !.status = "FAILED"]
    BY <1>5 DEF Outcomes, GivenUp
  <2>2. row[e].retry_count + 1 \in 0 .. MaxRetries
    BY <1>2, <1>3
  <2>3. r \in Row
    BY <1>1, <2>1, <2>2, 0 \in Int, RowUpdated
  <2> QED
    BY <1>1, <2>1, <2>3 DEF Row
<1>6. CASE ~AllSucceeded(w) /\ ~(row[e].retry_count + 1 >= MaxRetries)
  <2>1. r \in Retried(w, row[e])
    BY <1>6 DEF Outcomes
  <2>2. row[e].retry_count + 1 \in 1 .. MaxRetries /\ row[e].retry_count + 1 < MaxRetries
    BY <1>2, <1>3, <1>6
  <2>3. Backoff[row[e].retry_count + 1] \in SUBSET Nat
    BY <2>2, OutboxAssumption
  <2>4. PICK d \in Backoff[row[e].retry_count + 1] :
            r = [row[e] EXCEPT !.handler_state = @ \cup good[w],
                               !.retry_count = row[e].retry_count + 1,
                               !.scheduled_at = d]
    BY <2>1 DEF Retried
  <2>5. d \in Int
    BY <2>3, <2>4
  <2>6. r \in Row
    <3>1. row[e].retry_count + 1 \in 0 .. MaxRetries
      BY <1>3, <2>2
    <3> QED
      BY <1>1, <2>4, <2>5, <3>1, RowUpdated
  <2>7. /\ r.status = "PENDING"
        /\ r.retry_count = row[e].retry_count + 1
        /\ r.handler_state = row[e].handler_state \cup good[w]
    BY <1>1, <1>2, <2>4 DEF Row
  <2> QED
    BY <1>1, <2>2, <2>6, <2>7
<1> QED
  BY <1>4, <1>5, <1>6

(***************************************************************************)
(* A dispatch in which every handler is good leaves no handler without its *)
(* effect.                                                                 *)
(***************************************************************************)
LEMMA SuccessCoversHandlers ==
    ASSUME IInv, NEW w \in Workers, pc[w] = "commit", AllSucceeded(w)
    PROVE  \A h \in Handlers : effects[event[w]][h] > 0
<1>1. TAKE h \in Handlers
<1>2. event[w] \in Events /\ HandlersOf[event[w]] # <<>> /\ bad[w] = {}
  BY DEF IInv, TypeOK, Busy, AllSucceeded
<1>3. PICK i \in 1 .. Len(HandlersOf[event[w]]) : HandlersOf[event[w]][i] = h
  BY <1>2, OutboxAssumption
<1>4. /\ nth[w] \in Nat /\ Len(HandlersOf[event[w]]) \in Nat
      /\ nth[w] > Len(HandlersOf[event[w]])
  BY <1>2, ConstantFacts DEF IInv, TypeOK, PassedAccounted, Busy
<1>5. h \in good[w]
  <2>1. i < nth[w]
    BY <1>3, <1>4
  <2>2. HandlersOf[event[w]][i] \in good[w] \cup bad[w]
    BY <1>3, <2>1 DEF IInv, PassedAccounted, Busy
  <2> QED
    BY <1>2, <1>3, <2>2
<1> QED
  BY <1>5 DEF IInv, RecordedIsDone, Busy

LEMMA InitEstablishes == ASSUME Init PROVE IInv
<1>1. TypeOK
  BY ConstantFacts DEF Init, TypeOK, Row, Busy
<1>2. RetriesLeft /\ RecordedIsDone /\ ProcessedMeansHandled
  BY ConstantFacts DEF Init, RetriesLeft, RecordedIsDone, ProcessedMeansHandled, Busy
<1>3. LockMeaning
  BY ConstantFacts DEF Init, LockMeaning
<1>4. LockedWithoutFault /\ PassedAccounted /\ IdleIsFresh
  BY DEF Init, LockedWithoutFault, PassedAccounted, IdleIsFresh, Busy
<1> QED
  BY <1>1, <1>2, <1>3, <1>4 DEF IInv

LEMMA PublishPreserves ==
    ASSUME IInv, NEW d \in Events, Publish(d) PROVE IInv'
<1>1. \A e \in Events : e # d => row'[e] = row[e]
  BY DEF Publish, IInv, TypeOK
<1>2. /\ row'[d] = [status |-> "PENDING", retry_count |-> 0,
                    scheduled_at |-> 0, handler_state |-> {}]
      /\ row[d].status = "absent"
      /\ UNCHANGED <<lock, pc, event, known, nth, good, bad, left, effects, faults>>
  BY DEF Publish, IInv, TypeOK, workerVars
<1>3. TypeOK'
  <2>1. row'[d] \in Row
    BY <1>2, ConstantFacts DEF Row
  <2> QED
    BY <1>2, <2>1 DEF Publish, IInv, TypeOK
<1>4. RetriesLeft'
  BY <1>1, <1>2, ConstantFacts DEF IInv, RetriesLeft
<1>5. LockMeaning'
  <2>1. \A w \in Workers : lock[d] # w
    BY <1>2 DEF IInv, LockMeaning
  <2> QED
    BY <1>1, <1>2, <2>1 DEF IInv, LockMeaning
<1>6. LockedWithoutFault' /\ PassedAccounted' /\ IdleIsFresh'
  BY <1>2 DEF IInv, LockedWithoutFault, PassedAccounted, IdleIsFresh
<1>7. RecordedIsDone'
  BY <1>1, <1>2 DEF IInv, RecordedIsDone
<1>8. ProcessedMeansHandled'
  BY <1>1, <1>2 DEF IInv, ProcessedMeansHandled
<1> QED
  BY <1>3, <1>4, <1>5, <1>6, <1>7, <1>8 DEF IInv

(***************************************************************************)
(* The steps that move a loop between polls.                               *)
(***************************************************************************)
LEMMA LoopPreserves ==
    ASSUME IInv, NEW v \in Workers,
           StartPoll(v) \/ EndPoll(v) \/ EndDispatch(v)
    PROVE  IInv'
<1>1. /\ UNCHANGED <<row, lock, event, known, nth, good, bad, effects, faults>>
      /\ \A w \in Workers : w # v => pc'[w] = pc[w]
      /\ pc[v] \in Busy <=> pc'[v] \in Busy
      /\ pc'[v] = "commit" => nth[v] > Len(HandlersOf[event[v]])
  BY DEF StartPoll, EndPoll, EndDispatch, IInv, TypeOK, Busy
<1>2. TypeOK'
  <2>1. /\ pc' \in [Workers -> Busy \cup {"down", "poll", "sleep"}]
        /\ left' \in [Workers -> 0 .. BatchSize]
    <3>1. BatchSize \in 0 .. BatchSize /\ 0 \in 0 .. BatchSize
      BY ConstantFacts
    <3>2. CASE StartPoll(v)
      BY <3>1, <3>2 DEF StartPoll, IInv, TypeOK, Busy
    <3>3. CASE EndPoll(v)
      BY <3>1, <3>3 DEF EndPoll, IInv, TypeOK, Busy
    <3>4. CASE EndDispatch(v)
      BY <3>4 DEF EndDispatch, IInv, TypeOK, Busy
    <3> QED
      BY <3>2, <3>3, <3>4
  <2> QED
    BY <1>1, <2>1 DEF IInv, TypeOK
<1>3. RetriesLeft' /\ ProcessedMeansHandled'
  BY <1>1 DEF IInv, RetriesLeft, ProcessedMeansHandled
<1>4. LockMeaning' /\ LockedWithoutFault'
  BY <1>1 DEF IInv, LockMeaning, LockedWithoutFault
<1>5. RecordedIsDone'
  BY <1>1 DEF IInv, RecordedIsDone
<1>6. PassedAccounted' /\ IdleIsFresh'
  BY <1>1 DEF IInv, PassedAccounted, IdleIsFresh
<1> QED
  BY <1>2, <1>3, <1>4, <1>5, <1>6 DEF IInv

LEMMA SelectEventPreserves ==
    ASSUME IInv, NEW v \in Workers, SelectEvent(v) PROVE IInv'
<1>1. PICK d \in Events :
        /\ Selectable(d)
        /\ lock' = [lock EXCEPT ![d] = v]
        /\ event' = [event EXCEPT ![v] = d]
        /\ known' = [known EXCEPT ![v] = row[d].handler_state]
  BY DEF SelectEvent
<1>2. /\ pc[v] = "poll" /\ pc' = [pc EXCEPT ![v] = "dispatch"]
      /\ left' = [left EXCEPT ![v] = @ - 1] /\ left[v] > 0
      /\ UNCHANGED <<row, nth, good, bad, effects, faults>>
  BY DEF SelectEvent
<1>3. row[d].status = "PENDING" /\ lock[d] = NULL
  BY <1>1 DEF Selectable, Due
<1>4. event[v] = NULL
  BY <1>2 DEF IInv, TypeOK, Busy
<1>5. TypeOK'
  <2>1. left' \in [Workers -> 0 .. BatchSize]
    BY <1>2, ConstantFacts DEF IInv, TypeOK
  <2>2. row[d].handler_state \in SUBSET Handlers
    BY DEF IInv, TypeOK, Row
  <2>3. d # NULL
    BY ConstantFacts
  <2> QED
    BY <1>1, <1>2, <2>1, <2>2, <2>3 DEF IInv, TypeOK, Busy
<1>6. RetriesLeft' /\ ProcessedMeansHandled' /\ IdleIsFresh'
  BY <1>2 DEF IInv, TypeOK, RetriesLeft, ProcessedMeansHandled, IdleIsFresh, Busy
<1>7. LockMeaning'
  <2> SUFFICES ASSUME NEW e \in Events, NEW w \in Workers, lock'[e] = w
               PROVE  /\ pc'[w] \in Busy /\ event'[w] = e
                      /\ row'[e].status = "PENDING" /\ row'[e].handler_state = known'[w]
    BY DEF LockMeaning
  <2>1. CASE e = d
    <3>1. w = v
      BY <1>1, <2>1 DEF IInv, TypeOK
    <3> QED
      BY <1>1, <1>2, <1>3, <2>1, <3>1 DEF IInv, TypeOK, Busy
  <2>2. CASE e # d
    <3>1. lock[e] = w
      BY <1>1, <2>2 DEF IInv, TypeOK
    <3>2. w # v
      BY <1>4, <3>1, ConstantFacts DEF IInv, LockMeaning
    <3> QED
      BY <1>1, <1>2, <3>1, <3>2 DEF IInv, TypeOK, LockMeaning
  <2> QED
    BY <2>1, <2>2
<1>8. LockedWithoutFault'
  <2> SUFFICES ASSUME faults = 0, NEW w \in Workers, pc'[w] \in Busy
               PROVE  lock'[event'[w]] = w
    BY <1>2 DEF LockedWithoutFault
  <2>1. CASE w = v
    BY <1>1, <2>1 DEF IInv, TypeOK
  <2>2. CASE w # v
    <3>1. pc[w] \in Busy /\ event'[w] = event[w] /\ lock[event[w]] = w /\ event[w] \in Events
      BY <1>1, <1>2, <2>2 DEF IInv, TypeOK, LockedWithoutFault
    <3>2. event[w] # d
      BY <1>3, <3>1, ConstantFacts
    <3> QED
      BY <1>1, <3>1, <3>2 DEF IInv, TypeOK
  <2> QED
    BY <2>1, <2>2
<1>9. RecordedIsDone'
  <2>1. \A w \in Workers : w # v =>
            pc'[w] = pc[w] /\ event'[w] = event[w] /\ known'[w] = known[w] /\ good'[w] = good[w]
    BY <1>1, <1>2 DEF IInv, TypeOK
  <2>2. event'[v] = d /\ known'[v] = row[d].handler_state
    BY <1>1 DEF IInv, TypeOK
  <2>3. good'[v] = {}
    BY <1>2 DEF IInv, IdleIsFresh, Busy
  <2> QED
    BY <1>2, <2>1, <2>2, <2>3 DEF IInv, RecordedIsDone
<1>10. PassedAccounted'
  <2>1. \A w \in Workers : w # v => pc'[w] = pc[w] /\ event'[w] = event[w]
    BY <1>1, <1>2 DEF IInv, TypeOK
  <2>2. event'[v] = d /\ pc'[v] = "dispatch" /\ nth'[v] = 1
    BY <1>1, <1>2 DEF IInv, TypeOK, IdleIsFresh, Busy
  <2> QED
    BY <1>2, <2>1, <2>2 DEF IInv, PassedAccounted
<1> QED
  BY <1>5, <1>6, <1>7, <1>8, <1>9, <1>10 DEF IInv

LEMMA RunHandlerPreserves == ASSUME IInv, NEW v \in Workers, RunHandler(v) PROVE IInv'
<1> DEFINE e == event[v]
<1> DEFINE h == Handler(v)
<1>1. /\ pc[v] = "dispatch" /\ e \in Events
      /\ nth[v] \in Nat \ {0} /\ nth[v] <= Len(HandlersOf[e])
      /\ nth' = [nth EXCEPT ![v] = @ + 1]
      /\ UNCHANGED <<row, lock, pc, event, known, left, faults>>
  BY DEF RunHandler, IInv, TypeOK, Busy
<1>2. h \in Handlers
  <2>1. Len(HandlersOf[e]) \in Nat /\ HandlersOf[e] \in [1 .. Len(HandlersOf[e]) -> Handlers]
    BY <1>1, ConstantFacts
  <2>2. nth[v] \in 1 .. Len(HandlersOf[e])
    BY <1>1, <2>1
  <2> QED
    BY <2>1, <2>2 DEF Handler
<1>3. /\ effects' \in [Events -> [Handlers -> Nat]]
      /\ \A d \in Events, g \in Handlers : effects'[d][g] >= effects[d][g]
      /\ HandlerSucceeds(v) => effects'[e][h] > 0
  <2>1. CASE TakeEffect(v)
    <3>1. effects' = [effects EXCEPT ![e][h] = @ + 1]
      BY <2>1 DEF TakeEffect
    <3>2. effects \in [Events -> [Handlers -> Nat]]
      BY DEF IInv, TypeOK
    <3> HIDE DEF e, h
    <3> QED
      BY <1>1, <1>2, <3>1, <3>2
  <2>2. CASE UNCHANGED effects
    <3>1. \A d \in Events, g \in Handlers : effects[d][g] \in Nat
      BY DEF IInv, TypeOK
    <3>2. HandlerSucceeds(v) => effects'[e][h] > 0
      <4>1. SUFFICES ASSUME HandlerSucceeds(v) PROVE FALSE
        OBVIOUS
      <4>2. effects' = [effects EXCEPT ![e][h] = @ + 1] /\ effects[e][h] \in Nat
        BY <1>1, <1>2, <3>1, <4>1 DEF HandlerSucceeds, TakeEffect
      <4>3. effects'[e][h] = effects[e][h] + 1
        <5>1. effects \in [Events -> [Handlers -> Nat]]
          BY DEF IInv, TypeOK
        <5> HIDE DEF e, h
        <5> QED
          BY <1>1, <1>2, <4>2, <5>1
      <4> QED
        BY <2>2, <4>2, <4>3
    <3> QED
      BY <2>2, <3>1, <3>2 DEF IInv, TypeOK
  <2> QED
    BY <2>1, <2>2 DEF RunHandler, SkipHandler, HandlerSucceeds, HandlerFails
<1>4. /\ good' \in [Workers -> SUBSET Handlers] /\ bad' \in [Workers -> SUBSET Handlers]
      /\ \A w \in Workers : w # v => good'[w] = good[w] /\ bad'[w] = bad[w]
      /\ good[v] \subseteq good'[v] /\ bad[v] \subseteq bad'[v]
      /\ h \in good'[v] \cup bad'[v]
      /\ good'[v] \subseteq good[v] \cup {h}
      /\ h \in good'[v] => h \in good[v] \/ h \in known[v] \/ HandlerSucceeds(v)
  <2>1. good \in [Workers -> SUBSET Handlers] /\ bad \in [Workers -> SUBSET Handlers]
    BY DEF IInv, TypeOK
  <2>2. CASE SkipHandler(v)
    BY <1>2, <2>1, <2>2 DEF SkipHandler, Completed
  <2>3. CASE HandlerSucceeds(v)
    BY <1>2, <2>1, <2>3 DEF HandlerSucceeds
  <2>4. CASE HandlerFails(v)
    BY <1>2, <2>1, <2>4 DEF HandlerFails
  <2> QED
    BY <2>2, <2>3, <2>4 DEF RunHandler
<1>5. TypeOK'
  <2>1. nth' \in [Workers -> Nat \ {0}]
    BY <1>1 DEF IInv, TypeOK
  <2> QED
    BY <1>1, <1>3, <1>4, <2>1 DEF IInv, TypeOK
<1>6. RetriesLeft' /\ LockMeaning' /\ LockedWithoutFault'
  BY <1>1 DEF IInv, RetriesLeft, LockMeaning, LockedWithoutFault
<1>7. IdleIsFresh'
  BY <1>1, <1>4 DEF IInv, TypeOK, IdleIsFresh, Busy
<1>8. \A d \in Events, g \in Handlers : effects[d][g] > 0 => effects'[d][g] > 0
  <2>1. \A d \in Events, g \in Handlers : effects[d][g] \in Nat /\ effects'[d][g] \in Nat
    BY <1>3 DEF IInv, TypeOK
  <2> QED
    BY <1>3, <2>1
<1>9. RecordedIsDone'
  <2>1. \A d \in Events : \A g \in row[d].handler_state : effects'[d][g] > 0
    BY <1>8 DEF IInv, TypeOK, Row, RecordedIsDone
  <2>2. ASSUME NEW w \in Workers, pc[w] \in Busy, NEW g \in known[w] \cup good'[w]
        PROVE  effects'[event[w]][g] > 0
    <3>1. event[w] \in Events /\ g \in Handlers
      BY <1>4, <2>2 DEF IInv, TypeOK
    <3>2. CASE g \in known[w] \cup good[w]
      BY <1>8, <2>2, <3>1, <3>2 DEF IInv, RecordedIsDone
    <3>3. CASE g \notin known[w] \cup good[w]
      <4>1. w = v /\ g = h /\ HandlerSucceeds(v)
        BY <1>4, <2>2, <3>3
      <4> QED
        BY <1>3, <4>1
    <3> QED
      BY <3>2, <3>3
  <2> QED
    BY <1>1, <2>1, <2>2 DEF RecordedIsDone
<1>10. PassedAccounted'
  <2> SUFFICES ASSUME NEW w \in Workers, pc[w] \in Busy
               PROVE  /\ \A i \in 1 .. Len(HandlersOf[event[w]]) :
                           i < nth'[w] => HandlersOf[event[w]][i] \in good'[w] \cup bad'[w]
                      /\ pc[w] = "commit" => nth'[w] > Len(HandlersOf[event[w]])
    BY <1>1 DEF PassedAccounted
  <2>1. CASE w # v
    <3>1. nth'[w] = nth[w] /\ good'[w] = good[w] /\ bad'[w] = bad[w]
      BY <1>1, <1>4, <2>1 DEF IInv, TypeOK
    <3> QED
      BY <3>1 DEF IInv, PassedAccounted
  <2>2. CASE w = v
    <3>1. nth'[v] = nth[v] + 1
      BY <1>1 DEF IInv, TypeOK
    <3>2. ASSUME NEW i \in 1 .. Len(HandlersOf[e]), i < nth'[v]
          PROVE  HandlersOf[e][i] \in good'[v] \cup bad'[v]
      <4>1. i \in Nat
        BY <1>1, ConstantFacts
      <4>2. i < nth[v] \/ i = nth[v]
        BY <1>1, <3>1, <3>2, <4>1
      <4>3. CASE i < nth[v]
        BY <1>1, <1>4, <4>3 DEF IInv, PassedAccounted, Busy
      <4>4. CASE i = nth[v]
        BY <1>4, <4>4 DEF Handler
      <4> QED
        BY <4>2, <4>3, <4>4
    <3> QED
      BY <1>1, <2>2, <3>2
  <2> QED
    BY <2>1, <2>2
<1>11. ProcessedMeansHandled'
  BY <1>1, <1>8 DEF IInv, ProcessedMeansHandled
<1> QED
  BY <1>5, <1>6, <1>7, <1>9, <1>10, <1>11 DEF IInv

(***************************************************************************)
(* The end of a dispatch, whatever ends it: the worker drops the event and *)
(* its lock, and the row is what it was or one of the outcomes.            *)
(***************************************************************************)
Dropped(v) ==
    /\ \E next \in {"poll", "sleep", "down"} : Drop(v, next)
    /\ lock' = Unlock(v)
    /\ \/ row' = row /\ (faults' = faults + 1 \/ \A e \in Events : lock[e] # v)
       \/ /\ pc[v] = "commit" /\ lock[event[v]] = v
          /\ \E r \in Outcomes(v, row[event[v]]) : row' = [row EXCEPT ![event[v]] = r]
    /\ left' \in [Workers -> 0 .. BatchSize]
    /\ faults' \in 0 .. MaxFaults
    /\ faults' >= faults
    /\ faults' = 0 => faults = 0
    /\ UNCHANGED effects

LEMMA DroppedPreserves == ASSUME IInv, NEW v \in Workers, Dropped(v) PROVE IInv'
<1>1. PICK next \in {"poll", "sleep", "down"} : Drop(v, next)
  BY DEF Dropped
<1>2. /\ lock' = Unlock(v) /\ UNCHANGED effects
      /\ left' \in [Workers -> 0 .. BatchSize] /\ faults' \in 0 .. MaxFaults
      /\ faults' = 0 => faults = 0
  BY DEF Dropped
<1>3. \A w \in Workers : w # v =>
        /\ pc'[w] = pc[w] /\ event'[w] = event[w] /\ known'[w] = known[w]
        /\ nth'[w] = nth[w] /\ good'[w] = good[w] /\ bad'[w] = bad[w]
  BY <1>1 DEF Drop, IInv, TypeOK
<1>4. /\ pc'[v] = next /\ event'[v] = NULL /\ nth'[v] = 1
      /\ good'[v] = {} /\ bad'[v] = {} /\ next \notin Busy
  BY <1>1 DEF Drop, IInv, TypeOK, Busy
<1>5. \A e \in Events : lock'[e] = IF lock[e] = v THEN NULL ELSE lock[e]
  BY <1>2 DEF Unlock
<1>6. /\ row' \in [Events -> Row]
      /\ \A e \in Events :
          /\ row'[e].status \in {"absent", "PENDING"} => row'[e].retry_count < MaxRetries
          /\ row'[e] # row[e] => lock[e] = v
          /\ \A h \in row'[e].handler_state : effects[e][h] > 0
          /\ row'[e].status = "PROCESSED" => \A h \in Handlers : effects[e][h] > 0
  <2>1. CASE row' = row
    BY <2>1 DEF IInv, TypeOK, RetriesLeft, RecordedIsDone, ProcessedMeansHandled
  <2>2. CASE row' # row
    <3>1. /\ pc[v] = "commit" /\ lock[event[v]] = v
          /\ \E r \in Outcomes(v, row[event[v]]) : row' = [row EXCEPT ![event[v]] = r]
      BY <2>2 DEF Dropped
    <3>2. PICK r \in Outcomes(v, row[event[v]]) : row' = [row EXCEPT ![event[v]] = r]
      BY <3>1
    <3>3. /\ event[v] \in Events
          /\ r \in Row
          /\ r.handler_state = row[event[v]].handler_state \cup good[v]
          /\ r.status = "PENDING" => r.retry_count < MaxRetries
          /\ r.status # "absent"
          /\ r.status = "PROCESSED" => AllSucceeded(v)
      BY <3>1, OutcomeOf
    <3>4. row' \in [Events -> Row] /\ row'[event[v]] = r
          /\ \A e \in Events : e # event[v] => row'[e] = row[e]
      BY <3>2, <3>3 DEF IInv, TypeOK
    <3>5. \A h \in r.handler_state : effects[event[v]][h] > 0
      BY <3>1, <3>3 DEF IInv, RecordedIsDone, Busy
    <3>6. r.status = "PROCESSED" => \A h \in Handlers : effects[event[v]][h] > 0
      BY <3>1, <3>3, SuccessCoversHandlers
    <3> SUFFICES ASSUME NEW e \in Events
                 PROVE  /\ row'[e].status \in {"absent", "PENDING"}
                             => row'[e].retry_count < MaxRetries
                        /\ row'[e] # row[e] => lock[e] = v
                        /\ \A h \in row'[e].handler_state : effects[e][h] > 0
                        /\ row'[e].status = "PROCESSED" => \A h \in Handlers : effects[e][h] > 0
      BY <3>4
    <3>7. CASE e = event[v]
      BY <3>1, <3>3, <3>4, <3>5, <3>6, <3>7
    <3>8. CASE e # event[v]
      BY <3>4, <3>8 DEF IInv, RetriesLeft, RecordedIsDone, ProcessedMeansHandled
    <3> QED
      BY <3>7, <3>8
  <2> QED
    BY <2>1, <2>2
<1>7. TypeOK'
  <2>1. lock' \in [Events -> Workers \cup {NULL}]
    BY <1>2 DEF Unlock, IInv, TypeOK
  <2>2. /\ pc' \in [Workers -> Busy \cup {"down", "poll", "sleep"}]
        /\ event' \in [Workers -> Events \cup {NULL}]
        /\ known' \in [Workers -> SUBSET Handlers]
        /\ nth' \in [Workers -> Nat \ {0}]
        /\ good' \in [Workers -> SUBSET Handlers]
        /\ bad' \in [Workers -> SUBSET Handlers]
    BY <1>1 DEF Drop, IInv, TypeOK
  <2>3. \A w \in Workers : (pc'[w] \in Busy) <=> (event'[w] # NULL)
    BY <1>3, <1>4 DEF IInv, TypeOK
  <2> QED
    BY <1>2, <1>6, <2>1, <2>2, <2>3 DEF IInv, TypeOK
<1>8. RetriesLeft' /\ ProcessedMeansHandled'
  BY <1>2, <1>6 DEF RetriesLeft, ProcessedMeansHandled
<1>9. IdleIsFresh'
  BY <1>3, <1>4 DEF IInv, IdleIsFresh
<1>10. LockMeaning'
  <2> SUFFICES ASSUME NEW e \in Events, NEW w \in Workers, lock'[e] = w
               PROVE  /\ pc'[w] \in Busy /\ event'[w] = e
                      /\ row'[e].status = "PENDING" /\ row'[e].handler_state = known'[w]
    BY DEF LockMeaning
  <2>1. lock[e] = w /\ w # v
    BY <1>5, ConstantFacts
  <2>2. row'[e] = row[e]
    BY <1>6, <2>1
  <2> QED
    BY <1>3, <2>1, <2>2 DEF IInv, LockMeaning
<1>11. LockedWithoutFault'
  <2> SUFFICES ASSUME faults = 0, NEW w \in Workers, pc'[w] \in Busy
               PROVE  lock'[event'[w]] = w
    BY <1>2 DEF LockedWithoutFault
  <2>1. w # v
    BY <1>4
  <2>2. pc[w] \in Busy /\ event'[w] = event[w] /\ lock[event[w]] = w /\ event[w] \in Events
    BY <1>3, <2>1 DEF IInv, TypeOK, LockedWithoutFault
  <2> QED
    BY <1>5, <2>1, <2>2
<1>12. RecordedIsDone'
  BY <1>2, <1>3, <1>4, <1>6 DEF IInv, RecordedIsDone
<1>13. PassedAccounted'
  BY <1>3, <1>4 DEF IInv, PassedAccounted
<1> QED
  BY <1>7, <1>8, <1>9, <1>10, <1>11, <1>12, <1>13 DEF IInv

LEMMA EndDrops ==
    ASSUME IInv, NEW v \in Workers, Commit(v) \/ CommitFails(v) \/ GoDown(v)
    PROVE  Dropped(v)
<1>1. /\ faults \in 0 .. MaxFaults /\ faults \in Nat /\ left \in [Workers -> 0 .. BatchSize]
      /\ lock \in [Events -> Workers \cup {NULL}]
      /\ pc[v] \in Busy => event[v] \in Events
  BY DEF IInv, TypeOK
<1>2. /\ [left EXCEPT ![v] = 0] \in [Workers -> 0 .. BatchSize]
      /\ faults < MaxFaults =>
            faults + 1 \in 0 .. MaxFaults /\ faults + 1 >= faults /\ (faults + 1 = 0 => faults = 0)
      /\ faults >= faults
  BY <1>1, ConstantFacts
<1>3. ASSUME pc[v] \in Busy, lock[event[v]] # v
      PROVE  lock = Unlock(v) /\ \A e \in Events : lock[e] # v
  <2>1. \A e \in Events : lock[e] # v
    BY <1>3 DEF IInv, LockMeaning
  <2> QED
    BY <1>1, <2>1 DEF Unlock
<1>4. ASSUME pc[v] \in Busy, lock[event[v]] = v
      PROVE  [lock EXCEPT ![event[v]] = NULL] = Unlock(v)
  <2>1. \A e \in Events : lock[e] = v => e = event[v]
    BY <1>3 DEF IInv, LockMeaning
  <2> QED
    BY <1>1, <1>4, <2>1 DEF Unlock
<1>5. CASE Commit(v)
  <2>1. pc[v] = "commit" /\ pc[v] \in Busy /\ lock[event[v]] = v
    BY <1>5 DEF Commit, Busy
  <2>2. lock' = Unlock(v)
    BY <1>4, <1>5, <2>1 DEF Commit, Record
  <2>3. \E r \in Outcomes(v, row[event[v]]) : row' = [row EXCEPT ![event[v]] = r]
    BY <1>5 DEF Commit, Record
  <2> QED
    BY <1>1, <1>2, <1>5, <2>1, <2>2, <2>3 DEF Commit, Dropped
<1>6. CASE CommitFails(v)
  <2>1. pc[v] = "commit" /\ pc[v] \in Busy
    BY <1>6 DEF CommitFails, Busy
  <2>2. /\ left' = [left EXCEPT ![v] = 0] /\ Drop(v, "sleep") /\ UNCHANGED effects
    BY <1>6 DEF CommitFails
  <2>3. CASE lock[event[v]] # v /\ UNCHANGED <<row, lock, faults>>
    BY <1>1, <1>2, <1>3, <2>1, <2>2, <2>3 DEF Dropped
  <2>4. CASE lock[event[v]] = v /\ lock' = Unlock(v) /\ UNCHANGED row /\ Fault
    BY <1>2, <2>2, <2>4 DEF Dropped, Fault
  <2>5. CASE lock[event[v]] = v /\ Record(v) /\ Fault
    <3>1. lock' = Unlock(v)
      BY <1>4, <2>1, <2>5 DEF Record
    <3>2. \E r \in Outcomes(v, row[event[v]]) : row' = [row EXCEPT ![event[v]] = r]
      BY <2>5 DEF Record
    <3> QED
      BY <1>2, <2>1, <2>2, <2>5, <3>1, <3>2 DEF Dropped, Fault
  <2> QED
    BY <1>6, <2>3, <2>4, <2>5 DEF CommitFails
<1>7. CASE GoDown(v)
  BY <1>2, <1>7 DEF GoDown, Dropped, Fault
<1> QED
  BY <1>5, <1>6, <1>7

LEMMA EndPreserves ==
    ASSUME IInv, NEW v \in Workers, Commit(v) \/ CommitFails(v) \/ GoDown(v)
    PROVE  IInv'
  BY EndDrops, DroppedPreserves

LEMMA ConnectionBreaksPreserves ==
    ASSUME IInv, NEW v \in Workers, ConnectionBreaks(v) PROVE IInv'
<1>1. /\ UNCHANGED <<row, pc, event, known, nth, good, bad, left, effects>>
      /\ faults < MaxFaults /\ faults' = faults + 1
      /\ lock' = Unlock(v)
  BY DEF ConnectionBreaks, Fault, workerVars
<1>2. \A e \in Events : lock'[e] = IF lock[e] = v THEN NULL ELSE lock[e]
  BY <1>1 DEF Unlock
<1>3. faults' \in 0 .. MaxFaults /\ faults' # 0
  BY <1>1, ConstantFacts DEF IInv, TypeOK
<1>4. TypeOK'
  <2>1. lock' \in [Events -> Workers \cup {NULL}]
    BY <1>1 DEF Unlock, IInv, TypeOK
  <2> QED
    BY <1>1, <1>3, <2>1 DEF IInv, TypeOK
<1>5. LockMeaning'
  BY <1>1, <1>2, ConstantFacts DEF IInv, LockMeaning
<1>6. LockedWithoutFault'
  BY <1>3 DEF LockedWithoutFault
<1>7. RetriesLeft' /\ IdleIsFresh' /\ ProcessedMeansHandled'
  BY <1>1 DEF IInv, RetriesLeft, IdleIsFresh, ProcessedMeansHandled
<1>8. RecordedIsDone' /\ PassedAccounted'
  BY <1>1 DEF IInv, RecordedIsDone, PassedAccounted
<1> QED
  BY <1>4, <1>5, <1>6, <1>7, <1>8 DEF IInv

LEMMA TickPreserves == ASSUME IInv, Tick PROVE IInv'
<1>1. UNCHANGED <<lock, pc, event, known, nth, good, bad, left, effects, faults>>
  BY DEF Tick, workerVars
<1>2. \A e \in Events :
        /\ row'[e] \in Row
        /\ row'[e].status = row[e].status
        /\ row'[e].retry_count = row[e].retry_count
        /\ row'[e].handler_state = row[e].handler_state
  <2>1. TAKE e \in Events
  <2>2. row[e] \in Row
    BY DEF IInv, TypeOK
  <2>3. row[e].scheduled_at \in Int
    BY <2>2 DEF Row
  <2>4. PICK d \in Int : row'[e] = [row[e] EXCEPT !.scheduled_at = d]
    <3>1. row[e].scheduled_at - 1 \in Int
      BY <2>3
    <3> QED
      BY <2>3, <3>1 DEF Tick
  <2> QED
    BY <2>2, <2>4 DEF Row
<1>3. row' = [e \in Events |-> row'[e]]
  BY DEF Tick
<1>4. TypeOK'
  <2>1. row' \in [Events -> Row]
    BY <1>2, <1>3
  <2> QED
    BY <1>1, <2>1 DEF IInv, TypeOK
<1>5. RetriesLeft' /\ ProcessedMeansHandled'
  BY <1>1, <1>2 DEF IInv, RetriesLeft, ProcessedMeansHandled
<1>6. LockMeaning' /\ LockedWithoutFault'
  BY <1>1, <1>2 DEF IInv, LockMeaning, LockedWithoutFault
<1>7. RecordedIsDone' /\ PassedAccounted' /\ IdleIsFresh'
  BY <1>1, <1>2 DEF IInv, RecordedIsDone, PassedAccounted, IdleIsFresh
<1> QED
  BY <1>4, <1>5, <1>6, <1>7 DEF IInv

LEMMA StutterPreserves == ASSUME IInv, UNCHANGED vars PROVE IInv'
<1>1. UNCHANGED <<row, lock, pc, event, known, nth, good, bad, left, effects, faults>>
  BY DEF vars, workerVars
<1>2. TypeOK' /\ RetriesLeft' /\ IdleIsFresh'
  BY <1>1 DEF IInv, TypeOK, RetriesLeft, IdleIsFresh
<1>3. LockMeaning' /\ LockedWithoutFault' /\ RecordedIsDone'
  BY <1>1 DEF IInv, LockMeaning, LockedWithoutFault, RecordedIsDone
<1>4. PassedAccounted' /\ ProcessedMeansHandled'
  BY <1>1 DEF IInv, PassedAccounted, ProcessedMeansHandled
<1> QED
  BY <1>2, <1>3, <1>4 DEF IInv

LEMMA StepPreserves == ASSUME IInv, [Next]_vars PROVE IInv'
<1>1. ASSUME NEW e \in Events, Publish(e) PROVE IInv'
  BY <1>1, PublishPreserves
<1>2. ASSUME NEW w \in Workers, LoopStep(w) PROVE IInv'
  <2>1. CASE StartPoll(w) \/ EndPoll(w) \/ EndDispatch(w)
    BY <2>1, LoopPreserves
  <2>2. CASE SelectEvent(w)
    BY <2>2, SelectEventPreserves
  <2>3. CASE RunHandler(w)
    BY <2>3, RunHandlerPreserves
  <2>4. CASE Commit(w) \/ CommitFails(w)
    BY <2>4, EndPreserves
  <2> QED
    BY <1>2, <2>1, <2>2, <2>3, <2>4 DEF LoopStep
<1>3. ASSUME NEW w \in Workers, ConnectionBreaks(w) PROVE IInv'
  BY <1>3, ConnectionBreaksPreserves
<1>4. ASSUME NEW w \in Workers, GoDown(w) PROVE IInv'
  BY <1>4, EndPreserves
<1>5. CASE Tick
  BY <1>5, TickPreserves
<1>6. CASE UNCHANGED vars
  BY <1>6, StutterPreserves
<1> QED
  BY <1>1, <1>2, <1>3, <1>4, <1>5, <1>6 DEF Next

(***************************************************************************)
(* The inductive invariant holds in every behaviour of the outbox.         *)
(***************************************************************************)
THEOREM Invariant == Spec => []IInv
<1>1. Init => IInv
  BY InitEstablishes
<1>2. IInv /\ [Next]_vars => IInv'
  BY StepPreserves
<1> QED
  BY <1>1, <1>2, PTL DEF Spec

(***************************************************************************)
(* Type correctness of the table, the locks and the loops.                 *)
(***************************************************************************)
THEOREM TypeCorrect == Spec => []TypeOK
<1>1. IInv => TypeOK
  BY DEF IInv
<1> QED
  BY <1>1, Invariant, PTL

(***************************************************************************)
(* An event is PROCESSED only after the work of every handler written for  *)
(* it took effect: whatever crashes, an event is never lost as a success   *)
(* (dispatcher.py 28-32, events/worker.py 95-120).                         *)
(***************************************************************************)
THEOREM NothingLost == Spec => []ProcessedMeansHandled
<1>1. IInv => ProcessedMeansHandled
  BY DEF IInv
<1> QED
  BY <1>1, Invariant, PTL

(***************************************************************************)
(* FOR UPDATE SKIP LOCKED gives an event to one worker at a time as long   *)
(* as no connection breaks (events/worker.py 71-93).                       *)
(***************************************************************************)
THEOREM OneDispatchAtATime == Spec => []DispatchedAlone
<1>1. IInv => DispatchedAlone
  BY DEF IInv, LockedWithoutFault, DispatchedAlone
<1> QED
  BY <1>1, Invariant, PTL

(***************************************************************************)
(* A recorded success is repeated only by a worker that has lost the lock  *)
(* of the row (dispatcher.py 76-79).                                       *)
(***************************************************************************)
THEOREM SuccessNotRepeated == Spec => CompletedIsSkipped
<1> DEFINE Skipped ==
        \A e \in Events, h \in Handlers :
            (h \in row[e].handler_state /\ effects'[e][h] # effects[e][h])
                => \E w \in Workers : event[w] = e /\ lock[e] # w
<1>1. IInv /\ [Next]_vars => [Skipped]_vars
  <2> SUFFICES ASSUME IInv, Next, NEW e \in Events, NEW h \in Handlers,
                      h \in row[e].handler_state, effects'[e][h] # effects[e][h]
               PROVE  \E w \in Workers : event[w] = e /\ lock[e] # w
    BY Zenon
  <2>1. PICK w \in Workers : RunHandler(w)
    BY DEF Next, LoopStep, Publish, StartPoll, SelectEvent, EndPoll, EndDispatch,
           Commit, CommitFails, ConnectionBreaks, GoDown, Tick
  <2>2. Handler(w) \notin known[w] /\ effects' = [effects EXCEPT ![event[w]][Handler(w)] = @ + 1]
    BY <2>1 DEF RunHandler, SkipHandler, HandlerSucceeds, HandlerFails, Completed, TakeEffect
  <2>3. event[w] = e /\ Handler(w) = h
    BY <2>2 DEF IInv, TypeOK
  <2>4. lock[e] # w
    BY <2>2, <2>3 DEF IInv, LockMeaning
  <2> QED
    BY <2>3, <2>4
<1> QED
  BY <1>1, Invariant, PTL DEF Spec, CompletedIsSkipped

(***************************************************************************)
(* The account of the repeats: what a handler has done for an event, and   *)
(* may still do in the hands of workers that lost the row, is paid by a    *)
(* recorded failure, a fault, or the one run that is its due.              *)
(***************************************************************************)
Ran(w) == good[w] \cup bad[w]

(* The workers that lost the row of e and have h still to run. *)
Stale(e, h) ==
    {w \in Workers : event[w] = e /\ lock[e] # w /\ h \notin known[w] \cup Ran(w)}

(* The run that is due: recorded, or in the hands of who holds the row. *)
DueRun(e, h) ==
    \/ h \in row[e].handler_state
    \/ \E w \in Workers : lock[e] = w /\ h \in Ran(w)

Paid(e, h) == row[e].retry_count + faults + (IF DueRun(e, h) THEN 1 ELSE 0)

RanWasPassed ==
    \A w \in Workers : pc[w] \in Busy => \A h \in Ran(w) :
        \E i \in 1 .. Len(HandlersOf[event[w]]) : i < nth[w] /\ HandlersOf[event[w]][i] = h

AbsentIsNew ==
    \A e \in Events : row[e].status = "absent" =>
        row[e].retry_count = 0 /\ row[e].handler_state = {}

AccountBalances ==
    \A e \in Events, h \in Handlers :
        effects[e][h] + Cardinality(Stale(e, h)) <= Paid(e, h)

Account == RanWasPassed /\ AbsentIsNew /\ AccountBalances

LEMMA StaleIsFinite ==
    ASSUME NEW e, NEW h
    PROVE  IsFiniteSet(Stale(e, h)) /\ Cardinality(Stale(e, h)) \in Nat
<1>1. IsFiniteSet(Stale(e, h))
  BY OutboxAssumption, FS_Subset DEF Stale
<1> QED
  BY <1>1, FS_CardinalityType

LEMMA PaidIsNatural ==
    ASSUME TypeOK, NEW e \in Events, NEW h \in Handlers
    PROVE  /\ row[e].retry_count \in Nat /\ faults \in Nat /\ effects[e][h] \in Nat
           /\ Paid(e, h) \in Nat
<1>1. row[e].retry_count \in Nat /\ faults \in Nat /\ effects[e][h] \in Nat
  BY ConstantFacts DEF TypeOK, Row
<1> QED
  BY <1>1 DEF Paid

(* A step that leaves no more to run and takes nothing off what is paid. *)
LEMMA BalanceKept ==
    ASSUME IInv, Account, IInv', NEW e \in Events, NEW h \in Handlers,
           effects'[e][h] = effects[e][h], Stale(e, h)' \subseteq Stale(e, h),
           Paid(e, h)' >= Paid(e, h)
    PROVE  effects'[e][h] + Cardinality(Stale(e, h)') <= Paid(e, h)'
<1>1. /\ Paid(e, h) \in Nat /\ effects[e][h] \in Nat
      /\ Paid(e, h)' \in Nat
  <2>1. row'[e].retry_count \in Nat /\ faults' \in Nat
    BY ConstantFacts DEF IInv, TypeOK, Row
  <2> QED
    BY <2>1, PaidIsNatural DEF IInv, Paid
<1>2. /\ IsFiniteSet(Stale(e, h)) /\ Cardinality(Stale(e, h)) \in Nat
      /\ Cardinality(Stale(e, h)') \in Nat
      /\ Cardinality(Stale(e, h)') <= Cardinality(Stale(e, h))
  BY StaleIsFinite, FS_Subset, FS_CardinalityType
<1>3. effects[e][h] + Cardinality(Stale(e, h)) <= Paid(e, h)
  BY DEF Account, AccountBalances
<1> QED
  BY <1>1, <1>2, <1>3

LEMMA AccountAtInit == ASSUME Init PROVE Account
<1>1. RanWasPassed /\ AbsentIsNew
  BY DEF Init, RanWasPassed, AbsentIsNew, Busy
<1>2. AccountBalances
  <2> SUFFICES ASSUME NEW e \in Events, NEW h \in Handlers
               PROVE  effects[e][h] + Cardinality(Stale(e, h)) <= Paid(e, h)
    BY DEF AccountBalances
  <2>1. Stale(e, h) = {} /\ effects[e][h] = 0
    BY ConstantFacts DEF Init, Stale
  <2>2. Cardinality({}) = 0
    BY FS_EmptySet
  <2>3. Paid(e, h) \in Nat
    BY InitEstablishes, PaidIsNatural DEF IInv
  <2> QED
    BY <2>1, <2>2, <2>3
<1> QED
  BY <1>1, <1>2 DEF Account

(* The steps that run no handler and record nothing. *)
LEMMA QuietKeepsAccount ==
    ASSUME IInv, IInv', Account,
           UNCHANGED <<lock, event, known, nth, good, bad, effects, faults>>,
           \A e \in Events : /\ row'[e].retry_count = row[e].retry_count
                             /\ row'[e].handler_state = row[e].handler_state
                             /\ row'[e].status = "absent" => row[e].status = "absent"
    PROVE  Account'
<1>1. RanWasPassed'
  <2>1. \A w \in Workers : pc[w] \in Busy <=> pc'[w] \in Busy
    BY DEF IInv, TypeOK
  <2> QED
    BY <2>1 DEF Account, RanWasPassed, Ran
<1>2. AbsentIsNew'
  BY DEF Account, AbsentIsNew
<1>3. AccountBalances'
  <2> SUFFICES ASSUME NEW e \in Events, NEW h \in Handlers
               PROVE  effects'[e][h] + Cardinality(Stale(e, h)') <= Paid(e, h)'
    BY DEF AccountBalances
  <2>1. Stale(e, h)' = Stale(e, h)
    BY DEF Stale, Ran
  <2>2. Paid(e, h)' = Paid(e, h)
    BY DEF Paid, DueRun, Ran
  <2>3. Paid(e, h) \in Nat
    BY PaidIsNatural DEF IInv
  <2> QED
    BY <2>1, <2>2, <2>3, BalanceKept
<1> QED
  BY <1>1, <1>2, <1>3 DEF Account

LEMMA SelectEventKeepsAccount ==
    ASSUME IInv, IInv', Account, NEW v \in Workers, SelectEvent(v) PROVE Account'
<1>1. PICK d \in Events :
        /\ Selectable(d)
        /\ lock' = [lock EXCEPT ![d] = v]
        /\ event' = [event EXCEPT ![v] = d]
        /\ known' = [known EXCEPT ![v] = row[d].handler_state]
  BY DEF SelectEvent
<1>2. /\ pc[v] = "poll" /\ pc' = [pc EXCEPT ![v] = "dispatch"]
      /\ UNCHANGED <<row, nth, good, bad, effects, faults>>
      /\ lock[d] = NULL
  BY <1>1 DEF SelectEvent, Selectable
<1>3. /\ event[v] = NULL /\ Ran(v) = {}
      /\ \A w \in Workers : w # v =>
            event'[w] = event[w] /\ known'[w] = known[w] /\ pc'[w] = pc[w]
      /\ \A e \in Events : lock'[e] = IF e = d THEN v ELSE lock[e]
      /\ event'[v] = d
  BY <1>1, <1>2 DEF IInv, TypeOK, IdleIsFresh, Ran, Busy
<1>4. RanWasPassed'
  BY <1>2, <1>3 DEF Account, RanWasPassed, Ran
<1>5. AbsentIsNew'
  BY <1>2 DEF Account, AbsentIsNew
<1>6. AccountBalances'
  <2> SUFFICES ASSUME NEW e \in Events, NEW h \in Handlers
               PROVE  effects'[e][h] + Cardinality(Stale(e, h)') <= Paid(e, h)'
    BY DEF AccountBalances
  <2>1. Stale(e, h)' \subseteq Stale(e, h)
    <3> SUFFICES ASSUME NEW w \in Workers, event'[w] = e, lock'[e] # w,
                        h \notin known'[w] \cup Ran(w)'
                 PROVE  w \in Stale(e, h)
      BY DEF Stale
    <3>1. w # v
      BY <1>3
    <3> QED
      BY <1>2, <1>3, <3>1, ConstantFacts DEF Stale, Ran
  <2>2. DueRun(e, h) => DueRun(e, h)'
    BY <1>2, <1>3, ConstantFacts DEF DueRun, Ran
  <2>3. Paid(e, h)' >= Paid(e, h)
    <3>1. row[e].retry_count \in Nat /\ faults \in Nat
      BY PaidIsNatural DEF IInv
    <3> QED
      BY <1>2, <2>2, <3>1 DEF Paid
  <2> QED
    BY <1>2, <2>1, <2>3, BalanceKept
<1> QED
  BY <1>4, <1>5, <1>6 DEF Account

LEMMA RunHandlerKeepsAccount ==
    ASSUME IInv, IInv', Account, NEW v \in Workers, RunHandler(v) PROVE Account'
<1> DEFINE d == event[v]
           g == Handler(v)
<1>1. /\ pc[v] = "dispatch" /\ pc[v] \in Busy /\ d \in Events
      /\ nth[v] \in Nat \ {0} /\ nth[v] <= Len(HandlersOf[d])
      /\ nth' = [nth EXCEPT ![v] = @ + 1]
      /\ UNCHANGED <<row, lock, pc, event, known, left, faults>>
  BY DEF RunHandler, IInv, TypeOK, Busy
<1>2. nth[v] \in 1 .. Len(HandlersOf[d]) /\ HandlersOf[d][nth[v]] = g /\ g \in Handlers
  <2>1. Len(HandlersOf[d]) \in Nat /\ HandlersOf[d] \in [1 .. Len(HandlersOf[d]) -> Handlers]
    BY <1>1, ConstantFacts
  <2>2. nth[v] \in 1 .. Len(HandlersOf[d])
    BY <1>1, <2>1
  <2> QED
    BY <2>1, <2>2 DEF Handler
<1>3. g \notin Ran(v)
  <2>1. \A i, k \in 1 .. Len(HandlersOf[d]) : HandlersOf[d][i] = HandlersOf[d][k] => i = k
    BY <1>1, OutboxAssumption
  <2>2. \A i \in 1 .. Len(HandlersOf[d]) : HandlersOf[d][i] = g => i = nth[v]
    <3> HIDE DEF d, g
    <3> QED
      BY <1>2, <2>1
  <2> QED
    BY <1>1, <2>2 DEF Account, RanWasPassed
<1>4. /\ \A w \in Workers : w # v => Ran(w)' = Ran(w) /\ nth'[w] = nth[w]
      /\ Ran(v)' = Ran(v) \cup {g} /\ nth'[v] = nth[v] + 1
      /\ g \in known[v] => effects' = effects
      /\ UNCHANGED effects \/ effects' = [effects EXCEPT ![d][g] = @ + 1]
  BY <1>1 DEF RunHandler, SkipHandler, HandlerSucceeds, HandlerFails, Completed, TakeEffect,
              IInv, TypeOK, Ran
<1> HIDE DEF d, g
<1>5. RanWasPassed'
  <2> SUFFICES ASSUME NEW w \in Workers, pc[w] \in Busy, NEW h \in Ran(w)'
               PROVE  \E i \in 1 .. Len(HandlersOf[event[w]]) :
                          i < nth'[w] /\ HandlersOf[event[w]][i] = h
    BY <1>1 DEF RanWasPassed
  <2>1. CASE w # v
    BY <1>4, <2>1 DEF Account, RanWasPassed
  <2>2. CASE w = v /\ h = g
    <3>1. nth[v] < nth'[v]
      BY <1>1, <1>4
    <3> QED
      BY <1>2, <2>2, <3>1 DEF d
  <2>3. CASE w = v /\ h # g
    <3>1. h \in Ran(v)
      BY <1>4, <2>3
    <3>2. PICK i \in 1 .. Len(HandlersOf[event[v]]) :
                i < nth[v] /\ HandlersOf[event[v]][i] = h
      BY <1>1, <3>1 DEF Account, RanWasPassed
    <3>3. i < nth'[v]
      BY <1>1, <1>2, <1>4, <3>2 DEF d
    <3> QED
      BY <2>3, <3>2, <3>3
  <2> QED
    BY <2>1, <2>2, <2>3
<1>6. AbsentIsNew'
  BY <1>1 DEF Account, AbsentIsNew
<1>7. AccountBalances'
  <2> SUFFICES ASSUME NEW e \in Events, NEW h \in Handlers
               PROVE  effects'[e][h] + Cardinality(Stale(e, h)') <= Paid(e, h)'
    BY DEF AccountBalances
  <2>1. Stale(e, h)' \subseteq Stale(e, h)
    BY <1>1, <1>4 DEF Stale
  <2>2. DueRun(e, h) => DueRun(e, h)'
    BY <1>1, <1>4 DEF DueRun
  <2>3. /\ row[e].retry_count \in Nat /\ faults \in Nat /\ effects[e][h] \in Nat
        /\ effects \in [Events -> [Handlers -> Nat]]
    BY PaidIsNatural DEF IInv, TypeOK
  <2>4. Paid(e, h)' >= Paid(e, h)
    BY <1>1, <2>2, <2>3 DEF Paid
  <2>5. CASE effects'[e][h] = effects[e][h]
    BY <2>1, <2>4, <2>5, BalanceKept
  <2>6. CASE effects'[e][h] # effects[e][h]
    <3>1. e = d /\ h = g /\ effects'[e][h] = effects[e][h] + 1 /\ h \notin known[v]
      BY <1>4, <2>3, <2>6
    <3>2. /\ IsFiniteSet(Stale(e, h)) /\ Cardinality(Stale(e, h)) \in Nat
          /\ Cardinality(Stale(e, h)') \in Nat
          /\ effects[e][h] + Cardinality(Stale(e, h)) <= Paid(e, h)
          /\ Cardinality(Stale(e, h)') <= Cardinality(Stale(e, h))
      BY <2>1, StaleIsFinite, FS_Subset, FS_CardinalityType DEF Account, AccountBalances
    <3>3. CASE lock[e] = v
      <4>1. ~ DueRun(e, h)
        BY <1>3, <3>1, <3>3 DEF DueRun, IInv, LockMeaning
      <4>2. DueRun(e, h)'
        BY <1>1, <1>4, <3>1, <3>3 DEF DueRun
      <4> QED
        BY <1>1, <2>3, <3>1, <3>2, <4>1, <4>2 DEF Paid
    <3>4. CASE lock[e] # v
      <4>1. v \in Stale(e, h)
        BY <1>3, <3>1, <3>4 DEF Stale, d
      <4>2. Stale(e, h)' \subseteq Stale(e, h) \ {v}
        BY <1>4, <2>1, <3>1 DEF Stale
      <4>3. /\ IsFiniteSet(Stale(e, h) \ {v})
            /\ Cardinality(Stale(e, h) \ {v}) = Cardinality(Stale(e, h)) - 1
        BY <3>2, <4>1, FS_RemoveElement
      <4>4. Cardinality(Stale(e, h)') <= Cardinality(Stale(e, h) \ {v})
        BY <4>2, <4>3, FS_Subset
      <4>5. Paid(e, h) \in Nat /\ Paid(e, h)' \in Nat
        BY <1>1, <2>3 DEF Paid
      <4> QED
        BY <2>3, <2>4, <3>1, <3>2, <4>3, <4>4, <4>5
    <3> QED
      BY <3>3, <3>4
  <2> QED
    BY <2>5, <2>6
<1> QED
  BY <1>5, <1>6, <1>7 DEF Account

(* A commit that does not count a failure records every handler it ran. *)
LEMMA OutcomePays ==
    ASSUME IInv, NEW w \in Workers, pc[w] = "commit",
           lock[event[w]] = w, NEW r \in Outcomes(w, row[event[w]])
    PROVE  \/ r.retry_count = row[event[w]].retry_count + 1
           \/ r.retry_count = row[event[w]].retry_count /\ Ran(w) \subseteq r.handler_state
<1>1. row[event[w]] \in Row /\ good[w] \in SUBSET Handlers
  BY DEF IInv, TypeOK, Busy
<1>2. CASE AllSucceeded(w)
  <2>1. r = [row[event[w]] EXCEPT !.status = "PROCESSED", !.handler_state = @ \cup good[w]]
        /\ bad[w] = {}
    BY <1>2 DEF Outcomes, Processed, AllSucceeded
  <2> QED
    BY <1>1, <2>1 DEF Row, Ran
<1>3. CASE ~ AllSucceeded(w)
  BY <1>1, <1>3 DEF Outcomes, GivenUp, Retried, Row
<1> QED
  BY <1>2, <1>3

LEMMA DroppedKeepsAccount ==
    ASSUME IInv, IInv', Account, NEW v \in Workers, Dropped(v) PROVE Account'
<1>1. PICK next \in {"poll", "sleep", "down"} : Drop(v, next)
  BY DEF Dropped
<1>2. /\ \A w \in Workers : w # v =>
            /\ pc'[w] = pc[w] /\ event'[w] = event[w] /\ known'[w] = known[w]
            /\ nth'[w] = nth[w] /\ Ran(w)' = Ran(w)
      /\ pc'[v] \notin Busy /\ event'[v] = NULL
      /\ \A e \in Events : lock'[e] = IF lock[e] = v THEN NULL ELSE lock[e]
      /\ faults' >= faults /\ UNCHANGED effects
  BY <1>1 DEF Dropped, Drop, Unlock, IInv, TypeOK, Busy, Ran
<1>3. ASSUME NEW e \in Events
      PROVE  \/ row'[e] = row[e] /\ (faults' = faults + 1 \/ lock[e] # v)
             \/ /\ lock[e] = v
                /\ row'[e].status # "absent"
                /\ row[e].handler_state \subseteq row'[e].handler_state
                /\ \/ row'[e].retry_count = row[e].retry_count + 1
                   \/ /\ row'[e].retry_count = row[e].retry_count
                      /\ Ran(v) \subseteq row'[e].handler_state
  <2>1. CASE row' = row /\ (faults' = faults + 1 \/ \A d \in Events : lock[d] # v)
    BY <2>1
  <2>2. CASE /\ pc[v] = "commit" /\ lock[event[v]] = v
             /\ \E r \in Outcomes(v, row[event[v]]) : row' = [row EXCEPT ![event[v]] = r]
    <3>1. PICK r \in Outcomes(v, row[event[v]]) : row' = [row EXCEPT ![event[v]] = r]
      BY <2>2
    <3>2. /\ event[v] \in Events
          /\ r.handler_state = row[event[v]].handler_state \cup good[v]
          /\ r.status # "absent"
      BY <2>2, OutcomeOf
    <3>3. \/ r.retry_count = row[event[v]].retry_count + 1
          \/ r.retry_count = row[event[v]].retry_count /\ Ran(v) \subseteq r.handler_state
      BY <2>2, OutcomePays
    <3>4. row'[e] = IF e = event[v] THEN r ELSE row[e]
      BY <3>1, <3>2 DEF IInv, TypeOK
    <3>5. CASE e = event[v]
      BY <2>2, <3>2, <3>3, <3>4, <3>5
    <3>6. CASE e # event[v]
      BY <3>4, <3>6 DEF IInv, LockMeaning
    <3> QED
      BY <3>5, <3>6
  <2> QED
    BY <2>1, <2>2 DEF Dropped
<1>4. RanWasPassed'
  BY <1>2 DEF Account, RanWasPassed
<1>5. AbsentIsNew'
  BY <1>3 DEF Account, AbsentIsNew
<1>6. AccountBalances'
  <2> SUFFICES ASSUME NEW e \in Events, NEW h \in Handlers
               PROVE  effects'[e][h] + Cardinality(Stale(e, h)') <= Paid(e, h)'
    BY DEF AccountBalances
  <2>1. Stale(e, h)' \subseteq Stale(e, h)
    <3> SUFFICES ASSUME NEW w \in Workers, event'[w] = e, lock'[e] # w,
                        h \notin known'[w] \cup Ran(w)'
                 PROVE  w \in Stale(e, h)
      BY DEF Stale
    <3>1. w # v
      BY <1>2, ConstantFacts
    <3> QED
      BY <1>2, <3>1 DEF Stale
  <2>2. row[e].retry_count \in Nat /\ faults \in Nat /\ faults' \in Nat
    BY PaidIsNatural, ConstantFacts DEF IInv, TypeOK
  <2>3. Paid(e, h)' >= Paid(e, h)
    <3>1. CASE lock[e] # v
      <4>1. row'[e] = row[e]
        BY <1>3, <3>1
      <4>2. DueRun(e, h) => DueRun(e, h)'
        BY <1>2, <3>1, <4>1 DEF DueRun
      <4> QED
        BY <1>2, <2>2, <4>1, <4>2 DEF Paid
    <3>2. CASE row'[e] = row[e] /\ faults' = faults + 1
      BY <2>2, <3>2 DEF Paid
    <3>3. CASE row'[e].retry_count = row[e].retry_count + 1
      BY <1>2, <2>2, <3>3 DEF Paid
    <3>4. CASE /\ lock[e] = v /\ row'[e].retry_count = row[e].retry_count
               /\ row[e].handler_state \cup Ran(v) \subseteq row'[e].handler_state
      <4>1. DueRun(e, h) => DueRun(e, h)'
        BY <3>4 DEF DueRun
      <4> QED
        BY <1>2, <2>2, <3>4, <4>1 DEF Paid
    <3> QED
      BY <1>3, <3>1, <3>2, <3>3, <3>4
  <2> QED
    BY <1>2, <2>1, <2>3, BalanceKept
<1> QED
  BY <1>4, <1>5, <1>6 DEF Account

LEMMA ConnectionBreaksKeepsAccount ==
    ASSUME IInv, IInv', Account, NEW v \in Workers, ConnectionBreaks(v) PROVE Account'
<1>1. /\ UNCHANGED <<row, pc, event, known, nth, good, bad, left, effects>>
      /\ faults' = faults + 1
      /\ pc[v] \in Busy /\ lock[event[v]] = v
      /\ lock' = Unlock(v)
  BY DEF ConnectionBreaks, Fault, workerVars
<1>2. \A e \in Events : lock'[e] = IF lock[e] = v THEN NULL ELSE lock[e]
  BY <1>1 DEF Unlock
<1>3. RanWasPassed' /\ AbsentIsNew'
  BY <1>1 DEF Account, RanWasPassed, AbsentIsNew, Ran
<1>4. AccountBalances'
  <2> SUFFICES ASSUME NEW e \in Events, NEW h \in Handlers
               PROVE  effects'[e][h] + Cardinality(Stale(e, h)') <= Paid(e, h)'
    BY DEF AccountBalances
  <2>1. /\ row[e].retry_count \in Nat /\ faults \in Nat /\ effects[e][h] \in Nat
        /\ \A w \in Workers : Ran(w)' = Ran(w)
    BY <1>1, PaidIsNatural DEF IInv, Ran
  <2>2. Stale(e, h)' \subseteq Stale(e, h) \cup {v}
    BY <1>1, <1>2, <2>1 DEF Stale
  <2>3. CASE Stale(e, h)' \subseteq Stale(e, h)
    <3>1. Paid(e, h)' >= Paid(e, h)
      BY <1>1, <2>1 DEF Paid
    <3> QED
      BY <1>1, <2>3, <3>1, BalanceKept
  <2>4. CASE ~ (Stale(e, h)' \subseteq Stale(e, h))
    <3>1. v \in Stale(e, h)' /\ v \notin Stale(e, h)
      BY <2>2, <2>4
    <3>2. lock[e] = v /\ event[v] = e /\ h \notin known[v] \cup Ran(v)
      BY <1>1, <2>1, <3>1 DEF Stale
    <3>3. ~ DueRun(e, h)
      BY <3>2 DEF DueRun, IInv, LockMeaning
    <3>4. Paid(e, h) = row[e].retry_count + faults
      BY <2>1, <3>3 DEF Paid
    <3>5. Paid(e, h)' >= row[e].retry_count + faults + 1
      BY <1>1, <2>1 DEF Paid
    <3>6. /\ IsFiniteSet(Stale(e, h) \cup {v})
          /\ Cardinality(Stale(e, h) \cup {v}) = Cardinality(Stale(e, h)) + 1
          /\ Cardinality(Stale(e, h)) \in Nat
      BY <3>1, StaleIsFinite, FS_AddElement
    <3>7. Cardinality(Stale(e, h)') <= Cardinality(Stale(e, h)) + 1
      BY <2>2, <3>6, FS_Subset
    <3>8. /\ effects[e][h] + Cardinality(Stale(e, h)) <= Paid(e, h)
          /\ Cardinality(Stale(e, h)') \in Nat
      BY <2>2, <3>6, FS_Subset, FS_CardinalityType DEF Account, AccountBalances
    <3>9. Paid(e, h)' \in Nat
      BY <1>1, <2>1 DEF Paid
    <3> QED
      BY <1>1, <2>1, <3>4, <3>5, <3>6, <3>7, <3>8, <3>9
  <2> QED
    BY <2>3, <2>4
<1> QED
  BY <1>3, <1>4 DEF Account

LEMMA StepKeepsAccount == ASSUME IInv, Account, [Next]_vars PROVE Account'
<1>0. IInv'
  BY StepPreserves
<1>1. ASSUME NEW d \in Events, Publish(d) PROVE Account'
  <2>1. /\ UNCHANGED <<lock, event, known, nth, good, bad, effects, faults>>
        /\ row[d].status = "absent"
        /\ \A e \in Events : row'[e] = IF e = d
               THEN [status |-> "PENDING", retry_count |-> 0,
                     scheduled_at |-> 0, handler_state |-> {}]
               ELSE row[e]
    BY <1>1 DEF Publish, workerVars, IInv, TypeOK
  <2>2. \A e \in Events : /\ row'[e].retry_count = row[e].retry_count
                          /\ row'[e].handler_state = row[e].handler_state
                          /\ row'[e].status = "absent" => row[e].status = "absent"
    <3>1. TAKE e \in Events
    <3>2. CASE e = d
      <4>1. row'[d].retry_count = 0 /\ row'[d].handler_state = {} /\ row'[d].status = "PENDING"
        BY <2>1
      <4>2. row[d].retry_count = 0 /\ row[d].handler_state = {}
        BY <2>1 DEF Account, AbsentIsNew
      <4> QED
        BY <3>2, <4>1, <4>2
    <3>3. CASE e # d
      BY <2>1, <3>3
    <3> QED
      BY <3>2, <3>3
  <2> QED
    BY <1>0, <2>1, <2>2, QuietKeepsAccount
<1>2. ASSUME NEW w \in Workers, LoopStep(w) PROVE Account'
  <2>1. CASE StartPoll(w) \/ EndPoll(w) \/ EndDispatch(w)
    <3>1. UNCHANGED <<row, lock, event, known, nth, good, bad, effects, faults>>
      BY <2>1 DEF StartPoll, EndPoll, EndDispatch
    <3> QED
      BY <1>0, <3>1, QuietKeepsAccount
  <2>2. CASE SelectEvent(w)
    BY <1>0, <2>2, SelectEventKeepsAccount
  <2>3. CASE RunHandler(w)
    BY <1>0, <2>3, RunHandlerKeepsAccount
  <2>4. CASE Commit(w) \/ CommitFails(w)
    BY <1>0, <2>4, EndDrops, DroppedKeepsAccount
  <2> QED
    BY <1>2, <2>1, <2>2, <2>3, <2>4 DEF LoopStep
<1>3. ASSUME NEW w \in Workers, ConnectionBreaks(w) PROVE Account'
  BY <1>0, <1>3, ConnectionBreaksKeepsAccount
<1>4. ASSUME NEW w \in Workers, GoDown(w) PROVE Account'
  BY <1>0, <1>4, EndDrops, DroppedKeepsAccount
<1>5. CASE Tick
  <2>1. UNCHANGED <<lock, event, known, nth, good, bad, effects, faults>>
    BY <1>5 DEF Tick, workerVars
  <2>2. \A e \in Events : /\ row'[e].retry_count = row[e].retry_count
                          /\ row'[e].handler_state = row[e].handler_state
                          /\ row'[e].status = row[e].status
    <3>1. \A e \in Events : row[e] \in Row
      BY DEF IInv, TypeOK
    <3> QED
      BY <1>5, <3>1 DEF Tick, Row
  <2> QED
    BY <1>0, <2>1, <2>2, QuietKeepsAccount
<1>6. CASE UNCHANGED vars
  <2>1. UNCHANGED <<row, lock, event, known, nth, good, bad, effects, faults>>
    BY <1>6 DEF vars, workerVars
  <2> QED
    BY <1>0, <2>1, QuietKeepsAccount
<1> QED
  BY <1>1, <1>2, <1>3, <1>4, <1>5, <1>6 DEF Next

(***************************************************************************)
(* How often a handler works for one event: once, and once more at most    *)
(* for every failure the row has counted and every fault, for any number   *)
(* of workers (events/worker.py 71-120, dispatcher.py 76-79).              *)
(***************************************************************************)
THEOREM RepeatsArePaid == Spec => []RepeatsAccounted
<1>1. ASSUME IInv, Account PROVE RepeatsAccounted
  <2> SUFFICES ASSUME NEW e \in Events, NEW h \in Handlers
               PROVE  effects[e][h] <= 1 + row[e].retry_count + faults
    BY DEF RepeatsAccounted
  <2>1. /\ effects[e][h] + Cardinality(Stale(e, h)) <= Paid(e, h)
        /\ Cardinality(Stale(e, h)) \in Nat
    BY <1>1, StaleIsFinite DEF Account, AccountBalances
  <2>2. row[e].retry_count \in Nat /\ faults \in Nat /\ effects[e][h] \in Nat
    BY <1>1, PaidIsNatural DEF IInv
  <2>3. Paid(e, h) <= 1 + row[e].retry_count + faults /\ Paid(e, h) \in Nat
    BY <2>2 DEF Paid
  <2> QED
    BY <2>1, <2>2, <2>3
<1>2. Init => IInv /\ Account
  BY InitEstablishes, AccountAtInit
<1>3. IInv /\ Account /\ [Next]_vars => (IInv /\ Account)'
  BY StepPreserves, StepKeepsAccount
<1> QED
  BY <1>1, <1>2, <1>3, PTL DEF Spec
=============================================================================
