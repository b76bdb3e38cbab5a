------------------------------- MODULE Outbox -------------------------------
(***************************************************************************)
(* The transactional outbox (core/events).  publish inserts an event in    *)
(* the transaction of the domain write; an OutboxWorker in each process    *)
(* takes due events one by one with FOR UPDATE SKIP LOCKED, runs every     *)
(* registered handler that handler_state does not say is done, and commits *)
(* the outcome in the transaction that holds the row lock: PROCESSED, a    *)
(* retry later, or FAILED after max_retries.                               *)
(*                                                                         *)
(* scheduled_at is the distance from the present, as in JobWorker, and     *)
(* stops at -MaxOverdue.  effects counts how often a handler's own work    *)
(* took effect: the handlers commit in sessions of their own.              *)
(***************************************************************************)
EXTENDS Integers, Sequences, FiniteSets

CONSTANTS
    Events,        \* the events of one behaviour
    Workers,       \* the processes with an OutboxWorker
    Handlers,      \* the handlers written for the events
    HandlersOf,    \* HandlersOf[e]: those the dispatcher has for e's event_type,
                   \* in order; none when db_registry lacks their import
    MaxRetries,    \* OUTBOX_MAX_RETRIES, max_retries of the row
    Backoff,       \* Backoff[n]: the delays the n-th failure may be given
    BatchSize,     \* BATCH_SIZE, events of one poll
    MaxOverdue,    \* bound: overdue events are ordered up to this age
    MaxFaults,     \* bound: crashes and failed transactions in one behaviour
    NULL

ASSUME OutboxAssumption ==
    /\ MaxRetries \in Nat \ {0}
    /\ BatchSize \in Nat \ {0}
    /\ MaxOverdue \in Nat
    /\ MaxFaults \in Nat
    /\ Backoff \in [1 .. MaxRetries -> SUBSET Nat]
    /\ \A n \in 1 .. MaxRetries : Backoff[n] # {}
    /\ HandlersOf \in [Events -> Seq(Handlers)]
    /\ \A e \in Events : \A i, k \in 1 .. Len(HandlersOf[e]) :
        HandlersOf[e][i] = HandlersOf[e][k] => i = k
    /\ IsFiniteSet(Workers)
    /\ \A e \in Events : HandlersOf[e] # <<>> =>
        \A h \in Handlers : \E i \in 1 .. Len(HandlersOf[e]) : HandlersOf[e][i] = h
    /\ NULL \notin Events \cup Workers

VARIABLES
    row,      \* row[e]: the outbox_events row
    lock,     \* lock[e]: the worker whose open transaction locks the row, or NULL
    pc,       \* pc[w]: where w's loop is
    event,    \* event[w]: the event in w's hands, or NULL
    known,    \* known[w]: handler_state of the row as w read it
    nth,      \* nth[w]: position in HandlersOf of the handler to run next
    good,     \* good[w]: handlers skipped or run with success in this dispatch
    bad,      \* bad[w]: handlers that failed in this dispatch
    left,     \* left[w]: iterations left of this poll
    effects,  \* effects[e][h]: times h's work for e took effect
    faults    \* crashes and failed transactions so far

workerVars == <<pc, event, known, nth, good, bad, left>>
vars == <<row, lock, workerVars, effects, faults>>

Busy == {"dispatch", "commit"}

Row == [status : {"absent", "PENDING", "PROCESSED", "FAILED"},
        retry_count : 0 .. MaxRetries,
        scheduled_at : Int,
        handler_state : SUBSET Handlers]    \* the handlers with status "ok"

TypeOK ==
    /\ row \in [Events -> Row]
    /\ lock \in [Events -> Workers \cup {NULL}]
    /\ pc \in [Workers -> Busy \cup {"down", "poll", "sleep"}]
    /\ event \in [Workers -> Events \cup {NULL}]
    /\ known \in [Workers -> SUBSET Handlers]
    /\ nth \in [Workers -> Nat \ {0}]
    /\ good \in [Workers -> SUBSET Handlers]
    /\ bad \in [Workers -> SUBSET Handlers]
    /\ left \in [Workers -> 0 .. BatchSize]
    /\ effects \in [Events -> [Handlers -> Nat]]
    /\ faults \in 0 .. MaxFaults
    /\ \A w \in Workers : (pc[w] \in Busy) <=> (event[w] # NULL)

Init ==
    /\ row = [e \in Events |-> [status |-> "absent", retry_count |-> 0,
                                scheduled_at |-> 0, handler_state |-> {}]]
    /\ lock = [e \in Events |-> NULL]
    /\ pc = [w \in Workers |-> "down"]
    /\ event = [w \in Workers |-> NULL]
    /\ known = [w \in Workers |-> {}]
    /\ nth = [w \in Workers |-> 1]
    /\ good = [w \in Workers |-> {}]
    /\ bad = [w \in Workers |-> {}]
    /\ left = [w \in Workers |-> 0]
    /\ effects = [e \in Events |-> [h \in Handlers |-> 0]]
    /\ faults = 0

(***************************************************************************)
(* EventBus.publish and the commit of the transaction it is part of.       *)
(***************************************************************************)
Publish(e) ==
    /\ row[e].status = "absent"
    /\ row' = [row EXCEPT ![e] = [status |-> "PENDING", retry_count |-> 0,
                                  scheduled_at |-> 0, handler_state |-> {}]]
    /\ UNCHANGED <<lock, workerVars, effects, faults>>

(***************************************************************************)
(* The poll: one event per transaction, BatchSize times.                   *)
(***************************************************************************)
Drop(w, next) ==
    /\ pc' = [pc EXCEPT ![w] = next]
    /\ event' = [event EXCEPT ![w] = NULL]
    /\ known' = [known EXCEPT ![w] = {}]
    /\ nth' = [nth EXCEPT ![w] = 1]
    /\ good' = [good EXCEPT ![w] = {}]
    /\ bad' = [bad EXCEPT ![w] = {}]

StartPoll(w) ==
    /\ pc[w] \in {"down", "sleep"}
    /\ pc' = [pc EXCEPT ![w] = "poll"]
    /\ left' = [left EXCEPT ![w] = BatchSize]
    /\ UNCHANGED <<row, lock, event, known, nth, good, bad, effects, faults>>

Due(e) == row[e].status = "PENDING" /\ row[e].scheduled_at <= 0

\* Mutant: a plain SELECT, as when one SELECT took the whole batch.
SelectableUnlocked(e) == Due(e)

(* ORDER BY scheduled_at LIMIT 1 FOR UPDATE SKIP LOCKED *)
Selectable(e) == Due(e) /\ lock[e] = NULL

First(e) == \A d \in Events : Selectable(d) => row[e].scheduled_at <= row[d].scheduled_at

SelectEvent(w) ==
    /\ pc[w] = "poll"
    /\ left[w] > 0
    /\ \E e \in Events :
        /\ Selectable(e) /\ First(e)
        /\ lock' = [lock EXCEPT ![e] = w]
        /\ event' = [event EXCEPT ![w] = e]
        /\ known' = [known EXCEPT ![w] = row[e].handler_state]
    /\ pc' = [pc EXCEPT ![w] = "dispatch"]
    /\ left' = [left EXCEPT ![w] = @ - 1]
    /\ UNCHANGED <<row, nth, good, bad, effects, faults>>

EndPoll(w) ==
    /\ pc[w] = "poll"
    /\ left[w] = 0 \/ \A e \in Events : ~Selectable(e)
    /\ pc' = [pc EXCEPT ![w] = "sleep"]
    /\ left' = [left EXCEPT ![w] = 0]
    /\ UNCHANGED <<row, lock, event, known, nth, good, bad, effects, faults>>

(***************************************************************************)
(* EventDispatcher.dispatch: the handlers in order, each isolated, those   *)
(* of handler_state skipped.  A handler that fails or runs into wait_for   *)
(* may have done its work or not.                                          *)
(***************************************************************************)
\* Mutant: every handler runs again on a retry.
CompletedForgotten(w) == {}

Completed(w) == known[w]

Handler(w) == HandlersOf[event[w]][nth[w]]

TakeEffect(w) == effects' = [effects EXCEPT ![event[w]][Handler(w)] = @ + 1]

SkipHandler(w) ==
    /\ Handler(w) \in Completed(w)
    /\ good' = [good EXCEPT ![w] = @ \cup {Handler(w)}]
    /\ UNCHANGED <<bad, effects>>

HandlerSucceeds(w) ==
    /\ Handler(w) \notin Completed(w)
    /\ TakeEffect(w)
    /\ good' = [good EXCEPT ![w] = @ \cup {Handler(w)}]
    /\ UNCHANGED bad

HandlerFails(w) ==
    /\ Handler(w) \notin Completed(w)
    /\ TakeEffect(w) \/ UNCHANGED effects
    /\ bad' = [bad EXCEPT ![w] = @ \cup {Handler(w)}]
    /\ UNCHANGED good

RunHandler(w) ==
    /\ pc[w] = "dispatch"
    /\ nth[w] <= Len(HandlersOf[event[w]])
    /\ SkipHandler(w) \/ HandlerSucceeds(w) \/ HandlerFails(w)
    /\ nth' = [nth EXCEPT ![w] = @ + 1]
    /\ UNCHANGED <<row, lock, pc, event, known, left, faults>>

EndDispatch(w) ==
    /\ pc[w] = "dispatch"
    /\ nth[w] > Len(HandlersOf[event[w]])
    /\ pc' = [pc EXCEPT ![w] = "commit"]
    /\ UNCHANGED <<row, lock, event, known, nth, good, bad, left, effects, faults>>

(***************************************************************************)
(* The end of _handle_event and the commit.                                *)
(***************************************************************************)
\* Mutant: all([]) is True, an event without handlers is a success.
AllSucceededVacuously(w) == bad[w] = {}

AllSucceeded(w) == HandlersOf[event[w]] # <<>> /\ bad[w] = {}

Processed(w, r) ==
    [r EXCEPT !.status = "PROCESSED", !.handler_state = @ \cup good[w]]

\* Mutant: a failure is not counted.
RetriedUncounted(w, r) ==
    {[r EXCEPT !.handler_state = @ \cup good[w], !.scheduled_at = d] :
        d \in Backoff[r.retry_count + 1]}

Retried(w, r) ==
    {[r EXCEPT !.handler_state = @ \cup good[w],
               !.retry_count = @ + 1,
               !.scheduled_at = d] : d \in Backoff[r.retry_count + 1]}

GivenUp(w, r) ==
    [r EXCEPT !.handler_state = @ \cup good[w], !.retry_count = @ + 1, !.status = "FAILED"]

\* Mutant: max_retries is compared before the failure is counted.
OutcomesOffByOne(w, r) ==
    IF AllSucceeded(w) THEN {Processed(w, r)}
    ELSE IF r.retry_count >= MaxRetries THEN {GivenUp(w, r)}
    ELSE Retried(w, r)

Outcomes(w, r) ==
    IF AllSucceeded(w) THEN {Processed(w, r)}
    ELSE IF r.retry_count + 1 >= MaxRetries THEN {GivenUp(w, r)}
    ELSE Retried(w, r)

Record(w) ==
    LET e == event[w]
    IN  /\ \E r \in Outcomes(w, row[e]) : row' = [row EXCEPT ![e] = r]
        /\ lock' = [lock EXCEPT ![e] = NULL]

Commit(w) ==
    /\ pc[w] = "commit"
    /\ lock[event[w]] = w
    /\ Record(w)
    /\ Drop(w, "poll")
    /\ UNCHANGED <<left, effects, faults>>

Unlock(w) == [e \in Events |-> IF lock[e] = w THEN NULL ELSE lock[e]]

(***************************************************************************)
(* Failures.  A transaction that fails is rolled back, or was committed    *)
(* and the answer lost; the connection may break under a dispatch, which   *)
(* frees the row while the handlers go on; the process may die.            *)
(***************************************************************************)
Fault == faults < MaxFaults /\ faults' = faults + 1

CommitFails(w) ==
    /\ pc[w] = "commit"
    /\ \/ lock[event[w]] # w /\ UNCHANGED <<row, lock, faults>>
       \/ lock[event[w]] = w /\ lock' = Unlock(w) /\ UNCHANGED row /\ Fault
       \/ lock[event[w]] = w /\ Record(w) /\ Fault
    /\ Drop(w, "sleep")
    /\ left' = [left EXCEPT ![w] = 0]
    /\ UNCHANGED effects

ConnectionBreaks(w) ==
    /\ pc[w] \in Busy
    /\ lock[event[w]] = w
    /\ lock' = Unlock(w)
    /\ Fault
    /\ UNCHANGED <<row, workerVars, effects>>

GoDown(w) ==
    /\ pc[w] # "down"
    /\ lock' = Unlock(w)
    /\ Drop(w, "down")
    /\ left' = [left EXCEPT ![w] = 0]
    /\ Fault
    /\ UNCHANGED <<row, effects>>

Tick ==
    /\ row' = [e \in Events |->
                [row[e] EXCEPT !.scheduled_at =
                    IF row[e].status = "PENDING" /\ @ > -MaxOverdue THEN @ - 1 ELSE @]]
    /\ UNCHANGED <<lock, workerVars, effects, faults>>

LoopStep(w) ==
    \/ StartPoll(w)
    \/ SelectEvent(w)
    \/ EndPoll(w)
    \/ RunHandler(w)
    \/ EndDispatch(w)
    \/ Commit(w)
    \/ CommitFails(w)

Next ==
    \/ \E e \in Events : Publish(e)
    \/ \E w \in Workers : LoopStep(w) \/ ConnectionBreaks(w) \/ GoDown(w)
    \/ Tick

Spec == Init /\ [][Next]_vars

(***************************************************************************)
(* The loops run, processes restart, time passes.  Handlers may fail every *)
(* time they run, and nothing forces an event to be published.             *)
(***************************************************************************)
FairSpec ==
    /\ Spec
    /\ \A w \in Workers : WF_vars(LoopStep(w))
    /\ WF_vars(Tick)
-----------------------------------------------------------------------------
(***************************************************************************)
(* Properties                                                              *)
(***************************************************************************)

(***************************************************************************)
(* At least once: an event is PROCESSED only if the work of every handler  *)
(* written for it took effect, also when the dispatcher has none of them   *)
(* (dispatcher.py 28-32, events/worker.py 95-120).                         *)
(***************************************************************************)
ProcessedMeansHandled ==
    \A e \in Events : row[e].status = "PROCESSED" =>
        \A h \in Handlers : effects[e][h] > 0

(***************************************************************************)
(* Two workers dispatch one event at the same time only after a connection *)
(* broke under one of them (events/worker.py 71-93).                       *)
(***************************************************************************)
DispatchedAlone ==
    \A w, v \in Workers :
        (pc[w] \in Busy /\ pc[v] \in Busy /\ event[w] = event[v] /\ faults = 0)
            => w = v

(***************************************************************************)
(* A handler whose success is in handler_state does its work again only in *)
(* the hands of a worker that has lost its transaction (dispatcher.py      *)
(* 76-79, events/worker.py 96-115).                                        *)
(***************************************************************************)
CompletedIsSkipped ==
    [][\A e \in Events, h \in Handlers :
        (h \in row[e].handler_state /\ effects'[e][h] # effects[e][h])
            => \E w \in Workers : event[w] = e /\ lock[e] # w]_vars

(***************************************************************************)
(* A handler works for an event once, plus once at most for every recorded *)
(* failure of the event and every fault: with neither, exactly once        *)
(* (tests/integration/test_exactly_once.py).                               *)
(***************************************************************************)
RepeatsAccounted ==
    \A e \in Events, h \in Handlers :
        effects[e][h] <= 1 + row[e].retry_count + faults

(***************************************************************************)
(* Every published event is PROCESSED or given up as FAILED in the end,    *)
(* whatever its handlers do: a poison event does not hold up the others.   *)
(***************************************************************************)
EveryEventSettles ==
    \A e \in Events :
        row[e].status = "PENDING" ~> row[e].status \in {"PROCESSED", "FAILED"}
=============================================================================
