------------------------------ MODULE Delivery ------------------------------
(***************************************************************************)
(* notifications_deliver and the orders of the operator (notifications/    *)
(* use_cases/deliver.py, manage.py, repos/delivery.py).  A run claims      *)
(* subscriptions in one transaction, sends with none open, and records     *)
(* every outcome in another; match_notifications inserts deliveries and    *)
(* the operator pauses, resumes and removes subscriptions meanwhile.       *)
(* JobWorkerProofs!ValidatedLeaseExcludes is why there is one run at a     *)
(* time.                                                                   *)
(*                                                                         *)
(* Times are distances: retry_in is what is left until retry_at, last_sent *)
(* and failing what has passed since last_sent_at and failing_since; they  *)
(* stop at 0 and at Horizon, where no comparison changes any more.  Among  *)
(* subscriptions at the Horizon the order by last_sent_at is left open,    *)
(* and so is which settled deliveries are old enough for the purge.        *)
(***************************************************************************)
EXTENDS Integers, Sequences, FiniteSets

CONSTANTS
    Subscriptions,
    Deliveries,       \* the rows match_notifications may insert
    SubscriptionOf,   \* SubscriptionOf[d]: subscription_id
    MinInterval,      \* NOTIFICATIONS_MIN_INTERVAL_SECONDS
    PauseAfter,       \* NOTIFICATIONS_PAUSE_AFTER_SECONDS
    Ceiling,          \* failures from which backoff(n) stays the same
    Backoff,          \* Backoff[n]: backoff(n), n up to Ceiling
    Limit,            \* _MAX_SUBSCRIPTIONS_PER_RUN
    MaxFaults,        \* bound: aborted runs, lost answers and failed records
    MaxOrders,        \* bound: orders of the operator
    NULL

ASSUME DeliveryAssumption ==
    /\ IsFiniteSet(Subscriptions)
    /\ SubscriptionOf \in [Deliveries -> Subscriptions]
    /\ MinInterval \in Nat
    /\ PauseAfter \in Nat
    /\ Ceiling \in Nat
    /\ Backoff \in [0 .. Ceiling -> Nat]
    /\ Limit \in Nat \ {0}
    /\ MaxFaults \in Nat
    /\ MaxOrders \in Nat
    /\ NULL \notin Int \cup Subscriptions \cup {"sent", "failed", "skipped"}

VARIABLES
    sub,       \* sub[s]: the row of subscriptions
    delivery,  \* delivery[d]: the status of the row, "matched" while the
               \* transaction that will insert it is open
    pc,        \* where the run is
    queue,     \* the claimed subscriptions still to send
    claims,    \* claims[s]: the deliveries claimed with s, {} if s is not
    outcome,   \* outcome[s]: of the message of s, or NULL
    loaded,    \* loaded[s]: what mark_failed read of s, or NULL
    received,  \* received[d]: messages with d that reached the receiver
    quiet,     \* history: time since a message reached the receiver of s
    faults,    \* aborted runs, lost answers and failed records so far
    orders     \* orders of the operator so far

runVars == <<pc, queue, claims, outcome, loaded>>
vars == <<sub, delivery, runVars, received, quiet, faults, orders>>

Lesser(m, n) == IF m <= n THEN m ELSE n

Horizon == IF MinInterval >= PauseAfter THEN MinInterval ELSE PauseAfter

Row == [status : {"absent", "active", "paused", "removed"},
        retry_in : Nat,
        last_sent : (0 .. Horizon) \cup {NULL},
        consecutive_failures : 0 .. Ceiling,
        failing : (0 .. Horizon) \cup {NULL}]

TypeOK ==
    /\ sub \in [Subscriptions -> Row]
    /\ delivery \in [Deliveries ->
            {"absent", "matched", "pending", "sent", "failed", "gone"}]
    /\ pc \in {"idle", "send", "record"}
    /\ queue \in Seq(Subscriptions)
    /\ claims \in [Subscriptions -> SUBSET Deliveries]
    /\ outcome \in [Subscriptions -> {"sent", "failed", "skipped", NULL}]
    /\ loaded \in [Subscriptions -> Row \cup {NULL}]
    /\ received \in [Deliveries -> Nat]
    /\ quiet \in [Subscriptions -> 0 .. Horizon]
    /\ faults \in 0 .. MaxFaults
    /\ orders \in 0 .. MaxOrders
    /\ \A s \in Subscriptions :
        /\ outcome[s] # NULL => claims[s] # {}
        /\ sub[s].status \in {"absent", "removed"} =>
               \A d \in Deliveries : SubscriptionOf[d] = s => delivery[d] # "pending"

Fresh == [status |-> "active", retry_in |-> 0, last_sent |-> NULL,
          consecutive_failures |-> 0, failing |-> NULL]

Nobody(x) == [s \in Subscriptions |-> x]

Init ==
    /\ sub = [s \in Subscriptions |-> [Fresh EXCEPT !.status = "absent"]]
    /\ delivery = [d \in Deliveries |-> "absent"]
    /\ pc = "idle"
    /\ queue = <<>>
    /\ claims = Nobody({})
    /\ outcome = Nobody(NULL)
    /\ loaded = Nobody(NULL)
    /\ received = [d \in Deliveries |-> 0]
    /\ quiet = Nobody(Horizon)
    /\ faults = 0
    /\ orders = 0

Pending(s) == {d \in Deliveries : SubscriptionOf[d] = s /\ delivery[d] = "pending"}

Fault == faults < MaxFaults /\ faults' = faults + 1
Order == orders < MaxOrders /\ orders' = orders + 1

(***************************************************************************)
(* match_notifications: the SELECT that finds s active, and the INSERT and *)
(* commit later in its transaction; it may be rolled back and retried.     *)
(***************************************************************************)
Match(d) ==
    /\ delivery[d] = "absent"
    /\ sub[SubscriptionOf[d]].status = "active"
    /\ delivery' = [delivery EXCEPT ![d] = "matched"]
    /\ UNCHANGED <<sub, runVars, received, quiet, faults, orders>>

\* Mutant: no foreign key to the subscription.
InsertableAlways(d) == TRUE

Insertable(d) == sub[SubscriptionOf[d]].status # "removed"

AddDelivery(d) ==
    /\ delivery[d] = "matched"
    /\ \/ /\ Insertable(d)
          /\ delivery' = [delivery EXCEPT ![d] = "pending"]
       \/ delivery' = [delivery EXCEPT ![d] = "absent"]
    /\ UNCHANGED <<sub, runVars, received, quiet, faults, orders>>

(***************************************************************************)
(* The orders of the operator.                                             *)
(***************************************************************************)
Add(s) ==
    /\ sub[s].status = "absent"
    /\ sub' = [sub EXCEPT ![s] = Fresh]
    /\ UNCHANGED <<delivery, runVars, received, quiet, faults, orders>>

FailPending(ss) ==
    [d \in Deliveries |-> IF \E s \in ss : d \in Pending(s) THEN "failed" ELSE delivery[d]]

Pause(s) ==
    /\ sub[s].status \in {"active", "paused"}
    /\ sub' = [sub EXCEPT ![s].status = "paused"]
    /\ delivery' = FailPending({s})
    /\ Order
    /\ UNCHANGED <<runVars, received, quiet, faults>>

\* Mutant: resume starts the subscription afresh.
ResumedAfresh(r) == Fresh

Resumed(r) == [Fresh EXCEPT !.last_sent = r.last_sent]

Resume(s) ==
    /\ sub[s].status \in {"active", "paused"}
    /\ sub' = [sub EXCEPT ![s] = Resumed(@)]
    /\ Order
    /\ UNCHANGED <<delivery, runVars, received, quiet, faults>>

(* The deliveries go with the subscription. *)
Remove(s) ==
    /\ sub[s].status \in {"active", "paused"}
    /\ sub' = [sub EXCEPT ![s].status = "removed"]
    /\ delivery' = [d \in Deliveries |->
            IF SubscriptionOf[d] = s /\ delivery[d] \in {"pending", "sent", "failed"}
            THEN "gone" ELSE delivery[d]]
    /\ Order
    /\ UNCHANGED <<runVars, received, quiet, faults>>

(***************************************************************************)
(* The claim.                                                              *)
(***************************************************************************)
\* Mutant: what was sent is claimed again.
ClaimedDeliveriesAll(s) ==
    {d \in Deliveries : SubscriptionOf[d] = s /\ delivery[d] \in {"pending", "sent"}}

ClaimedDeliveries(s) == Pending(s)

Claimable ==
    {s \in Subscriptions :
        /\ sub[s].status = "active"
        /\ sub[s].retry_in = 0
        /\ sub[s].last_sent \in {NULL} \cup MinInterval .. Horizon
        /\ Pending(s) # {}}

NeverSent == {s \in Subscriptions : sub[s].last_sent = NULL}

(* ORDER BY last_sent_at NULLS FIRST LIMIT *)
ClaimLists ==
    {q \in UNION {[1 .. n -> Claimable] : n \in 0 .. Cardinality(Claimable)} :
        /\ Len(q) = Lesser(Limit, Cardinality(Claimable))
        /\ \A i, k \in DOMAIN q : i < k =>
            q[i] # q[k] /\ (q[k] \in NeverSent => q[i] \in NeverSent)
        /\ \A s \in Claimable : (\A i \in DOMAIN q : q[i] # s) =>
            (s \in NeverSent => \A i \in DOMAIN q : q[i] \in NeverSent)}

Claim ==
    /\ pc = "idle"
    /\ \E q \in ClaimLists :
        LET claimed == {q[i] : i \in DOMAIN q}
        IN  /\ queue' = q
            /\ claims' = [s \in Subscriptions |->
                    IF s \in claimed THEN ClaimedDeliveries(s) ELSE {}]
            /\ sub' = [s \in Subscriptions |->
                    IF s \in claimed
                    THEN [sub[s] EXCEPT !.retry_in = Backoff[sub[s].consecutive_failures]]
                    ELSE sub[s]]
    /\ pc' = "send"
    /\ UNCHANGED <<delivery, outcome, loaded, received, quiet, faults, orders>>

(***************************************************************************)
(* _send_all, one claim at a time.  The first is always tried; the others  *)
(* may find the budget spent.  A send that fails may have arrived.         *)
(***************************************************************************)
Arrives(s) ==
    /\ received' = [d \in Deliveries |->
            IF d \in claims[s] THEN received[d] + 1 ELSE received[d]]
    /\ quiet' = [quiet EXCEPT ![s] = 0]

SendEnds(result) ==
    /\ queue # <<>>
    /\ pc = "send"
    /\ queue' = Tail(queue)
    /\ outcome' = [outcome EXCEPT ![Head(queue)] = result]
    /\ UNCHANGED <<sub, delivery, pc, claims, loaded, orders>>

Send == SendEnds("sent") /\ Arrives(Head(queue)) /\ UNCHANGED faults

SendFails ==
    /\ SendEnds("failed")
    /\ \/ UNCHANGED <<received, quiet, faults>>
       \/ Arrives(Head(queue)) /\ Fault

SendSkipped ==
    /\ \E s \in Subscriptions : outcome[s] # NULL
    /\ SendEnds("skipped")
    /\ UNCHANGED <<received, quiet, faults>>

(***************************************************************************)
(* The last transaction: mark_failed reads its subscriptions, and writes   *)
(* what it makes of them later in the transaction.  It takes less than the *)
(* unit of time.                                                           *)
(***************************************************************************)
BeginRecord ==
    /\ pc = "send"
    /\ queue = <<>>
    /\ loaded' = [s \in Subscriptions |->
            IF outcome[s] = "failed" /\ sub[s].status # "removed" THEN sub[s] ELSE NULL]
    /\ pc' = "record"
    /\ UNCHANGED <<sub, delivery, queue, claims, outcome, received, quiet, faults, orders>>

\* Mutant: a success does not end the streak of failures.
MarkedSentFailing(r) == [r EXCEPT !.retry_in = 0, !.last_sent = 0, !.consecutive_failures = 0]

MarkedSent(r) ==
    [r EXCEPT !.retry_in = 0, !.last_sent = 0, !.consecutive_failures = 0, !.failing = NULL]

\* Mutant: failing_since moves with every failure.
FailingSinceNow(r) == 0

FailingSince(r) == IF r.failing = NULL THEN 0 ELSE r.failing

GivesUp(r) == FailingSince(r) >= PauseAfter

(* Only the columns that change are written: failing_since once a streak. *)
MarkedFailed(r, read) ==
    [r EXCEPT
        !.consecutive_failures = Lesser(read.consecutive_failures + 1, Ceiling),
        !.failing = IF read.failing = FailingSince(read) THEN @ ELSE FailingSince(read),
        !.status = IF GivesUp(read) /\ read.status # "paused" THEN "paused" ELSE @]

Recorded(s) ==
    IF sub[s].status = "removed" THEN sub[s]
    ELSE CASE outcome[s] = "sent" -> MarkedSent(sub[s])
           [] outcome[s] = "failed" /\ loaded[s] # NULL -> MarkedFailed(sub[s], loaded[s])
           [] outcome[s] = "skipped" -> [sub[s] EXCEPT !.retry_in = 0]
           [] OTHER -> sub[s]

GivenUp == {s \in Subscriptions : loaded[s] # NULL /\ GivesUp(loaded[s])}

\* Mutant: everything pending is marked, also what came during the send.
MarkedDeliveriesAll(s) == claims[s] \cup Pending(s)

MarkedDeliveries(s) == claims[s]

SentNow ==
    {d \in Deliveries :
        /\ outcome[SubscriptionOf[d]] = "sent"
        /\ d \in MarkedDeliveries(SubscriptionOf[d])
        /\ delivery[d] # "gone"}

RecordedDeliveries ==
    [d \in Deliveries |-> IF d \in SentNow THEN "sent" ELSE FailPending(GivenUp)[d]]

LeaveRun ==
    /\ pc' = "idle"
    /\ queue' = <<>>
    /\ claims' = Nobody({})
    /\ outcome' = Nobody(NULL)
    /\ loaded' = Nobody(NULL)

(* An UPDATE of a subscription that is gone by then aborts the whole of it. *)
RowsMissing == \E s \in Subscriptions : loaded[s] # NULL /\ sub[s].status = "removed"

Record ==
    /\ pc = "record"
    /\ ~ RowsMissing
    /\ sub' = [s \in Subscriptions |-> Recorded(s)]
    /\ \E purged \in SUBSET {d \in Deliveries : RecordedDeliveries[d] \in {"sent", "failed"}} :
        delivery' = [d \in Deliveries |->
            IF d \in purged THEN "gone" ELSE RecordedDeliveries[d]]
    /\ LeaveRun
    /\ UNCHANGED <<received, quiet, faults, orders>>

(***************************************************************************)
(* The record that cannot be, and a run cut by a crash, a timeout, a       *)
(* deadlock or any other error, wherever it is: nothing is recorded.       *)
(***************************************************************************)
RecordFails ==
    /\ pc = "record"
    /\ RowsMissing
    /\ LeaveRun
    /\ UNCHANGED <<sub, delivery, received, quiet, faults, orders>>

Abort ==
    /\ pc # "idle"
    /\ Fault
    /\ LeaveRun
    /\ UNCHANGED <<sub, delivery, received, quiet, orders>>

Aged(x) == IF x = NULL THEN NULL ELSE Lesser(x + 1, Horizon)

Tick ==
    /\ pc # "record"
    /\ sub' = [s \in Subscriptions |->
            [sub[s] EXCEPT !.retry_in = IF @ > 0 THEN @ - 1 ELSE 0,
                           !.last_sent = Aged(@), !.failing = Aged(@)]]
    /\ quiet' = [s \in Subscriptions |-> Aged(quiet[s])]
    /\ UNCHANGED <<delivery, runVars, received, faults, orders>>

RunStep ==
    \/ Claim
    \/ Send \/ SendFails \/ SendSkipped
    \/ BeginRecord \/ Record \/ RecordFails

Next ==
    \/ \E d \in Deliveries : Match(d) \/ AddDelivery(d)
    \/ \E s \in Subscriptions : Add(s) \/ Pause(s) \/ Resume(s) \/ Remove(s)
    \/ RunStep
    \/ Abort
    \/ Tick

Spec == Init /\ [][Next]_vars

(***************************************************************************)
(* The job runs again and again (JobWorker!JobsKeepRunning), and time      *)
(* passes: strongly, because no transaction can hold it back for ever.     *)
(***************************************************************************)
FairSpec == Spec /\ WF_vars(RunStep) /\ SF_vars(Tick)
-----------------------------------------------------------------------------
(***************************************************************************)
(* Properties                                                              *)
(***************************************************************************)

(***************************************************************************)
(* A delivery is marked sent only if a message with it has arrived, also   *)
(* when it was inserted while the message was on its way (deliver.py       *)
(* 124-151, delivery.py 135-158).                                          *)
(***************************************************************************)
SentWasReceived ==
    \A d \in Deliveries : delivery[d] = "sent" => received[d] > 0

(***************************************************************************)
(* A delivery is repeated once at most for every aborted run, every answer *)
(* that was lost and every record that a removal undid; pausing and        *)
(* resuming in the middle of a run repeat nothing (deliver.py 47-57).      *)
(***************************************************************************)
Disturbances ==
    faults + Cardinality({s \in Subscriptions : sub[s].status = "removed"})

RepeatsAccounted ==
    \A d \in Deliveries : received[d] <= 1 + Disturbances

(***************************************************************************)
(* Messages to one subscription are MinInterval apart, whenever it is      *)
(* paused and resumed, unless a record failed or an answer was lost        *)
(* (ADR-0021).                                                             *)
(***************************************************************************)
MessagesApart ==
    [][\A s \in Subscriptions :
        (\E d \in claims[s] : received'[d] # received[d]) /\ Disturbances' = 0
            => quiet[s] >= MinInterval]_vars

(***************************************************************************)
(* A run pauses a subscription only when no message to it has been         *)
(* recorded as sent for PauseAfter (delivery.py 160-179).                  *)
(***************************************************************************)
PausedAfterSilence ==
    [][\A s \in Subscriptions :
        (pc = "record" /\ pc' = "idle" /\ sub[s].status = "active" /\ sub'[s].status = "paused")
            => sub[s].last_sent = NULL \/ sub[s].last_sent >= PauseAfter]_vars

(***************************************************************************)
(* Nothing stays pending for ever in an active subscription: it is sent,   *)
(* or the subscription is paused and it is failed.                         *)
(***************************************************************************)
PendingSettles ==
    \A d \in Deliveries :
        delivery[d] = "pending" ~>
            (delivery[d] # "pending" \/ sub[SubscriptionOf[d]].status = "paused")

(***************************************************************************)
(* "Lo pendiente caduca: un resume no debe mandar avisos rancios"          *)
(* (manage.py 126): a resume finds nothing pending from before the pause.  *)
(***************************************************************************)
ResumeFindsNothingPending ==
    [][\A s \in Subscriptions :
        (sub[s].status = "paused" /\ sub'[s].status = "active") => Pending(s) = {}]_vars
=============================================================================
