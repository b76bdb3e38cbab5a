------------------------------ MODULE JobWorker ------------------------------
(***************************************************************************)
(* The scheduler of recurrent jobs (core/jobs/worker.py): one row per job  *)
(* in scheduled_jobs, and one JobWorker loop in every process.  A worker   *)
(* recovers expired claims, lists the due jobs it has a handler for, and   *)
(* for each one claims the row, runs the handler with no transaction open, *)
(* and reschedules the row if the row still carries its worker id.         *)
(*                                                                         *)
(* Times are distances from the present: next_run_at = 0 is due now and a  *)
(* negative one is overdue, lease_until < 0 is expired.  Tick moves the    *)
(* present; the distances stop at FarPast and at -1, where nothing the     *)
(* code compares changes any more.  run_count, last_error and the other    *)
(* columns that no step reads are left out.                                *)
(***************************************************************************)
EXTENDS Integers, Sequences, FiniteSets

CONSTANTS
    Jobs,            \* the rows of scheduled_jobs
    Workers,         \* worker ids, hostname:pid
    Registered,      \* Registered[w]: the jobs with a handler in w's process
    Interval,        \* Interval[j]: interval_seconds of the row
    Lease,           \* JOB_LEASE_SECONDS
    HandlerTimeout,  \* JOB_HANDLER_TIMEOUT_SECONDS
    Slack,           \* how long the statements around a handler and its
                     \* cancellation may take on top of the timeout
    BatchSize,       \* BATCH_SIZE, the candidates of one poll
    MaxFaults,       \* bound: crashes and failed statements in one behaviour
    NULL

ASSUME JobWorkerAssumption ==
    /\ Lease \in Nat
    /\ HandlerTimeout \in Nat
    /\ Slack \in Nat
    /\ BatchSize \in Nat \ {0}
    /\ MaxFaults \in Nat
    /\ Interval \in [Jobs -> Nat]
    /\ Registered \in [Workers -> SUBSET Jobs]
    /\ NULL \notin Jobs \cup Workers \cup Int

(* The longest a worker lives between computing a lease and rescheduling. *)
Busy == HandlerTimeout + Slack

(* Overdue by more than any claim statement can be delayed. *)
FarPast == -(Busy + 1)

VARIABLES
    row,     \* row[j]: the row of job j
    pc,      \* pc[w]: the statement w is about to execute
    todo,    \* todo[w]: candidate_ids still to execute in this poll
    job,     \* job[w]: the job_id of _execute_job, or NULL
    age,     \* age[w]: time since w computed lease_until for job[w]
    faults   \* crashes and failed statements so far

vars == <<row, pc, todo, job, age, faults>>

InStatement == {"recover", "select", "claim", "reschedule"}
InJob == {"claim", "handle", "reschedule"}
Executing == {"handle", "reschedule"}

Columns ==
    [status : {"PENDING", "RUNNING"},
     next_run_at : Int,
     claimed_by : Workers \cup {NULL},
     lease_until : Int \cup {NULL}]

(* A claim and its lease come and go together, and a PENDING row has neither. *)
Row ==
    {r \in Columns :
        /\ r.claimed_by = NULL <=> r.lease_until = NULL
        /\ r.status = "PENDING" => r.claimed_by = NULL}

TypeOK ==
    /\ row \in [Jobs -> Row]
    /\ pc \in [Workers -> InStatement \cup {"down", "next", "handle", "sleep"}]
    /\ todo \in [Workers -> Seq(Jobs)]
    /\ job \in [Workers -> Jobs \cup {NULL}]
    /\ age \in [Workers -> 0 .. Busy]
    /\ faults \in 0 .. MaxFaults
    /\ \A w \in Workers : (pc[w] \in InJob) <=> (job[w] # NULL)

(***************************************************************************)
(* Migrations seed rows PENDING and due; a row may also be left RUNNING    *)
(* with no lease by a deploy, as the comment over _recover_stale_jobs says.*)
(***************************************************************************)
Init ==
    /\ row \in [Jobs -> {[status |-> s, next_run_at |-> 0,
                          claimed_by |-> NULL, lease_until |-> NULL] :
                         s \in {"PENDING", "RUNNING"}}]
    /\ pc = [w \in Workers |-> "down"]
    /\ todo = [w \in Workers |-> <<>>]
    /\ job = [w \in Workers |-> NULL]
    /\ age = [w \in Workers |-> 0]
    /\ faults = 0

(***************************************************************************)
(* The effect of each statement on the table.                              *)
(***************************************************************************)
\* Mutant: the claim of a freed row stays on it.
FreedKeepingClaim(r) == [r EXCEPT !.status = "PENDING", !.lease_until = NULL]

Freed(r) == [r EXCEPT !.status = "PENDING", !.claimed_by = NULL, !.lease_until = NULL]

\* Mutant: an instant early, lease_until <= now.
StaleOneEarly(r) == r.status = "RUNNING" /\ (r.lease_until = NULL \/ r.lease_until <= 0)

\* Mutant: only the rows without a lease.
StaleWithoutLease(r) == r.status = "RUNNING" /\ r.lease_until = NULL

Stale(r) ==
    /\ r.status = "RUNNING"
    /\ r.lease_until = NULL \/ r.lease_until < 0

Recovered == [j \in Jobs |-> IF Stale(row[j]) THEN Freed(row[j]) ELSE row[j]]

(* The instants of the WHERE clause and of the lease are those of BeginClaim. *)
\* Mutant: the claim does not test that the row is still PENDING.
ClaimableRunning(w, j) == row[j].next_run_at <= -age[w]

\* Mutant: the claim does not test that the row is still due.
ClaimableAgain(w, j) == row[j].status = "PENDING"

Claimable(w, j) == row[j].status = "PENDING" /\ row[j].next_run_at <= -age[w]

LeaseLeft(w) == IF age[w] <= Lease THEN Lease - age[w] ELSE -1

Claimed(w) ==
    LET j == job[w]
    IN  IF Claimable(w, j)
        THEN [row EXCEPT ![j] = [@ EXCEPT !.status = "RUNNING", !.claimed_by = w,
                                          !.lease_until = LeaseLeft(w)]]
        ELSE row

\* Mutant: WHERE id = job_id alone.
RescheduledUnfenced(w) ==
    [row EXCEPT ![job[w]] = [Freed(@) EXCEPT !.next_run_at = Interval[job[w]]]]

(* WHERE id = job_id AND claimed_by = self._worker_id *)
Rescheduled(w) ==
    LET j == job[w]
    IN  IF row[j].claimed_by = w
        THEN [row EXCEPT ![j] = [Freed(@) EXCEPT !.next_run_at = Interval[j]]]
        ELSE row

StatementEffect(w) ==
    CASE pc[w] = "recover" -> Recovered
      [] pc[w] = "select" -> row
      [] pc[w] = "claim" -> Claimed(w)
      [] pc[w] = "reschedule" -> Rescheduled(w)

(***************************************************************************)
(* The candidate list: due, handled here, longest overdue first, at most   *)
(* BatchSize.  Rows due at the same instant come in either order.          *)
(***************************************************************************)
Due(w) == {j \in Registered[w] : row[j].status = "PENDING" /\ row[j].next_run_at <= 0}

SmallerOf(m, n) == IF m <= n THEN m ELSE n

IsCandidateList(w, q) ==
    LET listed == {q[i] : i \in 1 .. Len(q)}
    IN  /\ listed \subseteq Due(w)
        /\ Len(q) = SmallerOf(BatchSize, Cardinality(Due(w)))
        /\ Cardinality(listed) = Len(q)
        /\ \A i \in 1 .. Len(q), k \in 1 .. Len(q) :
               i < k => row[q[i]].next_run_at <= row[q[k]].next_run_at
        /\ \A j \in Due(w) \ listed, i \in 1 .. Len(q) :
               row[q[i]].next_run_at <= row[j].next_run_at

CandidateLists(w) ==
    {q \in UNION {[1 .. n -> Due(w)] : n \in 0 .. BatchSize} : IsCandidateList(w, q)}

(***************************************************************************)
(* The worker.                                                             *)
(***************************************************************************)
LeaveJob(w, next) ==
    /\ pc' = [pc EXCEPT ![w] = next]
    /\ job' = [job EXCEPT ![w] = NULL]
    /\ age' = [age EXCEPT ![w] = 0]

Start(w) ==
    /\ pc[w] = "down"
    /\ pc' = [pc EXCEPT ![w] = "recover"]
    /\ UNCHANGED <<row, todo, job, age, faults>>

RecoverStaleJobs(w) ==
    /\ pc[w] = "recover"
    /\ row' = Recovered
    /\ pc' = [pc EXCEPT ![w] = "select"]
    /\ UNCHANGED <<todo, job, age, faults>>

SelectDueJobs(w) ==
    /\ pc[w] = "select"
    /\ \E q \in CandidateLists(w) : todo' = [todo EXCEPT ![w] = q]
    /\ pc' = [pc EXCEPT ![w] = "next"]
    /\ UNCHANGED <<row, job, age, faults>>

(* _execute_job starts: lease_until and the claim's WHERE are computed here. *)
BeginClaim(w) ==
    /\ pc[w] = "next"
    /\ todo[w] # <<>>
    /\ job' = [job EXCEPT ![w] = Head(todo[w])]
    /\ todo' = [todo EXCEPT ![w] = Tail(@)]
    /\ pc' = [pc EXCEPT ![w] = "claim"]
    /\ UNCHANGED <<row, age, faults>>

Claim(w) ==
    /\ pc[w] = "claim"
    /\ row' = Claimed(w)
    /\ IF Claimable(w, job[w])
       THEN pc' = [pc EXCEPT ![w] = "handle"] /\ UNCHANGED <<job, age>>
       ELSE LeaveJob(w, "next")
    /\ UNCHANGED <<todo, faults>>

(* The handler returned, raised, was cut by wait_for, or does not exist. *)
EndHandler(w) ==
    /\ pc[w] = "handle"
    /\ pc' = [pc EXCEPT ![w] = "reschedule"]
    /\ UNCHANGED <<row, todo, job, age, faults>>

Reschedule(w) ==
    /\ pc[w] = "reschedule"
    /\ row' = Rescheduled(w)
    /\ LeaveJob(w, "next")
    /\ UNCHANGED <<todo, faults>>

EndPoll(w) ==
    /\ pc[w] = "next"
    /\ todo[w] = <<>>
    /\ pc' = [pc EXCEPT ![w] = "sleep"]
    /\ UNCHANGED <<row, todo, job, age, faults>>

Wake(w) ==
    /\ pc[w] = "sleep"
    /\ pc' = [pc EXCEPT ![w] = "recover"]
    /\ UNCHANGED <<row, todo, job, age, faults>>

(***************************************************************************)
(* A statement that raises, executed by the database or not: the except of *)
(* _run logs it and the rest of the candidates wait for the next poll.     *)
(***************************************************************************)
StatementFails(w) ==
    /\ pc[w] \in InStatement
    /\ faults < MaxFaults
    /\ faults' = faults + 1
    /\ row' \in {row, StatementEffect(w)}
    /\ todo' = [todo EXCEPT ![w] = <<>>]
    /\ LeaveJob(w, "sleep")

(* The process dies, or stop() cancels the task, wherever it is. *)
GoDown(w) ==
    /\ pc[w] # "down"
    /\ faults < MaxFaults
    /\ faults' = faults + 1
    /\ todo' = [todo EXCEPT ![w] = <<>>]
    /\ LeaveJob(w, "down")
    /\ UNCHANGED row

(***************************************************************************)
(* Time passes; no worker stays longer than Busy inside one job, because   *)
(* wait_for cuts the handler.                                              *)
(***************************************************************************)
Older(r) ==
    [r EXCEPT
        !.next_run_at = IF @ > FarPast THEN @ - 1 ELSE @,
        !.lease_until = IF @ = NULL THEN @ ELSE IF @ >= 0 THEN @ - 1 ELSE @]

Tick ==
    /\ \A w \in Workers : pc[w] \in InJob => age[w] < Busy
    /\ row' = [j \in Jobs |-> Older(row[j])]
    /\ age' = [w \in Workers |-> IF pc[w] \in InJob THEN age[w] + 1 ELSE age[w]]
    /\ UNCHANGED <<pc, todo, job, faults>>

WorkerStep(w) ==
    \/ RecoverStaleJobs(w)
    \/ SelectDueJobs(w)
    \/ BeginClaim(w)
    \/ Claim(w)
    \/ EndHandler(w)
    \/ Reschedule(w)
    \/ EndPoll(w)
    \/ Wake(w)

Next ==
    \/ \E w \in Workers : Start(w) \/ WorkerStep(w) \/ StatementFails(w) \/ GoDown(w)
    \/ Tick

Spec == Init /\ [][Next]_vars

(***************************************************************************)
(* Every loop runs while its process lives, the container restarts         *)
(* (restart: unless-stopped), and time passes.  Faults are finite.         *)
(***************************************************************************)
FairSpec ==
    /\ Spec
    /\ \A w \in Workers : WF_vars(Start(w)) /\ WF_vars(WorkerStep(w))
    /\ WF_vars(Tick)
-----------------------------------------------------------------------------
(***************************************************************************)
(* Properties                                                              *)
(***************************************************************************)

(***************************************************************************)
(* Two workers run one job at the same time only if one of them has been   *)
(* at it for longer than its lease (worker.py 66-82, 107-130).             *)
(***************************************************************************)
AloneUnlessLate ==
    \A w, v \in Workers :
        (w # v /\ pc[w] \in Executing /\ pc[v] \in Executing /\ job[w] = job[v])
            => age[w] > Lease \/ age[v] > Lease

(***************************************************************************)
(* The induction behind it: a worker inside _execute_job is past its lease *)
(* or its row still carries its id and exactly the rest of its lease; and  *)
(* a PENDING row carries nobody's id.                                      *)
(***************************************************************************)
LeaseAccounted ==
    /\ \A w \in Workers : pc[w] \in Executing =>
        \/ age[w] > Lease
        \/ /\ row[job[w]].status = "RUNNING"
           /\ row[job[w]].claimed_by = w
           /\ row[job[w]].lease_until = Lease - age[w]
    /\ \A j \in Jobs : row[j].status = "PENDING" => row[j].claimed_by = NULL

(***************************************************************************)
(* Fencing: a claim ends only when its lease has expired (or is missing),  *)
(* or by the reschedule of the worker that holds it, however late any      *)
(* worker runs (worker.py 149-175).                                        *)
(***************************************************************************)
ClaimEndsByOwnerOrExpiry ==
    [][\A j \in Jobs :
        (row[j].status = "RUNNING" /\ row'[j].claimed_by # row[j].claimed_by)
            => \/ Stale(row[j]) /\ row'[j].next_run_at = row[j].next_run_at
               \/ \E w \in Workers :
                    /\ row[j].claimed_by = w
                    /\ pc[w] = "reschedule" /\ job[w] = j
                    /\ pc'[w] # "reschedule"]_vars

(***************************************************************************)
(* With the configuration the settings validate, a lease of two handler    *)
(* timeouts, and statements no slower than one more timeout, a job never   *)
(* runs twice at the same time (config.py 132-138).                        *)
(***************************************************************************)
OneRunAtATime ==
    \A w, v \in Workers :
        (pc[w] \in Executing /\ pc[v] \in Executing /\ job[w] = job[v]) => w = v

(***************************************************************************)
(* Every job some process handles is run for ever: no crash, failed        *)
(* statement, lost reply or lost lease leaves its row RUNNING for good.    *)
(***************************************************************************)
JobsKeepRunning ==
    \A j \in UNION {Registered[w] : w \in Workers} :
        []<>(\E w \in Workers : pc[w] = "handle" /\ job[w] = j)

(***************************************************************************)
(* The rows and the loops implement LeasedTask: a claim that comes late,   *)
(* by a worker that listed the job before another one ran it, takes        *)
(* neither a row that is held nor one that has just been done.             *)
(***************************************************************************)
LeaseTable == INSTANCE LeasedTask WITH
    Tasks <- Jobs,
    Owners <- Workers,
    Paced <- {j \in Jobs : Interval[j] > 0},
    owner <- [j \in Jobs |-> row[j].claimed_by],
    working <- [w \in Workers |-> IF pc[w] \in Executing THEN job[w] ELSE NULL],
    late <- {w \in Workers : pc[w] \in Executing /\ age[w] > Lease},
    resting <- {j \in Jobs : row[j].next_run_at > 0}

ImplementsLeasedTask == LeaseTable!Spec
=============================================================================
