--------------------------- MODULE JobWorkerProofs ---------------------------
(***************************************************************************)
(* The theorems about JobWorker, for any set of jobs and workers, any      *)
(* lease, timeout and slack, and any number of faults.                     *)
(***************************************************************************)
EXTENDS JobWorker, TLAPS

-----------------------------------------------------------------------------
(* Types.                                                                  *)

LEMMA BusyType == Busy \in Nat /\ Lease \in Nat /\ FarPast \in Int
BY JobWorkerAssumption DEF Busy, FarPast

LEMMA FreedType == \A r \in Row : Freed(r) \in Row
BY DEF Freed, Row, Columns

(* A freed row is nobody's and due when it was; it differs in nothing else. *)
LEMMA FreedFacts ==
    ASSUME NEW r \in Row
    PROVE  /\ Freed(r).status = "PENDING"
           /\ Freed(r).claimed_by = NULL
           /\ Freed(r).next_run_at = r.next_run_at
BY DEF Freed, Row, Columns

LEMMA RecoveredType == TypeOK => Recovered \in [Jobs -> Row]
BY FreedType DEF TypeOK, Recovered

LEMMA ClaimedType ==
    ASSUME TypeOK, NEW w \in Workers, job[w] \in Jobs
    PROVE  Claimed(w) \in [Jobs -> Row]
<1>1. LeaseLeft(w) \in Int
  BY BusyType DEF LeaseLeft, TypeOK
<1>a. row[job[w]] \in Row
  BY DEF TypeOK
<1>2. [row[job[w]] EXCEPT !.status = "RUNNING", !.claimed_by = w,
                          !.lease_until = LeaseLeft(w)] \in Row
  <2>1. w # NULL /\ LeaseLeft(w) # NULL
    BY <1>1, JobWorkerAssumption
  <2> QED
    BY <1>1, <1>a, <2>1 DEF Row, Columns
<1> QED
  BY <1>2 DEF Claimed, TypeOK

LEMMA RescheduledType ==
    ASSUME TypeOK, NEW w \in Workers, job[w] \in Jobs
    PROVE  Rescheduled(w) \in [Jobs -> Row]
<1>1. Freed(row[job[w]]) \in Row
  BY FreedType DEF TypeOK
<1>2. [Freed(row[job[w]]) EXCEPT !.next_run_at = Interval[job[w]]] \in Row
  BY <1>1, JobWorkerAssumption DEF Row, Columns
<1> QED
  BY <1>2 DEF Rescheduled, TypeOK

LEMMA OlderType == \A r \in Row : Older(r) \in Row
<1> SUFFICES ASSUME NEW r \in Row PROVE Older(r) \in Row
  OBVIOUS
<1>1. (IF r.next_run_at > FarPast THEN r.next_run_at - 1 ELSE r.next_run_at) \in Int
  BY BusyType DEF Row, Columns
<1>2. (IF r.lease_until = NULL THEN r.lease_until
       ELSE IF r.lease_until >= 0 THEN r.lease_until - 1 ELSE r.lease_until) \in Int \cup {NULL}
  BY DEF Row, Columns
<1>3. r.lease_until = NULL <=>
        (IF r.lease_until = NULL THEN r.lease_until
         ELSE IF r.lease_until >= 0 THEN r.lease_until - 1 ELSE r.lease_until) = NULL
  <2>1. ASSUME r.lease_until \in Int
        PROVE  r.lease_until - 1 # NULL /\ r.lease_until # NULL
    <3>1. r.lease_until - 1 \in Int
      BY <2>1
    <3> QED
      BY <2>1, <3>1, JobWorkerAssumption
  <2> QED
    BY <2>1 DEF Row, Columns
<1> QED
  BY <1>1, <1>2, <1>3 DEF Older, Row, Columns

LEMMA CandidateType ==
    ASSUME NEW w \in Workers, NEW q \in CandidateLists(w)
    PROVE  q \in Seq(Jobs)
<1>1. PICK n \in 0 .. BatchSize : q \in [1 .. n -> Due(w)]
  BY DEF CandidateLists
<1>2. Due(w) \subseteq Jobs
  BY JobWorkerAssumption DEF Due
<1>3. n \in Nat
  BY <1>1, JobWorkerAssumption
<1>4. q \in [1 .. n -> Jobs]
  BY <1>1, <1>2
<1> QED
  BY <1>3, <1>4

LEMMA LeaveJobType ==
    ASSUME TypeOK, NEW w \in Workers, NEW p \in {"next", "sleep", "down"}, LeaveJob(w, p)
    PROVE  /\ pc' \in [Workers -> InStatement \cup {"down", "next", "handle", "sleep"}]
           /\ job' \in [Workers -> Jobs \cup {NULL}]
           /\ age' \in [Workers -> 0 .. Busy]
           /\ \A v \in Workers : (pc'[v] \in InJob) <=> (job'[v] # NULL)
BY BusyType DEF TypeOK, LeaveJob, InJob, InStatement

LEMMA InitType == Init => TypeOK
<1> SUFFICES ASSUME Init PROVE TypeOK
  OBVIOUS
<1>1. row \in [Jobs -> Row]
  BY DEF Init, Row, Columns
<1>2. \A w \in Workers : todo[w] \in Seq(Jobs)
  BY DEF Init
<1> QED
  BY <1>1, <1>2, BusyType, JobWorkerAssumption DEF Init, TypeOK, InStatement, InJob

(* One step per action; a statement that fails has the effect of the one that
   succeeds, or none. *)
LEMMA NextType == TypeOK /\ [Next]_vars => TypeOK'
<1> SUFFICES ASSUME TypeOK, [Next]_vars PROVE TypeOK'
  OBVIOUS
<1> USE DEF InStatement, InJob
<1>1. ASSUME NEW w \in Workers, Start(w) PROVE TypeOK'
  BY <1>1 DEF Start, TypeOK
<1>2. ASSUME NEW w \in Workers, RecoverStaleJobs(w) PROVE TypeOK'
  BY <1>2, RecoveredType DEF RecoverStaleJobs, TypeOK
<1>3. ASSUME NEW w \in Workers, SelectDueJobs(w) PROVE TypeOK'
  <2>1. todo' \in [Workers -> Seq(Jobs)]
    BY <1>3, CandidateType DEF SelectDueJobs, TypeOK
  <2> QED
    BY <1>3, <2>1 DEF SelectDueJobs, TypeOK
<1>4. ASSUME NEW w \in Workers, BeginClaim(w) PROVE TypeOK'
  <2>1. todo[w] \in Seq(Jobs) /\ todo[w] # <<>>
    BY <1>4 DEF BeginClaim, TypeOK
  <2>2. Head(todo[w]) \in Jobs /\ Tail(todo[w]) \in Seq(Jobs)
    BY <2>1
  <2>3. Head(todo[w]) # NULL
    BY <2>2, JobWorkerAssumption
  <2> QED
    BY <1>4, <2>2, <2>3 DEF BeginClaim, TypeOK
<1>5. ASSUME NEW w \in Workers, Claim(w) PROVE TypeOK'
  <2>1. job[w] \in Jobs
    BY <1>5 DEF Claim, TypeOK
  <2>2. row' \in [Jobs -> Row]
    BY <1>5, <2>1, ClaimedType DEF Claim
  <2>3. CASE Claimable(w, job[w])
    BY <1>5, <2>2, <2>3 DEF Claim, TypeOK
  <2>4. CASE ~Claimable(w, job[w])
    <3>1. LeaveJob(w, "next")
      BY <1>5, <2>4 DEF Claim
    <3> QED
      BY <1>5, <2>2, <3>1, LeaveJobType DEF Claim, TypeOK
  <2> QED
    BY <2>3, <2>4
<1>6. ASSUME NEW w \in Workers, EndHandler(w) PROVE TypeOK'
  BY <1>6 DEF EndHandler, TypeOK
<1>7. ASSUME NEW w \in Workers, Reschedule(w) PROVE TypeOK'
  <2>1. job[w] \in Jobs
    BY <1>7 DEF Reschedule, TypeOK
  <2>2. row' \in [Jobs -> Row]
    BY <1>7, <2>1, RescheduledType DEF Reschedule
  <2> QED
    BY <1>7, <2>2, LeaveJobType DEF Reschedule, TypeOK
<1>8. ASSUME NEW w \in Workers, EndPoll(w) \/ Wake(w) PROVE TypeOK'
  BY <1>8 DEF EndPoll, Wake, TypeOK
<1>9. ASSUME NEW w \in Workers, StatementFails(w) PROVE TypeOK'
  <2>1. StatementEffect(w) \in [Jobs -> Row]
    <3>1. pc[w] \in {"claim", "reschedule"} => job[w] \in Jobs
      BY DEF TypeOK
    <3>2. row \in [Jobs -> Row]
      BY DEF TypeOK
    <3>3. pc[w] \in InStatement
      BY <1>9 DEF StatementFails
    <3> QED
      BY <3>1, <3>2, <3>3, RecoveredType, ClaimedType, RescheduledType DEF StatementEffect
  <2>2. row' \in [Jobs -> Row]
    BY <1>9, <2>1 DEF StatementFails, TypeOK
  <2>3. faults' \in 0 .. MaxFaults
    BY <1>9, JobWorkerAssumption DEF StatementFails, TypeOK
  <2>4. todo' \in [Workers -> Seq(Jobs)]
    BY <1>9 DEF StatementFails, TypeOK
  <2> QED
    BY <1>9, <2>2, <2>3, <2>4, LeaveJobType DEF StatementFails, TypeOK
<1>10. ASSUME NEW w \in Workers, GoDown(w) PROVE TypeOK'
  <2>1. faults' \in 0 .. MaxFaults
    BY <1>10, JobWorkerAssumption DEF GoDown, TypeOK
  <2>2. todo' \in [Workers -> Seq(Jobs)]
    BY <1>10 DEF GoDown, TypeOK
  <2> QED
    BY <1>10, <2>1, <2>2, LeaveJobType DEF GoDown, TypeOK
<1>11. ASSUME Tick PROVE TypeOK'
  <2>1. row' \in [Jobs -> Row]
    BY <1>11, OlderType DEF Tick, TypeOK
  <2>2. age' \in [Workers -> 0 .. Busy]
    BY <1>11, BusyType DEF Tick, TypeOK
  <2> QED
    BY <1>11, <2>1, <2>2 DEF Tick, TypeOK
<1>12. CASE UNCHANGED vars
  BY <1>12 DEF vars, TypeOK
<1> QED
  BY <1>1, <1>2, <1>3, <1>4, <1>5, <1>6, <1>7, <1>8, <1>9, <1>10, <1>11, <1>12
  DEF Next, WorkerStep

(***************************************************************************)
(* The rows and the loops keep their types in every reachable state.       *)
(***************************************************************************)
THEOREM TypeCorrect == Spec => []TypeOK
BY InitType, NextType, PTL DEF Spec

-----------------------------------------------------------------------------
(* Leases.                                                                 *)

LEMMA InitLease == Init => LeaseAccounted
BY DEF Init, LeaseAccounted, Executing

(* What a claim and a recovery do to the row of another worker's execution:
   nothing, unless that worker is past its lease. *)
LEMMA NextLease == TypeOK /\ LeaseAccounted /\ [Next]_vars => LeaseAccounted'
<1> SUFFICES ASSUME TypeOK, LeaseAccounted, [Next]_vars PROVE LeaseAccounted'
  OBVIOUS
<1> USE DEF InStatement, InJob, Executing
<1>1. ASSUME row' = row,
             \A v \in Workers : pc'[v] \in Executing =>
                 pc[v] \in Executing /\ job'[v] = job[v] /\ age'[v] = age[v]
      PROVE  LeaseAccounted'
  BY <1>1 DEF LeaseAccounted
<1>2. ASSUME row' = Recovered,
             \A v \in Workers : pc'[v] \in Executing =>
                 pc[v] \in Executing /\ job'[v] = job[v] /\ age'[v] = age[v]
      PROVE  LeaseAccounted'
  <2>1. ASSUME NEW j \in Jobs
        PROVE  \/ row'[j] = row[j]
               \/ /\ row'[j].status = "PENDING" /\ row'[j].claimed_by = NULL
                  /\ row[j].lease_until = NULL \/ row[j].lease_until < 0
    <3>1. row'[j] = (IF Stale(row[j]) THEN Freed(row[j]) ELSE row[j]) /\ row[j] \in Row
      BY <1>2 DEF Recovered, TypeOK
    <3> QED
      BY <3>1, FreedFacts DEF Stale
  <2>2. ASSUME NEW v \in Workers, pc'[v] \in Executing, age'[v] <= Lease
        PROVE  row'[job'[v]] = row[job[v]]
    <3>1. pc[v] \in Executing /\ job'[v] = job[v] /\ age'[v] = age[v]
            /\ job[v] \in Jobs /\ age[v] \in Nat
      BY <1>2, <2>2, BusyType DEF TypeOK
    <3>2. row[job[v]].lease_until = Lease - age[v]
      BY <2>2, <3>1, BusyType DEF LeaseAccounted
    <3>3. row[job[v]].lease_until \in Nat /\ row[job[v]].lease_until # NULL
      BY <2>2, <3>1, <3>2, BusyType, JobWorkerAssumption
    <3> QED
      BY <2>1, <3>1, <3>3
  <2>3. ASSUME NEW v \in Workers, pc'[v] \in Executing
        PROVE  \/ age'[v] > Lease
               \/ /\ row'[job'[v]].status = "RUNNING"
                  /\ row'[job'[v]].claimed_by = v
                  /\ row'[job'[v]].lease_until = Lease - age'[v]
    <3>1. pc[v] \in Executing /\ job'[v] = job[v] /\ age'[v] = age[v] /\ age[v] \in Nat
      BY <1>2, <2>3, BusyType DEF TypeOK
    <3> QED
      BY <2>2, <2>3, <3>1, BusyType DEF LeaseAccounted
  <2>4. \A j \in Jobs : row'[j].status = "PENDING" => row'[j].claimed_by = NULL
    BY <2>1 DEF LeaseAccounted
  <2> QED
    BY <2>3, <2>4 DEF LeaseAccounted
<1>3. ASSUME NEW w \in Workers, pc[w] = "claim", row' = Claimed(w),
             \A v \in Workers : (v # w /\ pc'[v] \in Executing) =>
                 pc[v] \in Executing /\ job'[v] = job[v] /\ age'[v] = age[v],
             pc'[w] \in Executing =>
                 Claimable(w, job[w]) /\ job'[w] = job[w] /\ age'[w] = age[w]
      PROVE  LeaseAccounted'
  <2>1. job[w] \in Jobs /\ age[w] \in Nat /\ row[job[w]] \in Row
    BY <1>3, BusyType DEF TypeOK
  <2>2. CASE ~Claimable(w, job[w])
    <3>1. row' = row
      BY <1>3, <2>2 DEF Claimed
    <3> QED
      BY <1>3, <2>2, <3>1 DEF LeaseAccounted
  <2>3. CASE Claimable(w, job[w])
    <3>1. /\ row[job[w]].status = "PENDING"
          /\ row'[job[w]].status = "RUNNING"
          /\ row'[job[w]].claimed_by = w
          /\ row'[job[w]].lease_until = LeaseLeft(w)
          /\ \A j \in Jobs : j # job[w] => row'[j] = row[j]
      BY <1>3, <2>1, <2>3 DEF Claimed, Claimable, Row, Columns, TypeOK
    <3>2. ASSUME NEW v \in Workers, v # w, pc'[v] \in Executing, age'[v] <= Lease
          PROVE  row'[job'[v]] = row[job[v]]
      <4>1. pc[v] \in Executing /\ job'[v] = job[v] /\ age'[v] = age[v]
              /\ job[v] \in Jobs /\ age[v] \in Nat
        BY <1>3, <3>2, BusyType DEF TypeOK
      <4>2. row[job[v]].status = "RUNNING"
        BY <3>2, <4>1, BusyType DEF LeaseAccounted
      <4> QED
        BY <3>1, <4>1, <4>2
    <3>3. age[w] <= Lease => LeaseLeft(w) = Lease - age[w]
      BY DEF LeaseLeft
    <3>4. ASSUME NEW v \in Workers, pc'[v] \in Executing
          PROVE  \/ age'[v] > Lease
                 \/ /\ row'[job'[v]].status = "RUNNING"
                    /\ row'[job'[v]].claimed_by = v
                    /\ row'[job'[v]].lease_until = Lease - age'[v]
      <4>1. CASE v = w
        BY <1>3, <2>1, <3>1, <3>3, <3>4, <4>1, BusyType
      <4>2. CASE v # w
        <5>1. pc[v] \in Executing /\ job'[v] = job[v] /\ age'[v] = age[v] /\ age[v] \in Nat
          BY <1>3, <3>4, <4>2, BusyType DEF TypeOK
        <5> QED
          BY <3>2, <3>4, <4>2, <5>1, BusyType DEF LeaseAccounted
      <4> QED
        BY <4>1, <4>2
    <3>5. \A j \in Jobs : row'[j].status = "PENDING" => row'[j].claimed_by = NULL
      BY <2>1, <3>1 DEF LeaseAccounted
    <3> QED
      BY <3>4, <3>5 DEF LeaseAccounted
  <2> QED
    BY <2>2, <2>3
<1>4. ASSUME NEW w \in Workers, pc[w] = "reschedule", row' = Rescheduled(w),
             pc'[w] \notin Executing,
             \A v \in Workers : (v # w /\ pc'[v] \in Executing) =>
                 pc[v] \in Executing /\ job'[v] = job[v] /\ age'[v] = age[v]
      PROVE  LeaseAccounted'
  <2>1. job[w] \in Jobs /\ row[job[w]] \in Row
    BY <1>4 DEF TypeOK
  <2>2. ASSUME NEW j \in Jobs
        PROVE  \/ row'[j] = row[j]
               \/ /\ row[j].claimed_by = w
                  /\ row'[j].status = "PENDING" /\ row'[j].claimed_by = NULL
    BY <1>4, <2>1 DEF Rescheduled, Freed, Row, Columns, TypeOK
  <2>3. ASSUME NEW v \in Workers, pc'[v] \in Executing, age'[v] <= Lease
        PROVE  row'[job'[v]] = row[job[v]]
    <3>1. pc[v] \in Executing /\ job'[v] = job[v] /\ age'[v] = age[v]
            /\ job[v] \in Jobs /\ age[v] \in Nat /\ v # w
      BY <1>4, <2>3, BusyType DEF TypeOK
    <3>2. row[job[v]].claimed_by = v
      BY <2>3, <3>1, BusyType DEF LeaseAccounted
    <3> QED
      BY <2>2, <3>1, <3>2
  <2>4. ASSUME NEW v \in Workers, pc'[v] \in Executing
        PROVE  \/ age'[v] > Lease
               \/ /\ row'[job'[v]].status = "RUNNING"
                  /\ row'[job'[v]].claimed_by = v
                  /\ row'[job'[v]].lease_until = Lease - age'[v]
    <3>1. pc[v] \in Executing /\ job'[v] = job[v] /\ age'[v] = age[v] /\ age[v] \in Nat
      BY <1>4, <2>4, BusyType DEF TypeOK
    <3> QED
      BY <2>3, <2>4, <3>1, BusyType DEF LeaseAccounted
  <2>5. \A j \in Jobs : row'[j].status = "PENDING" => row'[j].claimed_by = NULL
    BY <2>2 DEF LeaseAccounted
  <2> QED
    BY <2>4, <2>5 DEF LeaseAccounted
<1>5. ASSUME NEW w \in Workers,
             Start(w) \/ SelectDueJobs(w) \/ BeginClaim(w) \/ EndHandler(w)
               \/ EndPoll(w) \/ Wake(w)
      PROVE  LeaseAccounted'
  <2>1. row' = row
    BY <1>5 DEF Start, SelectDueJobs, BeginClaim, EndHandler, EndPoll, Wake
  <2>2. \A v \in Workers : pc'[v] \in Executing =>
            pc[v] \in Executing /\ job'[v] = job[v] /\ age'[v] = age[v]
    BY <1>5 DEF Start, SelectDueJobs, BeginClaim, EndHandler, EndPoll, Wake, TypeOK
  <2> QED
    BY <1>1, <2>1, <2>2
<1>6. ASSUME NEW w \in Workers, RecoverStaleJobs(w) PROVE LeaseAccounted'
  BY <1>2, <1>6 DEF RecoverStaleJobs, TypeOK
<1>7. ASSUME NEW w \in Workers, Claim(w) PROVE LeaseAccounted'
  BY <1>3, <1>7 DEF Claim, LeaveJob, TypeOK
<1>8. ASSUME NEW w \in Workers, Reschedule(w) PROVE LeaseAccounted'
  BY <1>4, <1>8 DEF Reschedule, LeaveJob, TypeOK
<1>9. ASSUME NEW w \in Workers, StatementFails(w) PROVE LeaseAccounted'
  <2>1. pc'[w] = "sleep" /\ \A v \in Workers : v # w =>
            pc'[v] = pc[v] /\ job'[v] = job[v] /\ age'[v] = age[v]
    BY <1>9 DEF StatementFails, LeaveJob, TypeOK
  <2>2. CASE row' = row
    BY <1>1, <2>1, <2>2
  <2>3. CASE row' = StatementEffect(w)
    <3>1. pc[w] \in InStatement
      BY <1>9 DEF StatementFails
    <3>2. CASE pc[w] = "recover"
      BY <1>2, <2>1, <2>3, <3>2 DEF StatementEffect
    <3>3. CASE pc[w] = "select"
      BY <1>1, <2>1, <2>3, <3>3 DEF StatementEffect
    <3>4. CASE pc[w] = "claim"
      BY <1>3, <2>1, <2>3, <3>4 DEF StatementEffect
    <3>5. CASE pc[w] = "reschedule"
      BY <1>4, <2>1, <2>3, <3>5 DEF StatementEffect
    <3> QED
      BY <3>1, <3>2, <3>3, <3>4, <3>5
  <2> QED
    BY <1>9, <2>2, <2>3 DEF StatementFails
<1>10. ASSUME NEW w \in Workers, GoDown(w) PROVE LeaseAccounted'
  BY <1>1, <1>10 DEF GoDown, LeaveJob, TypeOK
<1>11. ASSUME Tick PROVE LeaseAccounted'
  <2>1. ASSUME NEW j \in Jobs
        PROVE  /\ row'[j].status = row[j].status
               /\ row'[j].claimed_by = row[j].claimed_by
               /\ row[j].lease_until \in Int /\ row[j].lease_until >= 0
                    => row'[j].lease_until = row[j].lease_until - 1
    <3>1. row'[j] = Older(row[j]) /\ row[j] \in Row
      BY <1>11 DEF Tick, TypeOK
    <3>2. /\ Older(row[j]).status = row[j].status
          /\ Older(row[j]).claimed_by = row[j].claimed_by
      BY <3>1 DEF Older, Row, Columns
    <3>3. row[j].lease_until \in Int /\ row[j].lease_until >= 0
            => Older(row[j]).lease_until = row[j].lease_until - 1
      BY <3>1, JobWorkerAssumption DEF Older, Row, Columns
    <3> QED
      BY <3>1, <3>2, <3>3
  <2>2. ASSUME NEW w \in Workers, pc'[w] \in Executing
        PROVE  \/ age'[w] > Lease
               \/ /\ row'[job'[w]].status = "RUNNING"
                  /\ row'[job'[w]].claimed_by = w
                  /\ row'[job'[w]].lease_until = Lease - age'[w]
    <3>1. pc[w] \in Executing /\ job'[w] = job[w] /\ age'[w] = age[w] + 1
            /\ job[w] \in Jobs /\ age[w] \in Nat
      BY <1>11, <2>2, BusyType DEF Tick, TypeOK
    <3>2. CASE age[w] > Lease
      BY <3>1, <3>2, BusyType
    <3>3. CASE age[w] <= Lease
      <4>1. row[job[w]].status = "RUNNING" /\ row[job[w]].claimed_by = w
              /\ row[job[w]].lease_until = Lease - age[w]
        BY <3>1, <3>3, BusyType DEF LeaseAccounted
      <4> QED
        BY <2>1, <3>1, <3>3, <4>1, BusyType
    <3> QED
      BY <3>1, <3>2, <3>3, BusyType
  <2> QED
    BY <2>1, <2>2 DEF LeaseAccounted
<1>12. CASE UNCHANGED vars
  BY <1>12 DEF vars, LeaseAccounted
<1> QED
  BY <1>5, <1>6, <1>7, <1>8, <1>9, <1>10, <1>11, <1>12 DEF Next, WorkerStep

THEOREM LeasesAccounted == Spec => []LeaseAccounted
BY InitLease, NextLease, TypeCorrect, PTL DEF Spec

LEMMA AccountedAlone == TypeOK /\ LeaseAccounted => AloneUnlessLate
BY DEF AloneUnlessLate, LeaseAccounted

(***************************************************************************)
(* No two workers run a job at once unless one has outlived its lease: for *)
(* every lease, timeout, delay and number of crashes.                      *)
(***************************************************************************)
THEOREM RunsAloneUnlessLate == Spec => []AloneUnlessLate
BY LeasesAccounted, TypeCorrect, AccountedAlone, PTL

(***************************************************************************)
(* What validate_lease_invariant buys: with a lease of two timeouts and    *)
(* statements that take at most one, a job never runs twice at once.       *)
(***************************************************************************)
THEOREM ValidatedLeaseExcludes ==
    ASSUME Lease >= 2 * HandlerTimeout, Slack <= HandlerTimeout
    PROVE  Spec => []OneRunAtATime
<1>1. Busy <= Lease
  BY JobWorkerAssumption DEF Busy
<1>2. TypeOK /\ AloneUnlessLate => OneRunAtATime
  <2> SUFFICES ASSUME TypeOK, AloneUnlessLate, NEW w \in Workers, NEW v \in Workers,
                      pc[w] \in Executing, pc[v] \in Executing, job[w] = job[v], w # v
               PROVE  FALSE
    BY DEF OneRunAtATime
  <2>1. age[w] > Lease \/ age[v] > Lease
    BY DEF AloneUnlessLate
  <2>2. age[w] \in 0 .. Busy /\ age[v] \in 0 .. Busy
    BY DEF TypeOK
  <2> QED
    BY <1>1, <2>1, <2>2, BusyType
<1> QED
  BY <1>2, TypeCorrect, RunsAloneUnlessLate, PTL

-----------------------------------------------------------------------------
(* Fencing.                                                                *)

LEMMA StepFenced ==
    TypeOK /\ LeaseAccounted /\ [Next]_vars =>
        [\A j \in Jobs :
            (row[j].status = "RUNNING" /\ row'[j].claimed_by # row[j].claimed_by)
                => \/ Stale(row[j]) /\ row'[j].next_run_at = row[j].next_run_at
                   \/ \E w \in Workers :
                        /\ row[j].claimed_by = w
                        /\ pc[w] = "reschedule" /\ job[w] = j
                        /\ pc'[w] # "reschedule"]_vars
<1> SUFFICES ASSUME TypeOK, LeaseAccounted, Next, NEW j \in Jobs,
                    row[j].status = "RUNNING", row'[j].claimed_by # row[j].claimed_by
             PROVE  \/ Stale(row[j]) /\ row'[j].next_run_at = row[j].next_run_at
                    \/ \E w \in Workers :
                        /\ row[j].claimed_by = w
                        /\ pc[w] = "reschedule" /\ job[w] = j
                        /\ pc'[w] # "reschedule"
  BY DEF vars
<1> USE DEF InStatement, InJob
<1>1. CASE row' = Recovered
  <2>1. row'[j] = (IF Stale(row[j]) THEN Freed(row[j]) ELSE row[j]) /\ row[j] \in Row
    BY <1>1 DEF Recovered, TypeOK
  <2> QED
    BY <2>1, FreedFacts
<1>2. ASSUME NEW w \in Workers, pc[w] = "claim", row' = Claimed(w) PROVE FALSE
  BY <1>2 DEF Claimed, Claimable, TypeOK, Row, Columns
<1>3. ASSUME NEW w \in Workers, pc[w] = "reschedule", row' = Rescheduled(w),
             pc'[w] # "reschedule"
      PROVE  row[j].claimed_by = w /\ pc[w] = "reschedule" /\ job[w] = j
               /\ pc'[w] # "reschedule"
  BY <1>3 DEF Rescheduled, TypeOK, Row, Columns
<1>4. row' # row
  OBVIOUS
<1>5. ~Tick
  <2>1. Older(row[j]).claimed_by = row[j].claimed_by
    BY DEF Older, Row, Columns, TypeOK
  <2> QED
    BY <2>1 DEF Tick
<1>6. ASSUME NEW w \in Workers, StatementFails(w)
      PROVE  \/ row' = Recovered
             \/ pc[w] = "claim" /\ row' = Claimed(w)
             \/ pc[w] = "reschedule" /\ row' = Rescheduled(w) /\ pc'[w] # "reschedule"
  BY <1>4, <1>6 DEF StatementFails, StatementEffect, LeaveJob, TypeOK
<1>7. ASSUME NEW w \in Workers, WorkerStep(w)
      PROVE  \/ row' = Recovered
             \/ pc[w] = "claim" /\ row' = Claimed(w)
             \/ pc[w] = "reschedule" /\ row' = Rescheduled(w) /\ pc'[w] # "reschedule"
  BY <1>4, <1>7 DEF WorkerStep, RecoverStaleJobs, SelectDueJobs, BeginClaim, Claim,
       EndHandler, Reschedule, EndPoll, Wake, LeaveJob, TypeOK
<1>8. PICK w \in Workers :
        Start(w) \/ WorkerStep(w) \/ StatementFails(w) \/ GoDown(w)
  BY <1>5 DEF Next
<1> QED
  BY <1>1, <1>2, <1>3, <1>4, <1>5, <1>6, <1>7, <1>8 DEF Start, GoDown

(***************************************************************************)
(* The fencing token works for any timing: a reschedule that comes after   *)
(* the row was recovered or claimed again changes nothing.                 *)
(***************************************************************************)
THEOREM Fenced == Spec => ClaimEndsByOwnerOrExpiry
BY StepFenced, TypeCorrect, LeasesAccounted, PTL DEF Spec, ClaimEndsByOwnerOrExpiry

-----------------------------------------------------------------------------
(* Refinement of LeasedTask.                                               *)

abstractOwner == [j \in Jobs |-> row[j].claimed_by]
abstractWorking == [w \in Workers |-> IF pc[w] \in Executing THEN job[w] ELSE NULL]
abstractLate == {w \in Workers : pc[w] \in Executing /\ age[w] > Lease}
abstractPaced == {j \in Jobs : Interval[j] > 0}
abstractResting == {j \in Jobs : row[j].next_run_at > 0}

LEMMA InitLeasedTask == Init => LeaseTable!Init
BY DEF Init, Executing, LeaseTable!Init

(* A recovery takes nothing from a worker that is within its lease. *)
LEMMA RecoverReclaims ==
    ASSUME TypeOK, LeaseAccounted, row' = Recovered,
           abstractWorking' = abstractWorking, abstractLate' = abstractLate
    PROVE  LeaseTable!Next
<1>0. PICK ts \in SUBSET Jobs : ts = {j \in Jobs : Stale(row[j]) /\ row[j].claimed_by # NULL}
  OBVIOUS
<1>1. ASSUME NEW j \in ts
      PROVE  /\ row[j].claimed_by # NULL
             /\ abstractWorking[row[j].claimed_by] = j => row[j].claimed_by \in abstractLate
  <2>1. j \in Jobs /\ Stale(row[j]) /\ row[j].claimed_by # NULL /\ row[j].claimed_by \in Workers
    BY <1>0, <1>1 DEF TypeOK, Row, Columns
  <2>2. SUFFICES ASSUME abstractWorking[row[j].claimed_by] = j
                 PROVE  row[j].claimed_by \in abstractLate
    BY <2>1
  <2> DEFINE w == row[j].claimed_by
  <2>3. pc[w] \in Executing /\ job[w] = j
    BY <2>1, <2>2, JobWorkerAssumption DEF abstractWorking
  <2>4. age[w] > Lease
    <3>1. age[w] \in Nat
      BY <2>1, BusyType DEF TypeOK
    <3>2. SUFFICES ASSUME age[w] <= Lease PROVE FALSE
      BY <3>1, BusyType
    <3>3. row[j].lease_until = Lease - age[w]
      BY <2>1, <2>3, <3>1, <3>2, BusyType DEF LeaseAccounted
    <3> QED
      BY <2>1, <3>1, <3>2, <3>3, BusyType, JobWorkerAssumption DEF Stale
  <2> QED
    BY <2>1, <2>3, <2>4 DEF abstractLate
<1>2. abstractOwner' = [j \in Jobs |-> IF j \in ts THEN NULL ELSE abstractOwner[j]]
  BY <1>0 DEF abstractOwner, Recovered, Freed, TypeOK, Row, Columns
<1>3. abstractResting' = abstractResting
  <2>1. \A j \in Jobs : row'[j].next_run_at = row[j].next_run_at
    BY FreedFacts DEF Recovered, TypeOK
  <2> QED
    BY <2>1 DEF abstractResting
<1>4. LeaseTable!Reclaim(ts)
  BY <1>1, <1>2, <1>3
  DEF LeaseTable!Reclaim, LeaseTable!Reclaimable, abstractOwner, abstractWorking, abstractLate,
      abstractResting
<1> QED
  BY <1>4 DEF LeaseTable!Next

LEMMA SameLeaseTable ==
    ASSUME abstractOwner' = abstractOwner, abstractWorking' = abstractWorking,
           abstractLate' = abstractLate, abstractResting' = abstractResting
    PROVE  UNCHANGED LeaseTable!vars
BY DEF abstractOwner, abstractWorking, abstractLate, abstractResting, LeaseTable!vars

(* What the end of w's execution does to the other executions: nothing. *)
LEMMA LeaveExecution ==
    ASSUME TypeOK, NEW w \in Workers, NEW p \in {"next", "sleep", "down"}, LeaveJob(w, p)
    PROVE  /\ abstractWorking' = [abstractWorking EXCEPT ![w] = NULL]
           /\ abstractLate' = abstractLate \ {w}
           /\ pc[w] \notin Executing => abstractWorking' = abstractWorking
           /\ pc[w] \notin Executing => abstractLate' = abstractLate
           /\ pc[w] \in Executing => abstractWorking[w] = job[w] /\ abstractWorking[w] # NULL
<1>1. \A v \in Workers : v # w => pc'[v] = pc[v] /\ job'[v] = job[v] /\ age'[v] = age[v]
  BY DEF LeaveJob, TypeOK
<1>2. pc'[w] = p /\ p \notin Executing
  BY DEF LeaveJob, TypeOK, Executing
<1>3. pc[w] \in Executing => job[w] # NULL
  BY DEF TypeOK, Executing, InJob
<1>4. abstractLate' = abstractLate \ {w}
  BY <1>1, <1>2 DEF abstractLate
<1>5. abstractWorking' = [abstractWorking EXCEPT ![w] = NULL]
  BY <1>1, <1>2 DEF abstractWorking
<1> QED
  BY <1>2, <1>3, <1>4, <1>5 DEF abstractWorking, abstractLate

LEMMA RescheduleReleases ==
    ASSUME TypeOK, NEW w \in Workers, NEW p \in {"next", "sleep", "down"},
           pc[w] = "reschedule", row' = Rescheduled(w), LeaveJob(w, p)
    PROVE  LeaseTable!Next
<1>1. job[w] \in Jobs /\ pc[w] \in Executing
  BY DEF TypeOK, InJob, Executing
<1>2. abstractOwner' = [abstractOwner EXCEPT ![job[w]] = IF @ = w THEN NULL ELSE @]
  <2>1. ASSUME NEW j \in Jobs
        PROVE  row'[j].claimed_by =
                   IF j = job[w] /\ row[j].claimed_by = w THEN NULL ELSE row[j].claimed_by
    <3>1. row[j] \in Row /\ Freed(row[j]) \in Row
      BY FreedType DEF TypeOK
    <3>2. [Freed(row[j]) EXCEPT !.next_run_at = Interval[j]].claimed_by = NULL
      BY <3>1, FreedFacts DEF Row, Columns
    <3> QED
      BY <1>1, <3>1, <3>2 DEF Rescheduled, TypeOK
  <2> QED
    BY <1>1, <2>1 DEF abstractOwner
<1>3. /\ abstractWorking[w] = job[w] /\ abstractWorking[w] # NULL
      /\ abstractWorking' = [abstractWorking EXCEPT ![w] = NULL]
      /\ abstractLate' = abstractLate \ {w}
  BY <1>1, LeaveExecution
<1>4. abstractResting' = IF row[job[w]].claimed_by # w THEN abstractResting
                         ELSE IF job[w] \in abstractPaced THEN abstractResting \cup {job[w]}
                         ELSE abstractResting \ {job[w]}
  <2>1. \A j \in Jobs : j # job[w] => row'[j] = row[j]
    BY <1>1 DEF Rescheduled, TypeOK
  <2>2. row[job[w]].claimed_by # w => row' = row
    BY <1>1 DEF Rescheduled
  <2>3. row[job[w]].claimed_by = w => row'[job[w]].next_run_at = Interval[job[w]]
    <3>1. row[job[w]] \in Row /\ Freed(row[job[w]]) \in Row
      BY <1>1, FreedType DEF TypeOK
    <3>2. [Freed(row[job[w]]) EXCEPT !.next_run_at = Interval[job[w]]].next_run_at = Interval[job[w]]
      BY <3>1 DEF Row, Columns
    <3> QED
      BY <1>1, <3>2 DEF Rescheduled, TypeOK
  <2> QED
    BY <1>1, <2>1, <2>2, <2>3 DEF abstractResting, abstractPaced
<1>5. LeaseTable!Release(w)
  <2>1. abstractOwner[job[w]] = row[job[w]].claimed_by
    BY <1>1 DEF abstractOwner
  <2>2. CASE abstractOwner[job[w]] = w
    BY <1>2, <1>3, <1>4, <2>1, <2>2
    DEF LeaseTable!Release, abstractOwner, abstractWorking, abstractLate, abstractResting, abstractPaced
  <2>3. CASE abstractOwner[job[w]] # w
    <3>1. abstractOwner' = abstractOwner
      BY <1>2, <2>3 DEF abstractOwner
    <3> QED
      BY <1>3, <1>4, <2>1, <2>3, <3>1
      DEF LeaseTable!Release, abstractOwner, abstractWorking, abstractLate, abstractResting, abstractPaced
  <2> QED
    BY <2>2, <2>3
<1> QED
  BY <1>5 DEF LeaseTable!Next

LEMMA AbandonsOrIdles ==
    ASSUME TypeOK, NEW w \in Workers, NEW p \in {"next", "sleep", "down"},
           row' = row, LeaveJob(w, p)
    PROVE  LeaseTable!Next \/ UNCHANGED LeaseTable!vars
<1>1. abstractOwner' = abstractOwner /\ abstractResting' = abstractResting
  BY DEF abstractOwner, abstractResting
<1>2. CASE pc[w] \in Executing
  <2>1. LeaseTable!Abandon(w)
    BY <1>1, <1>2, LeaveExecution
    DEF LeaseTable!Abandon, abstractOwner, abstractWorking, abstractLate, abstractResting
  <2> QED
    BY <2>1 DEF LeaseTable!Next
<1>3. CASE pc[w] \notin Executing
  BY <1>1, <1>3, LeaveExecution, SameLeaseTable
<1> QED
  BY <1>2, <1>3

LEMMA ClaimGrants ==
    ASSUME TypeOK, LeaseAccounted, NEW w \in Workers, pc[w] = "claim",
           Claimable(w, job[w]), row' = Claimed(w)
    PROVE  /\ abstractOwner[job[w]] = NULL /\ abstractWorking[w] = NULL
           /\ job[w] \in Jobs /\ job[w] \notin abstractResting
           /\ abstractOwner' = [abstractOwner EXCEPT ![job[w]] = w]
           /\ abstractResting' = abstractResting
<1>1. job[w] \in Jobs
  BY DEF TypeOK, InJob
<1>2. row[job[w]].claimed_by = NULL
  BY <1>1 DEF Claimable, LeaseAccounted
<1>3. abstractWorking[w] = NULL /\ abstractOwner[job[w]] = NULL
  BY <1>1, <1>2 DEF abstractWorking, abstractOwner, Executing
<1>4. abstractOwner' = [abstractOwner EXCEPT ![job[w]] = w]
  <2>1. ASSUME NEW j \in Jobs
        PROVE  row'[j].claimed_by = IF j = job[w] THEN w ELSE row[j].claimed_by
    BY <1>1 DEF Claimed, TypeOK, Row, Columns
  <2> QED
    BY <1>1, <2>1 DEF abstractOwner
<1>5. job[w] \notin abstractResting
  <2>1. row[job[w]].next_run_at <= -age[w] /\ row[job[w]].next_run_at \in Int /\ age[w] \in Nat
    BY <1>1, BusyType DEF Claimable, TypeOK, Row, Columns
  <2> QED
    BY <2>1 DEF abstractResting
<1>6. abstractResting' = abstractResting
  <2>1. \A j \in Jobs : row'[j].next_run_at = row[j].next_run_at
    BY <1>1 DEF Claimed, TypeOK, Row, Columns
  <2> QED
    BY <2>1 DEF abstractResting
<1> QED
  BY <1>1, <1>3, <1>4, <1>5, <1>6

LEMMA StepLeasedTask ==
    TypeOK /\ LeaseAccounted /\ [Next]_vars => [LeaseTable!Next]_(LeaseTable!vars)
<1> SUFFICES ASSUME TypeOK, LeaseAccounted, [Next]_vars
             PROVE  LeaseTable!Next \/ UNCHANGED LeaseTable!vars
  OBVIOUS
<1>1. ASSUME row' = row, abstractWorking' = abstractWorking, abstractLate' = abstractLate
      PROVE  UNCHANGED LeaseTable!vars
  BY <1>1, SameLeaseTable DEF abstractOwner, abstractResting
<1>2. ASSUME NEW w \in Workers, NEW p, p \notin Executing, pc[w] \notin Executing,
             pc' = [pc EXCEPT ![w] = p], age' = age,
             \A v \in Workers : v # w => job'[v] = job[v]
      PROVE  abstractWorking' = abstractWorking /\ abstractLate' = abstractLate
  BY <1>2 DEF abstractWorking, abstractLate, TypeOK
<1>3. ASSUME NEW w \in Workers, Start(w) \/ SelectDueJobs(w) \/ BeginClaim(w) \/ EndPoll(w) \/ Wake(w)
      PROVE  UNCHANGED LeaseTable!vars
  <2>1. \A v \in Workers : v # w => job'[v] = job[v]
    BY <1>3 DEF Start, SelectDueJobs, BeginClaim, EndPoll, Wake, TypeOK
  <2>2. \E p : p \notin Executing /\ pc[w] \notin Executing /\ pc' = [pc EXCEPT ![w] = p]
    BY <1>3 DEF Start, SelectDueJobs, BeginClaim, EndPoll, Wake, Executing
  <2>3. row' = row /\ age' = age
    BY <1>3 DEF Start, SelectDueJobs, BeginClaim, EndPoll, Wake
  <2> QED
    BY <1>1, <1>2, <2>1, <2>2, <2>3
<1>4. ASSUME NEW w \in Workers, RecoverStaleJobs(w) PROVE LeaseTable!Next
  <2>1. abstractWorking' = abstractWorking /\ abstractLate' = abstractLate
    BY <1>4 DEF RecoverStaleJobs, abstractWorking, abstractLate, Executing, TypeOK
  <2> QED
    BY <1>4, <2>1, RecoverReclaims DEF RecoverStaleJobs
<1>5. ASSUME NEW w \in Workers, Claim(w)
      PROVE  LeaseTable!Next \/ UNCHANGED LeaseTable!vars
  <2>1. CASE Claimable(w, job[w])
    <3>1. abstractWorking' = [abstractWorking EXCEPT ![w] = job[w]]
      BY <1>5, <2>1 DEF Claim, abstractWorking, Executing, TypeOK
    <3>2. abstractLate' = abstractLate \/ abstractLate' = abstractLate \cup {w}
      BY <1>5, <2>1 DEF Claim, abstractLate, Executing, TypeOK
    <3>3. PICK j \in Jobs : j = job[w]
      BY <1>5, <2>1, ClaimGrants DEF Claim
    <3>4. LeaseTable!Grant(w, j)
      BY <1>5, <2>1, <3>1, <3>2, <3>3, ClaimGrants
      DEF Claim, LeaseTable!Grant, LeaseTable!Grantable, abstractOwner, abstractWorking,
          abstractLate, abstractResting
    <3> QED
      BY <3>4 DEF LeaseTable!Next
  <2>2. CASE ~Claimable(w, job[w])
    BY <1>5, <2>2, AbandonsOrIdles DEF Claim, Claimed
  <2> QED
    BY <2>1, <2>2
<1>6. ASSUME NEW w \in Workers, EndHandler(w) PROVE UNCHANGED LeaseTable!vars
  <2>1. abstractWorking' = abstractWorking /\ abstractLate' = abstractLate
    BY <1>6 DEF EndHandler, abstractWorking, abstractLate, Executing, TypeOK
  <2> QED
    BY <1>1, <1>6, <2>1 DEF EndHandler
<1>7. ASSUME NEW w \in Workers, Reschedule(w) PROVE LeaseTable!Next
  BY <1>7, RescheduleReleases DEF Reschedule
<1>8. ASSUME NEW w \in Workers, StatementFails(w)
      PROVE  LeaseTable!Next \/ UNCHANGED LeaseTable!vars
  <2>1. LeaveJob(w, "sleep") /\ pc[w] \in InStatement
    BY <1>8 DEF StatementFails
  <2>2. CASE row' = row
    BY <2>1, <2>2, AbandonsOrIdles
  <2>3. CASE row' # row
    <3>1. row' = StatementEffect(w)
      BY <1>8, <2>3 DEF StatementFails
    <3>2. CASE pc[w] = "recover"
      BY <2>1, <3>1, <3>2, RecoverReclaims, LeaveExecution DEF StatementEffect, Executing
    <3>3. CASE pc[w] = "claim"
      <4>1. row' = Claimed(w)
        BY <3>1, <3>3 DEF StatementEffect
      <4>2. Claimable(w, job[w])
        BY <2>3, <4>1 DEF Claimed
      <4>3. abstractWorking' = abstractWorking /\ abstractLate' = abstractLate
        BY <2>1, <3>3, LeaveExecution DEF Executing
      <4>4. PICK j \in Jobs : j = job[w]
        BY <3>3, <4>1, <4>2, ClaimGrants
      <4>5. LeaseTable!GrantUnheard(w, j)
        BY <3>3, <4>1, <4>2, <4>3, <4>4, ClaimGrants
        DEF LeaseTable!GrantUnheard, LeaseTable!Grantable, abstractOwner, abstractWorking,
            abstractLate, abstractResting
      <4> QED
        BY <4>5 DEF LeaseTable!Next
    <3>4. CASE pc[w] = "reschedule"
      BY <2>1, <3>1, <3>4, RescheduleReleases DEF StatementEffect
    <3> QED
      BY <2>1, <2>3, <3>1, <3>2, <3>3, <3>4 DEF StatementEffect, InStatement
  <2> QED
    BY <2>2, <2>3
<1>9. ASSUME NEW w \in Workers, GoDown(w)
      PROVE  LeaseTable!Next \/ UNCHANGED LeaseTable!vars
  BY <1>9, AbandonsOrIdles DEF GoDown
<1>10. ASSUME Tick PROVE LeaseTable!Next
  <2>1. abstractOwner' = abstractOwner
    <3>1. \A j \in Jobs : Older(row[j]).claimed_by = row[j].claimed_by
      BY DEF Older, Row, Columns, TypeOK
    <3> QED
      BY <1>10, <3>1 DEF Tick, abstractOwner
  <2>2. abstractWorking' = abstractWorking
    BY <1>10 DEF Tick, abstractWorking
  <2>3. \A w \in Workers : pc[w] \in Executing =>
            age'[w] = age[w] + 1 /\ abstractWorking[w] # NULL
    BY <1>10 DEF Tick, Executing, InJob, abstractWorking, TypeOK
  <2>0. PICK os \in SUBSET Workers :
            os = {w \in Workers : pc[w] \in Executing /\ age[w] + 1 > Lease}
    OBVIOUS
  <2>4. abstractLate' = abstractLate \cup {w \in os : abstractWorking[w] # NULL}
    <3>1. \A w \in Workers : age[w] \in Nat
      BY BusyType DEF TypeOK
    <3> QED
      BY <1>10, <2>0, <2>3, <3>1, BusyType DEF Tick, abstractLate
  <2>5. PICK rested \in SUBSET Jobs : rested = {j \in Jobs : row'[j].next_run_at <= 0}
    OBVIOUS
  <2>6. abstractResting' = abstractResting \ rested
    <3>1. ASSUME NEW j \in Jobs
          PROVE  /\ row'[j].next_run_at \in Int /\ row[j].next_run_at \in Int
                 /\ row'[j].next_run_at <= row[j].next_run_at
      <4>1. row'[j] = Older(row[j]) /\ row[j] \in Row
        BY <1>10 DEF Tick, TypeOK
      <4> QED
        BY <4>1, BusyType DEF Older, Row, Columns
    <3> QED
      BY <2>5, <3>1 DEF abstractResting
  <2>7. LeaseTable!Pass(os, rested)
    BY <2>1, <2>2, <2>4, <2>6
    DEF LeaseTable!Pass, abstractOwner, abstractWorking, abstractLate, abstractResting
  <2> QED
    BY <2>7 DEF LeaseTable!Next
<1>11. CASE UNCHANGED vars
  BY <1>1, <1>11 DEF vars, abstractWorking, abstractLate
<1> QED
  BY <1>3, <1>4, <1>5, <1>6, <1>7, <1>8, <1>9, <1>10, <1>11 DEF Next, WorkerStep

(***************************************************************************)
(* The scheduler implements the abstract table of leased tasks.            *)
(***************************************************************************)
THEOREM ImplementsLeases == Spec => ImplementsLeasedTask
BY InitLeasedTask, StepLeasedTask, TypeCorrect, LeasesAccounted, PTL
DEF Spec, ImplementsLeasedTask, LeaseTable!Spec
=============================================================================
