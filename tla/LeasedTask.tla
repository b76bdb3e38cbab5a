----------------------------- MODULE LeasedTask -----------------------------
(***************************************************************************)
(* What the job table promises, with no clock, no poll loop and no SQL: a  *)
(* task is granted to one owner at a time, and it is taken from an owner   *)
(* that is still working on it only when that owner has outlived its lease;*)
(* and a task that was done rests, whoever still has it on a list          *)
(* (core/jobs/worker.py, the claim, the stale recovery and the reschedule).*)
(***************************************************************************)
EXTENDS FiniteSets

CONSTANTS
    Tasks, Owners, NULL,
    Paced     \* the tasks that rest between one execution and the next

VARIABLES
    owner,    \* owner[t]: who the table says holds t, or NULL
    working,  \* working[o]: the task o is executing, or NULL
    late,     \* the owners that have outlived the lease of their execution
    resting   \* the tasks done so recently that nobody may take them

vars == <<owner, working, late, resting>>

TypeOK ==
    /\ owner \in [Tasks -> Owners \cup {NULL}]
    /\ working \in [Owners -> Tasks \cup {NULL}]
    /\ late \in SUBSET Owners
    /\ resting \in SUBSET Tasks

(***************************************************************************)
(* A table may start with tasks held by owners of an earlier life.         *)
(***************************************************************************)
Init ==
    /\ owner \in [Tasks -> Owners \cup {NULL}]
    /\ working = [o \in Owners |-> NULL]
    /\ late = {}
    /\ resting \in SUBSET Tasks

Grantable(o, t) ==
    /\ owner[t] = NULL
    /\ working[o] = NULL
    /\ t \notin resting

Grant(o, t) ==
    /\ Grantable(o, t)
    /\ owner' = [owner EXCEPT ![t] = o]
    /\ working' = [working EXCEPT ![o] = t]
    /\ late' \in {late, late \cup {o}}
    /\ UNCHANGED resting

(* The grant is recorded and its owner never hears of it. *)
GrantUnheard(o, t) ==
    /\ Grantable(o, t)
    /\ owner' = [owner EXCEPT ![t] = o]
    /\ UNCHANGED <<working, late, resting>>

(* The end of an execution touches the task only if its owner still holds it. *)
Release(o) ==
    /\ working[o] # NULL
    /\ LET t == working[o]
       IN IF owner[t] = o
          THEN /\ owner' = [owner EXCEPT ![t] = NULL]
               /\ resting' = IF t \in Paced THEN resting \cup {t} ELSE resting \ {t}
          ELSE UNCHANGED <<owner, resting>>
    /\ working' = [working EXCEPT ![o] = NULL]
    /\ late' = late \ {o}

Abandon(o) ==
    /\ working[o] # NULL
    /\ working' = [working EXCEPT ![o] = NULL]
    /\ late' = late \ {o}
    /\ UNCHANGED <<owner, resting>>

(* Time passes: some outlive their lease, and some tasks have rested. *)
Pass(os, rested) ==
    /\ late' = late \cup {o \in os : working[o] # NULL}
    /\ resting' = resting \ rested
    /\ UNCHANGED <<owner, working>>

Reclaimable(t) ==
    /\ owner[t] # NULL
    /\ working[owner[t]] = t => owner[t] \in late

Reclaim(ts) ==
    /\ \A t \in ts : Reclaimable(t)
    /\ owner' = [t \in Tasks |-> IF t \in ts THEN NULL ELSE owner[t]]
    /\ UNCHANGED <<working, late, resting>>

Next ==
    \/ \E o \in Owners, t \in Tasks : Grant(o, t) \/ GrantUnheard(o, t)
    \/ \E o \in Owners : Release(o) \/ Abandon(o)
    \/ \E os \in SUBSET Owners, rested \in SUBSET Tasks : Pass(os, rested)
    \/ \E ts \in SUBSET Tasks : Reclaim(ts)

Spec == Init /\ [][Next]_vars

(***************************************************************************)
(* Two owners execute one task only if one of them is past its lease.      *)
(***************************************************************************)
AloneUnlessLate ==
    \A o, p \in Owners :
        (o # p /\ working[o] = working[p] /\ working[o] # NULL)
            => o \in late \/ p \in late

(* The induction: who executes a task holds it, or is past its lease. *)
HoldsUnlessLate ==
    \A o \in Owners :
        working[o] # NULL => owner[working[o]] = o \/ o \in late
=============================================================================
