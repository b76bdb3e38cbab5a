---------------------------- MODULE SourceWatch ----------------------------
(***************************************************************************)
(* Who notices that a source stopped: the bookkeeping of the sync jobs     *)
(* (source_sync_state), the rule of health that /v1/sources/status and the *)
(* alerts of the watch areas share, and the script that cron runs to tell  *)
(* the operator, with its state file.  When a job runs is JobWorker's      *)
(* business: here a sync may come at any time, or never.                   *)
(***************************************************************************)
EXTENDS Integers

CONSTANTS
    NULL,
    Watched,           \* the sources with a job or with a state
    Interval,          \* source -> interval_seconds of its job, in ticks; NULL without a job
    StalenessFactor,   \* SOURCE_STALENESS_FACTOR
    MaxFailures,       \* SOURCE_MAX_FAILURES
    ReminderAfter      \* SOURCES_REMINDER_S, in ticks

ASSUME SourceWatchAssumption ==
    /\ NULL \notin Int
    /\ Interval \in [Watched -> (Nat \ {0}) \cup {NULL}]
    /\ StalenessFactor \in Nat /\ MaxFailures \in Nat \ {0} /\ ReminderAfter \in Nat \ {0}
    /\ "api-caida" \notin Watched

VARIABLES
    upstream,   \* source -> what its service does now
    lapse,      \* source -> ticks since last_success_at; NULL: never
    failures,   \* source -> consecutive_failures
    api,        \* the API answers
    estado,     \* the state file: the signature last told and its age
    said,       \* the last alert the script tried to send, as estado
    record,     \* of that alert in the state file: still to write, written, or lost
    told        \* the signature of the last alert that reached the operator

vars == <<upstream, lapse, failures, api, estado, said, record, told>>

Up == "up"
Upstreams == {Up, "down", "hangs"}

(***************************************************************************)
(* Ages grow up to where nothing tells them apart.                         *)
(***************************************************************************)
Horizon(s) == IF Interval[s] = NULL THEN 0 ELSE StalenessFactor * Interval[s] + 1

Older(age, limit) == IF age = NULL \/ age >= limit THEN age ELSE age + 1

(***************************************************************************)
(* assess_sources, for /v1/sources/status and for degraded_sources.        *)
(***************************************************************************)
\* Mutant: a source that never had a success has no age, and is not stale.
StaleIfSeen(s) ==
    /\ Interval[s] # NULL
    /\ lapse[s] # NULL /\ lapse[s] > StalenessFactor * Interval[s]

Stale(s) ==
    /\ Interval[s] # NULL
    /\ lapse[s] = NULL \/ lapse[s] > StalenessFactor * Interval[s]

Healthy(s) == ~ Stale(s) /\ failures[s] < MaxFailures

DegradedSources == {s \in Watched : ~ Healthy(s)}

(* The signature of a check: {} for ok. *)
ApiDown == {"api-caida"}

Firma == IF api THEN DegradedSources ELSE ApiDown

(* No file, or an empty one: "ok", told at the epoch 0. *)
NoRecord == [firma |-> {}, age |-> ReminderAfter]

Init ==
    /\ upstream \in [Watched -> Upstreams]
    /\ lapse = [s \in Watched |-> NULL]
    /\ failures = [s \in Watched |-> 0]
    /\ api = TRUE
    /\ estado = NoRecord
    /\ said = NoRecord
    /\ record = "written"
    /\ told = {}

(***************************************************************************)
(* A sync: record_success, or record_failure in a session of its own that  *)
(* survives the rollback, or nothing when the handler is cut by its        *)
(* timeout (55 s, and the drivers of AEMET and EFFIS wait for 60 s) or     *)
(* fails with an error that is not the driver's.                           *)
(***************************************************************************)
Succeeds(s) ==
    /\ upstream[s] = Up
    /\ lapse' = [lapse EXCEPT ![s] = 0]
    /\ failures' = [failures EXCEPT ![s] = 0]
    /\ UNCHANGED <<upstream, api, estado, said, record, told>>

FailsRecorded(s) ==
    /\ upstream[s] = "down"
    /\ failures' = [failures EXCEPT ![s] = Older(@, MaxFailures)]
    /\ UNCHANGED <<upstream, lapse, api, estado, said, record, told>>

FailsUnrecorded(s) ==
    /\ upstream[s] = "hangs"
    /\ UNCHANGED vars

Sync(s) ==
    /\ Interval[s] # NULL
    /\ Succeeds(s) \/ FailsRecorded(s) \/ FailsUnrecorded(s)

(***************************************************************************)
(* check-sources.sh.  A silent check leaves the state file alone, so that  *)
(* its age is that of the last alert; an alert that could not be sent      *)
(* writes it like one that was.  The file is written when the notifier has *)
(* returned; a script that dies before leaves it as it was, or empty.      *)
(***************************************************************************)
News ==
    \/ Firma # estado.firma
    \/ Firma # {} /\ estado.age >= ReminderAfter

(* One script at a time: cron starts it less often than the notifier can take. *)
Idle == record # "unwritten"

Silent == Idle /\ ~ News /\ UNCHANGED vars

Alert(sent) ==
    /\ Idle /\ News
    /\ said' = [firma |-> Firma, age |-> 0]
    /\ told' = IF sent THEN Firma ELSE told
    /\ record' = "unwritten"
    /\ UNCHANGED <<upstream, lapse, failures, api, estado>>

\* Mutant: the state file is written in the branch of the degraded sources alone.
WrittenWhenDegraded == IF said.firma = {} THEN estado ELSE said

(* The signature and the instant of the check, which are those of its alert. *)
Written == said

WriteRecord ==
    /\ record = "unwritten"
    /\ estado' = Written
    /\ record' = "written"
    /\ UNCHANGED <<upstream, lapse, failures, api, said, told>>

ScriptDies ==
    /\ record = "unwritten"
    /\ estado' \in {estado, NoRecord}
    /\ record' = "lost"
    /\ said' = NoRecord
    /\ UNCHANGED <<upstream, lapse, failures, api, told>>

(***************************************************************************)
(* The services and the API come and go, and time passes.                  *)
(***************************************************************************)
UpstreamTurns(s) ==
    /\ \E u \in Upstreams \ {upstream[s]} : upstream' = [upstream EXCEPT ![s] = u]
    /\ UNCHANGED <<lapse, failures, api, estado, said, record, told>>

ApiTurns == api' = ~ api /\ UNCHANGED <<upstream, lapse, failures, estado, said, record, told>>

Tick ==
    /\ lapse' = [s \in Watched |-> Older(lapse[s], Horizon(s))]
    /\ estado' = [estado EXCEPT !.age = Older(@, ReminderAfter)]
    /\ said' = [said EXCEPT !.age = Older(@, ReminderAfter)]
    /\ UNCHANGED <<upstream, failures, api, record, told>>

Next ==
    \/ \E s \in Watched : Sync(s) \/ UpstreamTurns(s)
    \/ Silent
    \/ \E sent \in BOOLEAN : Alert(sent)
    \/ WriteRecord
    \/ ScriptDies
    \/ ApiTurns
    \/ Tick

(* Cron runs the script for ever, a script ends, and the notifier does not fail for ever. *)
Fairness == WF_vars(Tick) /\ WF_vars(WriteRecord \/ ScriptDies) /\ SF_vars(Alert(TRUE))

Spec == Init /\ [][Next]_vars /\ Fairness
-----------------------------------------------------------------------------
(* Types; and the state file, unless a script died, is the record of the last alert. *)
TypeOK ==
    /\ upstream \in [Watched -> Upstreams]
    /\ lapse \in [Watched -> Nat \cup {NULL}]
    /\ \A s \in Watched : lapse[s] # NULL => lapse[s] <= Horizon(s)
    /\ failures \in [Watched -> 0 .. MaxFailures]
    /\ api \in BOOLEAN
    /\ estado \in [firma : (SUBSET Watched) \cup {ApiDown}, age : 0 .. ReminderAfter]
    /\ said \in [firma : (SUBSET Watched) \cup {ApiDown}, age : 0 .. ReminderAfter]
    /\ told \in (SUBSET Watched) \cup {ApiDown}
    /\ record \in {"unwritten", "written", "lost"}
    /\ record = "written" => estado = said

(***************************************************************************)
(* A source with a job that has no success any more is, from some time on, *)
(* in the last alert the operator got, while the API answers: also one     *)
(* that never had a success, one whose failures nobody records, and one    *)
(* whose first alert was lost (ADR-0019; the reminder of check-sources.sh).*)
(***************************************************************************)
NoMoreSuccess(s) == <>[][~ (lapse'[s] = 0)]_lapse

OutageIsReported ==
    \A s \in Watched :
        Interval[s] # NULL /\ NoMoreSuccess(s) /\ <>[] api => <>[](s \in told)

(***************************************************************************)
(* The script speaks only to tell a change of signature, or an episode     *)
(* still open once every ReminderAfter, or again what it told when it died *)
(* between sending and writing.                                            *)
(***************************************************************************)
OnlyNewsIsSent ==
    [][record' = "unwritten" =>
          \/ record = "lost"
          \/ said'.firma # said.firma
          \/ said.firma # {} /\ said.age >= ReminderAfter]_record
=============================================================================
