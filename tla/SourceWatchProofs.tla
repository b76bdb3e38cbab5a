------------------------- MODULE SourceWatchProofs -------------------------
(***************************************************************************)
(* SourceWatch for any sources, intervals and thresholds.  The invariant   *)
(* is TypeOK itself: its last conjunct, that the state file, once written, *)
(* is the record of the last alert, is what makes the guard of the script, *)
(* which reads the file, a statement about what the operator was sent.     *)
(***************************************************************************)
EXTENDS SourceWatch, TLAPS

Signatures == (SUBSET Watched) \cup {ApiDown}

(* An age that grows up to a limit stays within it. *)
LEMMA OlderStays ==
    ASSUME NEW limit \in Nat, NEW age \in 0 .. limit \cup {NULL}
    PROVE  /\ Older(age, limit) \in 0 .. limit \cup {NULL}
           /\ age # NULL => Older(age, limit) \in 0 .. limit
  BY SourceWatchAssumption DEF Older

LEMMA HorizonIsNat == ASSUME NEW s \in Watched PROVE Horizon(s) \in Nat
<1>1. Interval[s] \in (Nat \ {0}) \cup {NULL} /\ StalenessFactor \in Nat
  BY SourceWatchAssumption
<1>2. CASE Interval[s] = NULL
  BY <1>2 DEF Horizon
<1>3. CASE Interval[s] # NULL
  <2>1. Interval[s] \in Nat
    BY <1>1, <1>3
  <2>2. StalenessFactor * Interval[s] \in Nat
    BY <1>1, <2>1
  <2> QED
    BY <1>3, <2>2 DEF Horizon
<1> QED
  BY <1>2, <1>3

(* What a check tells is a set of sources, or that the API does not answer. *)
LEMMA FirmaType == Firma \in Signatures
<1>1. DegradedSources \in SUBSET Watched
  BY DEF DegradedSources
<1>2. CASE api
  BY <1>1, <1>2 DEF Firma, Signatures
<1>3. CASE ~ api
  <2>1. Firma = ApiDown
    BY <1>3 DEF Firma
  <2>2. ApiDown \in Signatures
    BY Zenon DEF Signatures
  <2> QED
    BY <2>1, <2>2
<1> QED
  BY <1>2, <1>3

LEMMA NoRecordType == NoRecord \in [firma : Signatures, age : 0 .. ReminderAfter]
<1>1. {} \in Signatures
  BY DEF Signatures
<1>2. ReminderAfter \in 0 .. ReminderAfter
  BY SourceWatchAssumption
<1> QED
  BY <1>1, <1>2 DEF NoRecord

LEMMA Initially == ASSUME Init PROVE TypeOK
<1>1. lapse \in [Watched -> Nat \cup {NULL}] /\ \A s \in Watched : lapse[s] = NULL
  BY DEF Init
<1>2. ReminderAfter \in Nat /\ MaxFailures \in Nat
  BY SourceWatchAssumption
<1>3. NoRecord \in [firma : Signatures, age : 0 .. ReminderAfter]
  BY NoRecordType
<1> QED
  BY <1>1, <1>2, <1>3 DEF Init, TypeOK, Signatures

LEMMA AlertKeeps == ASSUME TypeOK, NEW sent \in BOOLEAN, Alert(sent) PROVE TypeOK'
<1>1. Firma \in Signatures /\ 0 \in 0 .. ReminderAfter
  BY FirmaType, SourceWatchAssumption
<1>2. said' \in [firma : Signatures, age : 0 .. ReminderAfter]
  <2>1. said' = [firma |-> Firma, age |-> 0]
    BY DEF Alert
  <2> QED
    BY <1>1, <2>1
<1>3. told' \in Signatures
  BY <1>1 DEF Alert, TypeOK, Signatures
<1> QED
  BY <1>2, <1>3 DEF Alert, TypeOK, Signatures

(* The script ends. *)
LEMMA EndKeeps == ASSUME TypeOK, WriteRecord \/ ScriptDies PROVE TypeOK'
<1>1. CASE WriteRecord
  BY <1>1 DEF WriteRecord, Written, TypeOK
<1>2. CASE ScriptDies
  BY <1>2, NoRecordType DEF ScriptDies, TypeOK, Signatures
<1> QED
  BY <1>1, <1>2

LEMMA TickKeeps == ASSUME TypeOK, Tick PROVE TypeOK'
<1>1. /\ lapse' \in [Watched -> Nat \cup {NULL}]
      /\ \A s \in Watched : lapse'[s] # NULL => lapse'[s] <= Horizon(s)
  <2>1. ASSUME NEW s \in Watched PROVE Older(lapse[s], Horizon(s)) \in 0 .. Horizon(s) \cup {NULL}
    <3>1. Horizon(s) \in Nat
      BY HorizonIsNat
    <3>2. lapse[s] \in 0 .. Horizon(s) \cup {NULL}
      BY <3>1 DEF TypeOK
    <3> QED
      BY <3>1, <3>2, OlderStays
  <2>2. \A s \in Watched : Horizon(s) \in Nat
    BY HorizonIsNat
  <2> QED
    BY <2>1, <2>2 DEF Tick
<1>2. /\ estado.age \in 0 .. ReminderAfter /\ estado.age # NULL
      /\ said.age \in 0 .. ReminderAfter /\ said.age # NULL
      /\ ReminderAfter \in Nat
  BY SourceWatchAssumption DEF TypeOK
<1>3. /\ Older(estado.age, ReminderAfter) \in 0 .. ReminderAfter
      /\ Older(said.age, ReminderAfter) \in 0 .. ReminderAfter
  BY <1>2, OlderStays
<1>4. /\ estado' = [estado EXCEPT !.age = Older(@, ReminderAfter)]
      /\ said' = [said EXCEPT !.age = Older(@, ReminderAfter)]
      /\ UNCHANGED <<upstream, failures, api, record, told>>
  BY DEF Tick
<1>5. /\ estado' \in [firma : Signatures, age : 0 .. ReminderAfter]
      /\ said' \in [firma : Signatures, age : 0 .. ReminderAfter]
      /\ estado = said => estado' = said'
  BY <1>2, <1>3, <1>4 DEF TypeOK, Signatures
<1> QED
  BY <1>1, <1>4, <1>5 DEF TypeOK, Signatures

LEMMA SyncKeeps == ASSUME TypeOK, NEW s \in Watched, Sync(s) PROVE TypeOK'
<1>1. UNCHANGED <<upstream, api, estado, said, record, told>>
  BY DEF Sync, Succeeds, FailsRecorded, FailsUnrecorded, vars
<1>2. MaxFailures \in Nat /\ Older(failures[s], MaxFailures) \in 0 .. MaxFailures
  <2>1. failures[s] \in 0 .. MaxFailures /\ failures[s] # NULL /\ MaxFailures \in Nat
    BY SourceWatchAssumption DEF TypeOK
  <2> QED
    BY <2>1, OlderStays
<1>3. failures' \in [Watched -> 0 .. MaxFailures]
  BY <1>2 DEF Sync, Succeeds, FailsRecorded, FailsUnrecorded, vars, TypeOK
<1>4. /\ lapse' \in [Watched -> Nat \cup {NULL}]
      /\ \A r \in Watched : lapse'[r] # NULL => lapse'[r] <= Horizon(r)
  <2>1. /\ lapse \in [Watched -> Nat \cup {NULL}]
        /\ \A r \in Watched : Horizon(r) \in Nat /\ (lapse[r] # NULL => lapse[r] <= Horizon(r))
    BY HorizonIsNat DEF TypeOK
  <2>2. lapse' = lapse \/ lapse' = [lapse EXCEPT ![s] = 0]
    BY DEF Sync, Succeeds, FailsRecorded, FailsUnrecorded, vars
  <2> QED
    BY <2>1, <2>2
<1> QED
  BY <1>1, <1>3, <1>4 DEF TypeOK

LEMMA Inductive == ASSUME TypeOK, [Next]_vars PROVE TypeOK'
<1>1. CASE \E s \in Watched : Sync(s)
  BY <1>1, SyncKeeps
<1>2. CASE (\E s \in Watched : UpstreamTurns(s)) \/ ApiTurns
  <2>1. UNCHANGED <<lapse, failures, estado, said, record, told>>
    BY <1>2 DEF UpstreamTurns, ApiTurns
  <2>2. upstream' \in [Watched -> Upstreams]
    BY <1>2 DEF UpstreamTurns, ApiTurns, TypeOK
  <2>3. api' \in BOOLEAN
    BY <1>2 DEF UpstreamTurns, ApiTurns, TypeOK
  <2> QED
    BY <2>1, <2>2, <2>3 DEF TypeOK
<1>3. CASE \E sent \in BOOLEAN : Alert(sent)
  BY <1>3, AlertKeeps
<1>4. CASE Tick
  BY <1>4, TickKeeps
<1>5. CASE Silent \/ UNCHANGED vars
  BY <1>5 DEF Silent, vars, TypeOK
<1>6. CASE WriteRecord \/ ScriptDies
  BY <1>6, EndKeeps
<1> QED
  BY <1>1, <1>2, <1>3, <1>4, <1>5, <1>6 DEF Next

(* Types; and the state file, unless a script died before it wrote it, is the record of the last alert. *)
THEOREM TypeCorrect == Spec => []TypeOK
<1>1. Init => TypeOK
  BY Initially
<1>2. TypeOK /\ [Next]_vars => TypeOK'
  BY Inductive
<1> QED
  BY <1>1, <1>2, PTL DEF Spec

(***************************************************************************)
(* The operator is told a change of signature, or an episode still open    *)
(* after ReminderAfter, and nothing else but what a script that died left  *)
(* unrecorded, whatever the order of checks, lost notices, syncs and       *)
(* outages.                                                                *)
(***************************************************************************)
THEOREM SpeaksOnlyOfNews == Spec => OnlyNewsIsSent
<1> DEFINE A == record' = "unwritten" =>
                   \/ record = "lost"
                   \/ said'.firma # said.firma
                   \/ said.firma # {} /\ said.age >= ReminderAfter
<1>1. ASSUME TypeOK, Next PROVE A \/ UNCHANGED record
  <2>1. CASE \E sent \in BOOLEAN : Alert(sent)
    <3>1. Idle /\ News /\ said'.firma = Firma
      BY <2>1 DEF Alert
    <3>2. record = "lost" \/ estado = said
      BY <1>1, <3>1 DEF TypeOK, Idle
    <3> QED
      BY <3>1, <3>2 DEF News
  <2>2. CASE WriteRecord \/ ScriptDies
    BY <2>2 DEF WriteRecord, ScriptDies
  <2>3. CASE Tick \/ Silent \/ ApiTurns \/ (\E s \in Watched : Sync(s) \/ UpstreamTurns(s))
    BY <2>3 DEF Tick, Silent, ApiTurns, UpstreamTurns, Sync, Succeeds, FailsRecorded, FailsUnrecorded, vars
  <2> QED
    BY <1>1, <2>1, <2>2, <2>3 DEF Next
<1>2. TypeOK /\ [Next]_vars => [A]_record
  BY <1>1 DEF vars
<1> QED
  BY <1>2, TypeCorrect, PTL DEF Spec, OnlyNewsIsSent

=============================================================================
