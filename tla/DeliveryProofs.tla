--------------------------- MODULE DeliveryProofs ---------------------------
(***************************************************************************)
(* Delivery for any subscriptions, deliveries, backoffs and bounds.  The   *)
(* inductive invariant relates the run, which carries what it claimed and  *)
(* what it sent across two transactions, to rows that others change        *)
(* meanwhile.                                                              *)
(***************************************************************************)
EXTENDS Delivery, FiniteSetTheorems, TLAPS

Removed == {s \in Subscriptions : sub[s].status = "removed"}

(* The run holds only claims of its own, each sent once at most. *)
RunKnown ==
    /\ pc = "idle" => \A s \in Subscriptions : outcome[s] = NULL /\ claims[s] = {}
    /\ pc # "record" => \A s \in Subscriptions : loaded[s] = NULL
    /\ \A s \in Subscriptions : \A d \in claims[s] : SubscriptionOf[d] = s
    /\ \A i \in 1 .. Len(queue) : claims[queue[i]] # {} /\ outcome[queue[i]] = NULL
    /\ \A i, k \in 1 .. Len(queue) : i # k => queue[i] # queue[k]

(* A subscription that was never added has nothing. *)
AbsentIsBlank ==
    /\ \A s \in Subscriptions :
          sub[s].status = "absent" => claims[s] = {} /\ sub[s].last_sent = NULL
    /\ \A d \in Deliveries : delivery[d] # "absent" => sub[SubscriptionOf[d]].status # "absent"

(* A streak of failures began after the last success. *)
StreakOf(r) == r.failing # NULL /\ r.last_sent # NULL => r.last_sent >= r.failing

StreaksAfterSuccess ==
    \A s \in Subscriptions :
        /\ StreakOf(sub[s])
        /\ loaded[s] # NULL => StreakOf(loaded[s]) /\ sub[s].last_sent = loaded[s].last_sent

(* What the run has sent has arrived, and so has what it recorded. *)
SentArrived ==
    /\ \A s \in Subscriptions : outcome[s] = "sent" => \A d \in claims[s] : received[d] > 0
    /\ SentWasReceived

(***************************************************************************)
(* Where the one message more than the disturbances account for may be: in *)
(* a delivery that is settled, or one the run has sent and will record.    *)
(***************************************************************************)
Accounted(d) ==
    /\ received[d] <= 1 + Disturbances
    /\ delivery[d] \in {"absent", "matched", "pending"}
          => \/ received[d] <= Disturbances
             \/ outcome[SubscriptionOf[d]] = "sent" /\ d \in claims[SubscriptionOf[d]]
    /\ d \in claims[SubscriptionOf[d]] /\ outcome[SubscriptionOf[d]] # "sent"
          => received[d] <= Disturbances
    /\ d \in claims[SubscriptionOf[d]] /\ RowsMissing => received[d] <= Disturbances

AllAccounted == \A d \in Deliveries : Accounted(d)

(* Undisturbed, last_sent_at is no earlier than the last message, save one not recorded yet. *)
QuietSinceSent(s) ==
    IF sub[s].last_sent = NULL THEN quiet[s] >= Horizon ELSE quiet[s] >= sub[s].last_sent

SentOnRecord ==
    Disturbances = 0 =>
        /\ \A s \in Subscriptions : outcome[s] # "sent" => QuietSinceSent(s)
        /\ \A i \in 1 .. Len(queue) : sub[queue[i]].last_sent \in {NULL} \cup MinInterval .. Horizon

IInv ==
    /\ TypeOK
    /\ RunKnown
    /\ AbsentIsBlank
    /\ StreaksAfterSuccess
    /\ SentArrived
    /\ AllAccounted
    /\ SentOnRecord

Statuses == {"absent", "matched", "pending", "sent", "failed", "gone"}
Unsettled == {"absent", "matched", "pending"}

(***************************************************************************)
(* Helpers: constants, distances, and the count of disturbances.           *)
(***************************************************************************)
LEMMA HorizonIsNat ==
    /\ Horizon \in Nat /\ MinInterval \in 0 .. Horizon /\ PauseAfter \in 0 .. Horizon
    /\ NULL \notin 0 .. Horizon
  BY DeliveryAssumption DEF Horizon

LEMMA DisturbancesCount ==
    ASSUME TypeOK
    PROVE  /\ IsFiniteSet(Removed) /\ Cardinality(Removed) \in Nat
           /\ Disturbances = faults + Cardinality(Removed)
           /\ Disturbances \in Nat /\ faults \in Nat
           /\ Disturbances = 0 => faults = 0 /\ Removed = {}
<1>1. IsFiniteSet(Removed) /\ Cardinality(Removed) \in Nat
  BY DeliveryAssumption, FS_Subset, FS_CardinalityType DEF Removed
<1>2. Disturbances = faults + Cardinality(Removed)
  BY DEF Disturbances, Removed
<1>3. faults \in Nat
  BY DeliveryAssumption DEF TypeOK
<1>4. Cardinality(Removed) = 0 => Removed = {}
  BY <1>1, FS_EmptySet
<1> QED
  BY <1>1, <1>2, <1>3, <1>4

(* Disturbances move with the faults while nothing is removed. *)
LEMMA SameRemoved ==
    ASSUME \A s \in Subscriptions : sub'[s].status = "removed" <=> sub[s].status = "removed"
    PROVE  Removed' = Removed /\ Disturbances' = faults' + Cardinality(Removed)
<1>1. Removed' = Removed
  BY DEF Removed
<1>2. Disturbances' = faults' + Cardinality(Removed')
  BY DEF Disturbances, Removed
<1> QED
  BY <1>1, <1>2

LEMMA SameDisturbances ==
    ASSUME TypeOK, faults' = faults,
           \A s \in Subscriptions : sub'[s].status = "removed" <=> sub[s].status = "removed"
    PROVE  Disturbances' = Disturbances
  BY SameRemoved, DisturbancesCount

LEMMA FaultDisturbs ==
    ASSUME TypeOK, Fault,
           \A s \in Subscriptions : sub'[s].status = "removed" <=> sub[s].status = "removed"
    PROVE  Disturbances' = Disturbances + 1 /\ faults' \in 0 .. MaxFaults
<1>1. faults' = faults + 1 /\ faults' \in 0 .. MaxFaults
  BY DeliveryAssumption DEF Fault, TypeOK
<1> QED
  BY <1>1, SameRemoved, DisturbancesCount

LEMMA RemovalDisturbs ==
    ASSUME TypeOK, NEW s \in Subscriptions, faults' = faults, sub[s].status # "removed",
           \A r \in Subscriptions :
               sub'[r].status = "removed" <=> r = s \/ sub[r].status = "removed"
    PROVE  Disturbances' = Disturbances + 1
<1>1. Removed' = Removed \cup {s} /\ s \notin Removed
  BY DEF Removed
<1>2. Cardinality(Removed \cup {s}) = Cardinality(Removed) + 1
  BY <1>1, DisturbancesCount, FS_AddElement
<1>3. Disturbances' = faults' + Cardinality(Removed')
  BY DEF Disturbances, Removed
<1> QED
  BY <1>1, <1>2, <1>3, DisturbancesCount

LEMMA Initially == ASSUME Init PROVE IInv
<1>1. TypeOK
  BY DeliveryAssumption, HorizonIsNat DEF Init, TypeOK, Row, Fresh, Nobody
<1>2. Disturbances \in Nat
  BY <1>1, DisturbancesCount
<1>3. RunKnown /\ AbsentIsBlank /\ StreaksAfterSuccess
  BY DEF Init, RunKnown, AbsentIsBlank, StreaksAfterSuccess, StreakOf, Fresh, Nobody
<1>4. SentArrived /\ AllAccounted
  BY <1>2, DeliveryAssumption DEF Init, SentArrived, SentWasReceived, AllAccounted, Accounted, Nobody
<1>5. SentOnRecord
  BY HorizonIsNat, DeliveryAssumption DEF Init, SentOnRecord, QuietSinceSent, Fresh, Nobody
<1> QED
  BY <1>1, <1>3, <1>4, <1>5 DEF IInv

(***************************************************************************)
(* Steps of matching and of the operator leave the run alone.              *)
(***************************************************************************)
LEMMA RowsStep ==
    ASSUME IInv, UNCHANGED <<runVars, received, quiet, faults>>,
           sub' \in [Subscriptions -> Row], delivery' \in [Deliveries -> Statuses],
           orders' \in 0 .. MaxOrders,
           \A s \in Subscriptions :
               /\ sub'[s].last_sent = sub[s].last_sent
               /\ sub'[s].status = "absent" => sub[s].status = "absent"
               /\ StreakOf(sub'[s]),
           \A d \in Deliveries :
               /\ delivery'[d] \in Unsettled => delivery[d] \in Unsettled
               /\ delivery'[d] # "absent" => sub'[SubscriptionOf[d]].status # "absent"
               /\ delivery'[d] = "sent" => delivery[d] = "sent"
               /\ sub'[SubscriptionOf[d]].status \in {"absent", "removed"}
                     => delivery'[d] # "pending",
           \/ Disturbances' = Disturbances /\ (RowsMissing' => RowsMissing)
           \/ Disturbances' = Disturbances + 1
    PROVE  IInv'
<1>1. UNCHANGED <<pc, queue, claims, outcome, loaded, received, quiet, faults>>
  BY DEF runVars
<1>2. Disturbances \in Nat
  BY DisturbancesCount DEF IInv
<1>3. TypeOK'
  BY <1>1 DEF IInv, TypeOK, Statuses
<1>4. RunKnown'
  BY <1>1 DEF IInv, RunKnown
<1>5. AbsentIsBlank'
  BY <1>1 DEF IInv, AbsentIsBlank
<1>6. StreaksAfterSuccess'
  BY <1>1 DEF IInv, StreaksAfterSuccess, StreakOf
<1>7. SentArrived'
  BY <1>1 DEF IInv, SentArrived, SentWasReceived
<1>8. AllAccounted'
  <2> SUFFICES ASSUME NEW d \in Deliveries PROVE Accounted(d)'
    BY DEF AllAccounted
  <2>1. Accounted(d) /\ received[d] \in Nat
    BY DEF IInv, AllAccounted, TypeOK
  <2>2. /\ delivery'[d] \in {"absent", "matched", "pending"} => delivery[d] \in {"absent", "matched", "pending"}
    BY DEF Unsettled
  <2>3. CASE Disturbances' = Disturbances /\ (RowsMissing' => RowsMissing)
    BY <2>1, <2>2, <2>3, <1>1 DEF Accounted
  <2>4. CASE Disturbances' = Disturbances + 1
    BY <2>1, <2>2, <2>4, <1>1, <1>2 DEF Accounted
  <2> QED
    BY <2>3, <2>4
<1>9. SentOnRecord'
  <2>1. Disturbances' = 0 => Disturbances = 0
    BY <1>2
  <2>2. queue \in Seq(Subscriptions)
    BY DEF IInv, TypeOK
  <2> QED
    BY <1>1, <2>1, <2>2 DEF IInv, SentOnRecord, QuietSinceSent
<1> QED
  BY <1>3, <1>4, <1>5, <1>6, <1>7, <1>8, <1>9 DEF IInv

LEMMA MatchKeeps == ASSUME IInv, NEW d \in Deliveries, Match(d) PROVE IInv'
<1>1. /\ sub \in [Subscriptions -> Row] /\ delivery \in [Deliveries -> Statuses]
      /\ orders \in 0 .. MaxOrders
      /\ \A s \in Subscriptions : StreakOf(sub[s])
      /\ \A e \in Deliveries : /\ SubscriptionOf[e] \in Subscriptions
                               /\ delivery[e] # "absent" => sub[SubscriptionOf[e]].status # "absent"
                               /\ sub[SubscriptionOf[e]].status \in {"absent", "removed"}
                                     => delivery[e] # "pending"
  BY DeliveryAssumption DEF IInv, TypeOK, Statuses, StreaksAfterSuccess, AbsentIsBlank
<1>2. /\ delivery' = [delivery EXCEPT ![d] = "matched"] /\ delivery[d] = "absent"
      /\ sub[SubscriptionOf[d]].status = "active"
      /\ UNCHANGED <<sub, runVars, received, quiet, faults, orders>>
  BY DEF Match
<1>3. Disturbances' = Disturbances /\ (RowsMissing' => RowsMissing)
  BY <1>2 DEF Disturbances, RowsMissing, runVars
<1>4. delivery' \in [Deliveries -> Statuses]
  BY <1>1, <1>2 DEF Statuses
<1>5. \A e \in Deliveries :
          /\ delivery'[e] \in Unsettled => delivery[e] \in Unsettled
          /\ delivery'[e] # "absent" => sub'[SubscriptionOf[e]].status # "absent"
          /\ delivery'[e] = "sent" => delivery[e] = "sent"
          /\ sub'[SubscriptionOf[e]].status \in {"absent", "removed"} => delivery'[e] # "pending"
  BY <1>1, <1>2 DEF Unsettled
<1> QED
  BY <1>1, <1>2, <1>3, <1>4, <1>5, RowsStep

LEMMA AddDeliveryKeeps == ASSUME IInv, NEW d \in Deliveries, AddDelivery(d) PROVE IInv'
<1>1. /\ sub \in [Subscriptions -> Row] /\ delivery \in [Deliveries -> Statuses]
      /\ orders \in 0 .. MaxOrders
      /\ \A s \in Subscriptions : StreakOf(sub[s])
      /\ \A e \in Deliveries : /\ SubscriptionOf[e] \in Subscriptions
                               /\ delivery[e] # "absent" => sub[SubscriptionOf[e]].status # "absent"
                               /\ sub[SubscriptionOf[e]].status \in {"absent", "removed"}
                                     => delivery[e] # "pending"
  BY DeliveryAssumption DEF IInv, TypeOK, Statuses, StreaksAfterSuccess, AbsentIsBlank
<1>2. /\ delivery[d] = "matched"
      /\ \/ delivery' = [delivery EXCEPT ![d] = "pending"] /\ sub[SubscriptionOf[d]].status # "removed"
         \/ delivery' = [delivery EXCEPT ![d] = "absent"]
      /\ UNCHANGED <<sub, runVars, received, quiet, faults, orders>>
  BY DEF AddDelivery, Insertable
<1>3. Disturbances' = Disturbances /\ (RowsMissing' => RowsMissing)
  BY <1>2 DEF Disturbances, RowsMissing, runVars
<1>4. delivery' \in [Deliveries -> Statuses]
  BY <1>1, <1>2 DEF Statuses
<1>5. \A e \in Deliveries :
          /\ delivery'[e] \in Unsettled => delivery[e] \in Unsettled
          /\ delivery'[e] # "absent" => sub'[SubscriptionOf[e]].status # "absent"
          /\ delivery'[e] = "sent" => delivery[e] = "sent"
          /\ sub'[SubscriptionOf[e]].status \in {"absent", "removed"} => delivery'[e] # "pending"
  BY <1>1, <1>2 DEF Unsettled
<1> QED
  BY <1>1, <1>2, <1>3, <1>4, <1>5, RowsStep

(* An order changes one subscription, and settles what was pending in it or leaves it. *)
LEMMA OrderKeeps ==
    ASSUME IInv, NEW s \in Subscriptions, NEW row \in Row,
           sub' = [sub EXCEPT ![s] = row], row.last_sent = sub[s].last_sent, StreakOf(row),
           row.status # "absent",
           row.status = "removed" <=> sub[s].status = "removed",
           delivery' = delivery \/ delivery' = FailPending({s}),
           orders' \in 0 .. MaxOrders,
           UNCHANGED <<runVars, received, quiet, faults>>
    PROVE  IInv'
<1>1. /\ sub \in [Subscriptions -> Row] /\ delivery \in [Deliveries -> Statuses]
      /\ \A r \in Subscriptions : StreakOf(sub[r])
      /\ \A e \in Deliveries : /\ SubscriptionOf[e] \in Subscriptions
                               /\ delivery[e] # "absent" => sub[SubscriptionOf[e]].status # "absent"
                               /\ sub[SubscriptionOf[e]].status \in {"absent", "removed"}
                                     => delivery[e] # "pending"
  BY DeliveryAssumption DEF IInv, TypeOK, Statuses, StreaksAfterSuccess, AbsentIsBlank
<1>2. \A r \in Subscriptions : sub'[r] = IF r = s THEN row ELSE sub[r]
  BY <1>1
<1>3. \A r \in Subscriptions :
          /\ sub'[r].last_sent = sub[r].last_sent
          /\ sub'[r].status = "absent" => sub[r].status = "absent"
          /\ StreakOf(sub'[r])
          /\ sub'[r].status = "removed" <=> sub[r].status = "removed"
  BY <1>1, <1>2
<1>4. Disturbances' = Disturbances
  BY <1>3, SameDisturbances DEF IInv
<1>5. RowsMissing' => RowsMissing
  BY <1>3 DEF RowsMissing, runVars
<1>6. \A e \in Deliveries :
          delivery'[e] = delivery[e] \/ (delivery[e] = "pending" /\ delivery'[e] = "failed")
  BY DEF FailPending, Pending
<1>7. delivery' \in [Deliveries -> Statuses]
  BY <1>1, <1>6 DEF Statuses, FailPending
<1>8. sub' \in [Subscriptions -> Row]
  BY <1>1
<1>9. \A e \in Deliveries :
          /\ delivery'[e] \in Unsettled => delivery[e] \in Unsettled
          /\ delivery'[e] # "absent" => sub'[SubscriptionOf[e]].status # "absent"
          /\ delivery'[e] = "sent" => delivery[e] = "sent"
          /\ sub'[SubscriptionOf[e]].status \in {"absent", "removed"} => delivery'[e] # "pending"
  BY <1>1, <1>2, <1>3, <1>6 DEF Unsettled
<1> QED
  BY <1>3, <1>4, <1>5, <1>7, <1>8, <1>9, RowsStep

LEMMA AddKeeps == ASSUME IInv, NEW s \in Subscriptions, Add(s) PROVE IInv'
<1>1. Fresh \in Row /\ StreakOf(Fresh) /\ Fresh.last_sent = NULL /\ Fresh.status = "active"
  BY DeliveryAssumption DEF Fresh, Row, StreakOf
<1>2. sub[s].status = "absent" /\ sub[s].last_sent = NULL /\ orders \in 0 .. MaxOrders
  BY DEF Add, IInv, AbsentIsBlank, TypeOK
<1>3. sub' = [sub EXCEPT ![s] = Fresh] /\ UNCHANGED <<delivery, runVars, received, quiet, faults, orders>>
  BY DEF Add
<1> HIDE DEF Fresh
<1> QED
  BY <1>1, <1>2, <1>3, OrderKeeps

LEMMA PauseKeeps == ASSUME IInv, NEW s \in Subscriptions, Pause(s) PROVE IInv'
<1> DEFINE row == [sub[s] EXCEPT !.status = "paused"]
<1>1. sub[s] \in Row /\ sub[s].status \in {"active", "paused"} /\ StreakOf(sub[s])
  BY DEF Pause, IInv, TypeOK, StreaksAfterSuccess
<1>2. /\ row \in Row /\ row.status = "paused" /\ row.last_sent = sub[s].last_sent
      /\ StreakOf(row)
  BY <1>1 DEF Row, StreakOf
<1>3. /\ sub' = [sub EXCEPT ![s] = row] /\ delivery' = FailPending({s})
      /\ orders' \in 0 .. MaxOrders /\ UNCHANGED <<runVars, received, quiet, faults>>
  BY DeliveryAssumption DEF Pause, Order, IInv, TypeOK
<1> HIDE DEF row
<1> QED
  BY <1>1, <1>2, <1>3, OrderKeeps

LEMMA ResumeKeeps == ASSUME IInv, NEW s \in Subscriptions, Resume(s) PROVE IInv'
<1> DEFINE row == Resumed(sub[s])
<1>1. sub[s] \in Row /\ sub[s].status \in {"active", "paused"}
  BY DEF Resume, IInv, TypeOK
<1>2. /\ row \in Row /\ row.status = "active" /\ row.last_sent = sub[s].last_sent
      /\ StreakOf(row)
  BY <1>1, DeliveryAssumption DEF Row, StreakOf, Resumed, Fresh
<1>3. /\ sub' = [sub EXCEPT ![s] = row] /\ delivery' = delivery
      /\ orders' \in 0 .. MaxOrders /\ UNCHANGED <<runVars, received, quiet, faults>>
  BY DeliveryAssumption DEF Resume, Order, IInv, TypeOK
<1> HIDE DEF row
<1> QED
  BY <1>1, <1>2, <1>3, OrderKeeps

(* A removal counts as a disturbance, and takes the deliveries with it. *)
LEMMA RemoveKeeps == ASSUME IInv, NEW s \in Subscriptions, Remove(s) PROVE IInv'
<1>1. /\ sub \in [Subscriptions -> Row] /\ delivery \in [Deliveries -> Statuses]
      /\ \A r \in Subscriptions : StreakOf(sub[r])
      /\ \A e \in Deliveries : /\ SubscriptionOf[e] \in Subscriptions
                               /\ delivery[e] # "absent" => sub[SubscriptionOf[e]].status # "absent"
                               /\ sub[SubscriptionOf[e]].status \in {"absent", "removed"}
                                     => delivery[e] # "pending"
  BY DeliveryAssumption DEF IInv, TypeOK, Statuses, StreaksAfterSuccess, AbsentIsBlank
<1>2. \A r \in Subscriptions :
          /\ sub'[r].last_sent = sub[r].last_sent
          /\ sub'[r].failing = sub[r].failing
          /\ sub'[r].status = IF r = s THEN "removed" ELSE sub[r].status
  BY <1>1 DEF Remove, Row
<1>3. sub' \in [Subscriptions -> Row]
  BY <1>1 DEF Remove, Row
<1>4. sub[s].status # "removed" /\ faults' = faults /\ TypeOK
  BY DEF Remove, IInv
<1>5. Disturbances' = Disturbances + 1
  BY <1>2, <1>4, RemovalDisturbs
<1>6. \A r \in Subscriptions :
          /\ sub'[r].last_sent = sub[r].last_sent
          /\ sub'[r].status = "absent" => sub[r].status = "absent"
          /\ StreakOf(sub'[r])
  BY <1>1, <1>2 DEF StreakOf
<1>7. \A e \in Deliveries :
          delivery'[e] = IF SubscriptionOf[e] = s /\ delivery[e] \in {"pending", "sent", "failed"}
                         THEN "gone" ELSE delivery[e]
  BY DEF Remove
<1>8. delivery' \in [Deliveries -> Statuses]
  BY <1>1 DEF Remove, Statuses
<1>9. \A e \in Deliveries :
          /\ delivery'[e] \in Unsettled => delivery[e] \in Unsettled
          /\ delivery'[e] # "absent" => sub'[SubscriptionOf[e]].status # "absent"
          /\ delivery'[e] = "sent" => delivery[e] = "sent"
          /\ sub'[SubscriptionOf[e]].status \in {"absent", "removed"} => delivery'[e] # "pending"
  BY <1>1, <1>2, <1>7 DEF Unsettled
<1>10. orders' \in 0 .. MaxOrders /\ UNCHANGED <<runVars, received, quiet, faults>>
  BY DeliveryAssumption DEF Remove, Order, IInv, TypeOK
<1> QED
  BY <1>3, <1>5, <1>6, <1>8, <1>9, <1>10, RowsStep

(***************************************************************************)
(* Steps of the run.                                                       *)
(***************************************************************************)
LEMMA ClaimKeeps == ASSUME IInv, Claim PROVE IInv'
<1>1. /\ sub \in [Subscriptions -> Row] /\ delivery \in [Deliveries -> Statuses]
      /\ received \in [Deliveries -> Nat] /\ Disturbances \in Nat
      /\ \A s \in Subscriptions : outcome[s] = NULL /\ claims[s] = {} /\ loaded[s] = NULL
      /\ \A d \in Deliveries : SubscriptionOf[d] \in Subscriptions
  BY DisturbancesCount, DeliveryAssumption DEF IInv, TypeOK, Statuses, RunKnown, Claim
<1>2. PICK q \in ClaimLists :
          /\ queue' = q
          /\ claims' = [s \in Subscriptions |->
                  IF s \in {q[i] : i \in DOMAIN q} THEN ClaimedDeliveries(s) ELSE {}]
          /\ sub' = [s \in Subscriptions |->
                  IF s \in {q[i] : i \in DOMAIN q}
                  THEN [sub[s] EXCEPT !.retry_in = Backoff[sub[s].consecutive_failures]]
                  ELSE sub[s]]
  BY DEF Claim
<1>3. /\ pc' = "send"
      /\ UNCHANGED <<delivery, outcome, loaded, received, quiet, faults, orders>>
  BY DEF Claim
<1>4. q \in Seq(Claimable) /\ DOMAIN q = 1 .. Len(q)
      /\ \A i, k \in DOMAIN q : i # k => q[i] # q[k]
  <2>1. IsFiniteSet(Claimable) /\ Cardinality(Claimable) \in Nat
    BY DeliveryAssumption, FS_Subset, FS_CardinalityType DEF Claimable
  <2>2. PICK n \in 0 .. Cardinality(Claimable) : q \in [1 .. n -> Claimable]
    BY DEF ClaimLists
  <2>3. n \in Nat
    BY <2>1
  <2>4. q \in Seq(Claimable) /\ DOMAIN q = 1 .. Len(q)
    BY <2>2, <2>3
  <2>5. \A i, k \in DOMAIN q : i < k => q[i] # q[k]
    BY DEF ClaimLists
  <2> QED
    BY <2>4, <2>5
<1>5. \A i \in DOMAIN q : q[i] \in Claimable
  BY <1>4
<1>6. \A s \in Claimable : /\ s \in Subscriptions /\ sub[s].status = "active" /\ Pending(s) # {}
                           /\ sub[s].last_sent \in {NULL} \cup MinInterval .. Horizon
  BY DEF Claimable
<1>7. \A s \in Subscriptions :
          /\ sub'[s] \in Row
          /\ sub'[s].status = sub[s].status /\ sub'[s].last_sent = sub[s].last_sent
          /\ sub'[s].failing = sub[s].failing
  BY <1>1, <1>2, DeliveryAssumption DEF Row
<1>8. \A s \in Subscriptions :
          \/ claims'[s] = {}
          \/ claims'[s] = Pending(s) /\ sub[s].status = "active"
  BY <1>2, <1>5, <1>6 DEF ClaimedDeliveries
<1>9. \A i \in 1 .. Len(q) : q[i] \in Claimable /\ claims'[q[i]] = Pending(q[i])
  BY <1>2, <1>4, <1>5, <1>6 DEF ClaimedDeliveries
<1>10. Disturbances' = Disturbances
  BY <1>3, <1>7, SameDisturbances DEF IInv
<1>11. ~ RowsMissing'
  BY <1>1, <1>3 DEF RowsMissing
<1>12. TypeOK'
  <2>1. queue' \in Seq(Subscriptions)
    <3>1. Claimable \subseteq Subscriptions
      BY DEF Claimable
    <3> QED
      BY <1>2, <1>4, <3>1
  <2>2. claims' \in [Subscriptions -> SUBSET Deliveries]
    BY <1>2 DEF ClaimedDeliveries, Pending
  <2>3. sub' \in [Subscriptions -> Row]
    BY <1>2, <1>7
  <2> QED
    BY <1>1, <1>3, <1>7, <2>1, <2>2, <2>3 DEF IInv, TypeOK
<1>13. RunKnown'
  <2>1. \A s \in Subscriptions : \A d \in claims'[s] : SubscriptionOf[d] = s
    BY <1>8 DEF Pending
  <2>2. \A i \in 1 .. Len(q) : claims'[q[i]] # {} /\ outcome'[q[i]] = NULL
    BY <1>1, <1>3, <1>6, <1>9
  <2>3. \A i, k \in 1 .. Len(q) : i # k => q[i] # q[k]
    BY <1>4
  <2>4. queue' = q /\ pc' = "send" /\ \A s \in Subscriptions : loaded'[s] = NULL
    BY <1>1, <1>2, <1>3
  <2> QED
    BY <2>1, <2>2, <2>3, <2>4 DEF RunKnown
<1>14. AbsentIsBlank' /\ StreaksAfterSuccess'
  BY <1>1, <1>3, <1>7, <1>8 DEF IInv, AbsentIsBlank, StreaksAfterSuccess, StreakOf
<1>15. SentArrived'
  BY <1>1, <1>3, DeliveryAssumption DEF IInv, SentArrived, SentWasReceived
<1>16. AllAccounted'
  <2> SUFFICES ASSUME NEW d \in Deliveries PROVE Accounted(d)'
    BY DEF AllAccounted
  <2>1. /\ received[d] <= 1 + Disturbances
        /\ delivery[d] \in {"absent", "matched", "pending"} => received[d] <= Disturbances
    BY <1>1 DEF IInv, AllAccounted, Accounted
  <2>2. d \in claims'[SubscriptionOf[d]] => delivery[d] = "pending"
    BY <1>1, <1>8 DEF Pending
  <2> QED
    BY <1>3, <1>10, <1>11, <2>1, <2>2 DEF Accounted
<1>17. SentOnRecord'
  BY <1>1, <1>2, <1>3, <1>6, <1>7, <1>9, <1>10 DEF IInv, SentOnRecord, QuietSinceSent
<1> QED
  BY <1>12, <1>13, <1>14, <1>15, <1>16, <1>17 DEF IInv

(* One message is sent, tried or put off. *)
LEMMA SendStep ==
    ASSUME IInv, NEW result \in {"sent", "failed", "skipped"}, SendEnds(result),
           \/ result = "sent" /\ Arrives(Head(queue)) /\ UNCHANGED faults
           \/ result # "sent" /\ UNCHANGED <<received, quiet, faults>>
           \/ result # "sent" /\ Arrives(Head(queue)) /\ Fault
    PROVE  IInv'
<1> DEFINE s == Head(queue)
<1>1. /\ received \in [Deliveries -> Nat] /\ Disturbances \in Nat
      /\ outcome \in [Subscriptions -> {"sent", "failed", "skipped", NULL}]
      /\ quiet \in [Subscriptions -> 0 .. Horizon] /\ faults \in 0 .. MaxFaults
      /\ queue \in Seq(Subscriptions) /\ claims \in [Subscriptions -> SUBSET Deliveries]
      /\ \A d \in Deliveries : SubscriptionOf[d] \in Subscriptions
      /\ \A r \in Subscriptions : \A d \in claims[r] : SubscriptionOf[d] = r
  BY DisturbancesCount, DeliveryAssumption DEF IInv, TypeOK, RunKnown
<1>2. /\ queue # <<>> /\ pc = "send" /\ queue' = Tail(queue)
      /\ outcome' = [outcome EXCEPT ![s] = result]
      /\ UNCHANGED <<sub, delivery, pc, claims, loaded, orders>>
  BY DEF SendEnds
<1>3. /\ s = queue[1] /\ 1 \in 1 .. Len(queue) /\ s \in Subscriptions
      /\ Tail(queue) \in Seq(Subscriptions)
      /\ \A i \in 1 .. Len(Tail(queue)) :
            i + 1 \in 1 .. Len(queue) /\ i + 1 # 1 /\ Tail(queue)[i] = queue[i + 1]
  BY <1>1, <1>2
<1>4. /\ claims[s] # {} /\ outcome[s] = NULL
      /\ \A i \in 1 .. Len(Tail(queue)) : Tail(queue)[i] \in Subscriptions /\ Tail(queue)[i] # s
  BY <1>1, <1>3 DEF IInv, RunKnown
<1>5. \A r \in Subscriptions : outcome'[r] = IF r = s THEN result ELSE outcome[r]
  BY <1>1, <1>2, <1>3
<1>6. ~ RowsMissing'
  BY <1>2 DEF IInv, RunKnown, RowsMissing
<1>7. /\ faults' \in 0 .. MaxFaults
      /\ \/ Disturbances' = Disturbances /\ (result = "sent" \/ UNCHANGED <<received, quiet>>)
         \/ Disturbances' = Disturbances + 1
  <2>1. CASE faults' = faults /\ (result = "sent" \/ UNCHANGED <<received, quiet>>)
    BY <1>1, <1>2, <2>1, SameDisturbances DEF IInv
  <2>2. CASE Fault
    BY <1>2, <2>2, FaultDisturbs DEF IInv
  <2> QED
    BY <2>1, <2>2
<1>8. \/ UNCHANGED <<received, quiet>> /\ result # "sent"
      \/ /\ received' = [d \in Deliveries |-> IF d \in claims[s] THEN received[d] + 1 ELSE received[d]]
         /\ quiet' = [quiet EXCEPT ![s] = 0]
  BY DEF Arrives
<1>9. /\ received' \in [Deliveries -> Nat]
      /\ \A d \in Deliveries :
            /\ received'[d] >= received[d] /\ received'[d] <= received[d] + 1
            /\ d \notin claims[s] => received'[d] = received[d]
            /\ d \in claims[s] /\ result = "sent" => received'[d] > 0
  BY <1>1, <1>8
<1>10. quiet' \in [Subscriptions -> 0 .. Horizon] /\ \A r \in Subscriptions : r # s => quiet'[r] = quiet[r]
  BY <1>1, <1>8, HorizonIsNat
<1> HIDE DEF s
<1>11. TypeOK'
  <2>1. outcome' \in [Subscriptions -> {"sent", "failed", "skipped", NULL}]
    BY <1>1, <1>2
  <2>2. \A r \in Subscriptions : outcome'[r] # NULL => claims'[r] # {}
    BY <1>2, <1>4, <1>5 DEF IInv, TypeOK
  <2> QED
    BY <1>1, <1>2, <1>3, <1>7, <1>9, <1>10, <2>1, <2>2 DEF IInv, TypeOK
<1>12. RunKnown'
  <2>1. \A i, k \in 1 .. Len(Tail(queue)) : i # k => Tail(queue)[i] # Tail(queue)[k]
    BY <1>3 DEF IInv, RunKnown
  <2>2. \A i \in 1 .. Len(Tail(queue)) :
            claims'[Tail(queue)[i]] # {} /\ outcome'[Tail(queue)[i]] = NULL
    BY <1>2, <1>3, <1>4, <1>5 DEF IInv, RunKnown
  <2> QED
    BY <1>2, <2>1, <2>2 DEF IInv, RunKnown
<1>13. AbsentIsBlank' /\ StreaksAfterSuccess'
  BY <1>2 DEF IInv, AbsentIsBlank, StreaksAfterSuccess
<1>14. SentArrived'
  <2>1. \A r \in Subscriptions : outcome'[r] = "sent" => \A d \in claims'[r] : received'[d] > 0
    BY <1>1, <1>2, <1>5, <1>9 DEF IInv, SentArrived
  <2>2. \A d \in Deliveries : delivery'[d] = "sent" => received'[d] > 0
    BY <1>1, <1>2, <1>9 DEF IInv, SentArrived, SentWasReceived
  <2> QED
    BY <2>1, <2>2 DEF SentArrived, SentWasReceived
<1>15. AllAccounted'
  <2> SUFFICES ASSUME NEW d \in Deliveries PROVE Accounted(d)'
    BY DEF AllAccounted
  <2>1. Accounted(d) /\ received[d] \in Nat /\ received'[d] \in Nat
    BY <1>1, <1>9 DEF IInv, AllAccounted
  <2>2. CASE d \in claims[s]
    <3>1. SubscriptionOf[d] = s /\ received[d] <= Disturbances
      BY <1>1, <1>3, <1>4, <2>1, <2>2, DeliveryAssumption DEF Accounted
    <3> QED
      BY <3>1, <2>2, <2>1, <1>1, <1>2, <1>3, <1>5, <1>6, <1>7, <1>9 DEF Accounted
  <2>3. CASE d \notin claims[s]
    <3>1. received'[d] = received[d]
      BY <1>9, <2>3
    <3> QED
      BY <3>1, <2>3, <2>1, <1>1, <1>2, <1>5, <1>6, <1>7 DEF Accounted
  <2> QED
    BY <2>2, <2>3
<1>16. SentOnRecord'
  <2> SUFFICES ASSUME Disturbances' = 0
               PROVE  /\ \A r \in Subscriptions : outcome'[r] # "sent" => QuietSinceSent(r)'
                      /\ \A i \in 1 .. Len(Tail(queue)) :
                            sub[Tail(queue)[i]].last_sent \in {NULL} \cup MinInterval .. Horizon
    BY <1>2 DEF SentOnRecord
  <2>1. Disturbances = 0 /\ (result = "sent" \/ UNCHANGED <<received, quiet>>)
    BY <1>1, <1>7
  <2>2. \A r \in Subscriptions : outcome'[r] # "sent" => quiet'[r] = quiet[r] /\ outcome[r] # "sent"
    BY <1>4, <1>5, <1>10, <2>1, DeliveryAssumption
  <2>3. \A r \in Subscriptions : outcome'[r] # "sent" => QuietSinceSent(r)'
    BY <1>2, <2>1, <2>2 DEF IInv, SentOnRecord, QuietSinceSent
  <2>4. \A i \in 1 .. Len(Tail(queue)) :
            sub[Tail(queue)[i]].last_sent \in {NULL} \cup MinInterval .. Horizon
    BY <1>3, <2>1 DEF IInv, SentOnRecord
  <2> QED
    BY <2>3, <2>4
<1> QED
  BY <1>11, <1>12, <1>13, <1>14, <1>15, <1>16 DEF IInv

LEMMA SendsKeep == ASSUME IInv, Send \/ SendFails \/ SendSkipped PROVE IInv'
  BY SendStep DEF Send, SendFails, SendSkipped

(* mark_failed reads the rows: what it has read is what they are. *)
LEMMA BeginRecordKeeps == ASSUME IInv, BeginRecord PROVE IInv'
<1>1. /\ sub \in [Subscriptions -> Row]
      /\ pc = "send" /\ queue = <<>> /\ pc' = "record"
      /\ loaded' = [s \in Subscriptions |->
              IF outcome[s] = "failed" /\ sub[s].status # "removed" THEN sub[s] ELSE NULL]
      /\ UNCHANGED <<sub, delivery, queue, claims, outcome, received, quiet, faults, orders>>
  BY DEF BeginRecord, IInv, TypeOK
<1>2. Disturbances' = Disturbances
  BY <1>1 DEF Disturbances
<1>3. ~ RowsMissing'
  BY <1>1 DEF RowsMissing
<1>4. TypeOK' /\ RunKnown' /\ AbsentIsBlank'
  BY <1>1 DEF IInv, TypeOK, RunKnown, AbsentIsBlank
<1>5. StreaksAfterSuccess'
  BY <1>1 DEF IInv, StreaksAfterSuccess, StreakOf
<1>6. SentArrived' /\ SentOnRecord'
  BY <1>1, <1>2 DEF IInv, SentArrived, SentWasReceived, SentOnRecord, QuietSinceSent
<1>7. AllAccounted'
  BY <1>1, <1>2, <1>3 DEF IInv, AllAccounted, Accounted
<1> QED
  BY <1>4, <1>5, <1>6, <1>7 DEF IInv

(* The run is over; what it sent and did not record is accounted to a disturbance. *)
LEMMA RunLeft ==
    ASSUME IInv, LeaveRun,
           sub' \in [Subscriptions -> Row], delivery' \in [Deliveries -> Statuses],
           UNCHANGED <<received, quiet, orders>>, faults' \in 0 .. MaxFaults,
           Disturbances' \in {Disturbances, Disturbances + 1},
           \A s \in Subscriptions :
               /\ StreakOf(sub'[s])
               /\ sub'[s].status = "absent" => sub'[s].last_sent = NULL,
           \A d \in Deliveries :
               /\ delivery'[d] # "absent" => sub'[SubscriptionOf[d]].status # "absent"
               /\ delivery'[d] = "sent" => received[d] > 0
               /\ sub'[SubscriptionOf[d]].status \in {"absent", "removed"}
                     => delivery'[d] # "pending"
               /\ delivery'[d] \in Unsettled => received[d] <= Disturbances',
           \A s \in Subscriptions :
               Disturbances' = 0 => QuietSinceSent(s)'
    PROVE  IInv'
<1>1. /\ pc' = "idle" /\ queue' = <<>>
      /\ \A s \in Subscriptions : claims'[s] = {} /\ outcome'[s] = NULL /\ loaded'[s] = NULL
      /\ claims' \in [Subscriptions -> SUBSET Deliveries]
      /\ outcome' \in [Subscriptions -> {"sent", "failed", "skipped", NULL}]
      /\ loaded' \in [Subscriptions -> Row \cup {NULL}]
      /\ queue' \in Seq(Subscriptions)
  BY DEF LeaveRun, Nobody
<1>2. Disturbances \in Nat
  BY DisturbancesCount DEF IInv
<1>3. TypeOK'
  BY <1>1 DEF IInv, TypeOK, Statuses
<1>4. RunKnown' /\ AbsentIsBlank' /\ StreaksAfterSuccess'
  BY <1>1 DEF RunKnown, AbsentIsBlank, StreaksAfterSuccess
<1>5. SentArrived'
  BY <1>1, DeliveryAssumption DEF SentArrived, SentWasReceived
<1>6. AllAccounted'
  <2> SUFFICES ASSUME NEW d \in Deliveries PROVE Accounted(d)'
    BY DEF AllAccounted
  <2>1. received[d] \in Nat /\ received[d] <= 1 + Disturbances /\ SubscriptionOf[d] \in Subscriptions
    BY DeliveryAssumption DEF IInv, AllAccounted, Accounted, TypeOK
  <2> QED
    BY <2>1, <1>1, <1>2 DEF Accounted, Unsettled
<1>7. SentOnRecord'
  BY <1>1 DEF SentOnRecord
<1> QED
  BY <1>3, <1>4, <1>5, <1>6, <1>7 DEF IInv

(* A record that fails had a removal before it, and an abort is a fault. *)
LEMMA RunLost == ASSUME IInv, RecordFails \/ Abort PROVE IInv'
<1>1. /\ sub \in [Subscriptions -> Row] /\ delivery \in [Deliveries -> Statuses]
      /\ received \in [Deliveries -> Nat] /\ faults \in 0 .. MaxFaults /\ Disturbances \in Nat
      /\ \A d \in Deliveries : SubscriptionOf[d] \in Subscriptions
  BY DisturbancesCount, DeliveryAssumption DEF IInv, TypeOK, Statuses
<1>2. LeaveRun /\ UNCHANGED <<sub, delivery, received, quiet, orders>>
  BY DEF RecordFails, Abort
<1>3. /\ Disturbances' \in {Disturbances, Disturbances + 1} /\ Disturbances' # 0
      /\ faults' \in 0 .. MaxFaults
      /\ Disturbances' = Disturbances + 1 \/ RowsMissing
  <2>1. CASE RecordFails
    <3>1. RowsMissing /\ faults' = faults
      BY <2>1 DEF RecordFails
    <3>2. Disturbances' = Disturbances
      BY <3>1, <1>2, SameDisturbances DEF IInv
    <3>3. Removed # {}
      BY <3>1 DEF RowsMissing, Removed
    <3> QED
      BY <3>1, <3>2, <3>3, <1>1, DisturbancesCount DEF IInv
  <2>2. CASE Abort
    BY <2>2, <1>1, <1>2, FaultDisturbs DEF Abort, IInv
  <2> QED
    BY <2>1, <2>2, <1>2 DEF RecordFails, Abort
<1>4. \A d \in Deliveries : delivery[d] \in Unsettled => received[d] <= Disturbances'
  <2> SUFFICES ASSUME NEW d \in Deliveries, delivery[d] \in Unsettled
               PROVE  received[d] <= Disturbances'
    OBVIOUS
  <2>1. Accounted(d) /\ received[d] \in Nat
    BY <1>1 DEF IInv, AllAccounted
  <2> QED
    BY <2>1, <1>1, <1>3 DEF Accounted, Unsettled
<1>5. \A s \in Subscriptions :
          /\ StreakOf(sub'[s])
          /\ sub'[s].status = "absent" => sub'[s].last_sent = NULL
  BY <1>2 DEF IInv, StreaksAfterSuccess, AbsentIsBlank
<1>6. \A d \in Deliveries :
          /\ delivery'[d] # "absent" => sub'[SubscriptionOf[d]].status # "absent"
          /\ delivery'[d] = "sent" => received[d] > 0
          /\ sub'[SubscriptionOf[d]].status \in {"absent", "removed"} => delivery'[d] # "pending"
          /\ delivery'[d] \in Unsettled => received[d] <= Disturbances'
  BY <1>1, <1>2, <1>4 DEF IInv, AbsentIsBlank, SentArrived, SentWasReceived, TypeOK
<1> QED
  BY <1>1, <1>2, <1>3, <1>5, <1>6, RunLeft

(* What the record makes of one subscription. *)
LEMMA RecordedRow ==
    ASSUME IInv, NEW s \in Subscriptions
    PROVE  /\ Recorded(s) \in Row
           /\ StreakOf(Recorded(s))
           /\ Recorded(s).status = "removed" <=> sub[s].status = "removed"
           /\ Recorded(s).status = "absent" => Recorded(s) = sub[s]
           /\ sub[s].status = "absent" => Recorded(s) = sub[s]
           /\ \/ Recorded(s).last_sent = sub[s].last_sent
              \/ outcome[s] = "sent" /\ Recorded(s).last_sent = 0
           /\ outcome[s] = "sent" /\ sub[s].status # "removed" => Recorded(s).last_sent = 0
           /\ sub[s].status = "active" /\ Recorded(s).status = "paused"
                 => sub[s].last_sent = NULL \/ sub[s].last_sent >= PauseAfter
<1> DEFINE r == sub[s]
           read == loaded[s]
<1>1. /\ r \in Row /\ read \in Row \cup {NULL} /\ StreakOf(r)
      /\ read # NULL => StreakOf(read) /\ r.last_sent = read.last_sent
      /\ r.status = "absent" => outcome[s] = NULL
  BY DEF IInv, TypeOK, StreaksAfterSuccess, AbsentIsBlank
<1>2. /\ Horizon \in Nat /\ PauseAfter \in Nat /\ Ceiling \in Nat /\ NULL \notin Int
      /\ NULL \notin {"sent", "failed", "skipped"}
  BY HorizonIsNat, DeliveryAssumption
<1>3. CASE r.status = "removed" \/ outcome[s] = NULL \/ (outcome[s] = "failed" /\ read = NULL)
  <2>1. Recorded(s) = r
    BY <1>2, <1>3 DEF Recorded
  <2> QED
    BY <2>1, <1>1, <1>2, <1>3
<1>4. CASE r.status # "removed" /\ outcome[s] = "sent"
  <2>1. Recorded(s) = MarkedSent(r)
    BY <1>4 DEF Recorded
  <2>2. /\ MarkedSent(r) \in Row /\ MarkedSent(r).status = r.status
        /\ MarkedSent(r).last_sent = 0 /\ MarkedSent(r).failing = NULL
    <3>1. /\ r \in Row /\ 0 \in Nat /\ 0 \in 0 .. Ceiling
          /\ 0 \in (0 .. Horizon) \cup {NULL} /\ NULL \in (0 .. Horizon) \cup {NULL}
      BY <1>1, <1>2
    <3> HIDE DEF r
    <3> QED
      BY <3>1 DEF MarkedSent, Row
  <2> QED
    BY <2>1, <2>2, <1>1, <1>2, <1>4 DEF StreakOf
<1>5. CASE r.status # "removed" /\ outcome[s] = "failed" /\ read # NULL
  <2>1. Recorded(s) = MarkedFailed(r, read)
    BY <1>5 DEF Recorded
  <2>2. read \in Row
    BY <1>1, <1>5
  <2>3. FailingSince(read) \in 0 .. Horizon
    BY <1>2, <2>2 DEF FailingSince, Row
  <2>4. /\ MarkedFailed(r, read) \in Row
        /\ MarkedFailed(r, read).last_sent = r.last_sent
        /\ MarkedFailed(r, read).failing
              = IF read.failing = FailingSince(read) THEN r.failing ELSE FailingSince(read)
        /\ MarkedFailed(r, read).status
              = IF GivesUp(read) /\ read.status # "paused" THEN "paused" ELSE r.status
    <3>1. Lesser(read.consecutive_failures + 1, Ceiling) \in 0 .. Ceiling
      BY <1>2, <2>2 DEF Lesser, Row
    <3> HIDE DEF r, read
    <3> QED
      BY <1>1, <2>3, <3>1 DEF MarkedFailed, Row
  <2>5. StreakOf(MarkedFailed(r, read))
    <3>1. read.failing # FailingSince(read) => FailingSince(read) = 0
      BY DEF FailingSince
    <3>2. r.last_sent # NULL => r.last_sent \in Nat
      BY <1>1, <1>2 DEF Row
    <3> QED
      BY <1>1, <2>4, <3>1, <3>2 DEF StreakOf
  <2>6. GivesUp(read) => r.last_sent = NULL \/ r.last_sent >= PauseAfter
    <3> SUFFICES ASSUME GivesUp(read), r.last_sent # NULL PROVE r.last_sent >= PauseAfter
      OBVIOUS
    <3>1. r.last_sent \in Nat /\ r.last_sent = read.last_sent
      BY <1>1, <1>2, <1>5 DEF Row
    <3>2. CASE read.failing = NULL
      BY <1>2, <3>1, <3>2 DEF GivesUp, FailingSince
    <3>3. CASE read.failing # NULL
      <4>1. read.failing \in Nat /\ read.failing >= PauseAfter /\ read.last_sent >= read.failing
        BY <1>1, <1>2, <1>5, <2>2, <3>1, <3>3 DEF GivesUp, FailingSince, StreakOf, Row
      <4> QED
        BY <1>2, <3>1, <4>1
    <3> QED
      BY <3>2, <3>3
  <2> QED
    BY <2>1, <2>4, <2>5, <2>6, <1>1, <1>2, <1>5
<1>6. CASE r.status # "removed" /\ outcome[s] = "skipped"
  <2>1. Recorded(s) = [r EXCEPT !.retry_in = 0]
    BY <1>6 DEF Recorded
  <2>2. /\ [r EXCEPT !.retry_in = 0] \in Row /\ Recorded(s).status = r.status
        /\ Recorded(s).last_sent = r.last_sent /\ Recorded(s).failing = r.failing
    BY <1>1, <2>1 DEF Row
  <2> QED
    BY <2>1, <2>2, <1>1, <1>2, <1>6 DEF StreakOf
<1>7. outcome[s] \in {"sent", "failed", "skipped", NULL}
  BY DEF IInv, TypeOK
<1> QED
  BY <1>3, <1>4, <1>5, <1>6, <1>7

LEMMA RecordKeeps == ASSUME IInv, Record PROVE IInv'
<1>1. /\ sub \in [Subscriptions -> Row] /\ delivery \in [Deliveries -> Statuses]
      /\ received \in [Deliveries -> Nat] /\ faults \in 0 .. MaxFaults /\ Disturbances \in Nat
      /\ \A d \in Deliveries : SubscriptionOf[d] \in Subscriptions
  BY DisturbancesCount, DeliveryAssumption DEF IInv, TypeOK, Statuses
<1>2. PICK purged \in SUBSET {d \in Deliveries : RecordedDeliveries[d] \in {"sent", "failed"}} :
          delivery' = [d \in Deliveries |-> IF d \in purged THEN "gone" ELSE RecordedDeliveries[d]]
  BY DEF Record
<1>3. /\ ~ RowsMissing /\ LeaveRun /\ UNCHANGED <<received, quiet, faults, orders>>
      /\ \A s \in Subscriptions : sub'[s] = Recorded(s)
      /\ sub' = [s \in Subscriptions |-> Recorded(s)]
  BY DEF Record
<1>4. \A s \in Subscriptions :
          /\ sub'[s] \in Row /\ StreakOf(sub'[s])
          /\ sub'[s].status = "removed" <=> sub[s].status = "removed"
          /\ sub'[s].status = "absent" <=> sub[s].status = "absent"
          /\ sub'[s].status = "absent" => sub'[s] = sub[s]
          /\ sub'[s].last_sent = sub[s].last_sent \/ (outcome[s] = "sent" /\ sub'[s].last_sent = 0)
          /\ outcome[s] = "sent" /\ sub[s].status # "removed" => sub'[s].last_sent = 0
  BY <1>3, RecordedRow
<1>5. Disturbances' = Disturbances
  BY <1>3, <1>4, SameDisturbances DEF IInv
<1>6. \A d \in Deliveries :
          \/ d \in SentNow /\ delivery'[d] \in {"sent", "gone"}
          \/ d \notin SentNow /\ delivery[d] = "pending" /\ delivery'[d] \in {"pending", "failed", "gone"}
          \/ d \notin SentNow /\ delivery[d] = "sent" /\ delivery'[d] \in {"sent", "gone"}
          \/ d \notin SentNow /\ delivery[d] = "failed" /\ delivery'[d] \in {"failed", "gone"}
          \/ d \notin SentNow /\ delivery[d] \in {"absent", "matched", "gone"} /\ delivery'[d] = delivery[d]
  <2> SUFFICES ASSUME NEW d \in Deliveries
               PROVE  \/ d \in SentNow /\ delivery'[d] \in {"sent", "gone"}
                      \/ d \notin SentNow /\ delivery[d] = "pending" /\ delivery'[d] \in {"pending", "failed", "gone"}
                      \/ d \notin SentNow /\ delivery[d] = "sent" /\ delivery'[d] \in {"sent", "gone"}
                      \/ d \notin SentNow /\ delivery[d] = "failed" /\ delivery'[d] \in {"failed", "gone"}
                      \/ d \notin SentNow /\ delivery[d] \in {"absent", "matched", "gone"} /\ delivery'[d] = delivery[d]
    OBVIOUS
  <2>1. delivery[d] \in Statuses
    BY <1>1
  <2>2. \/ delivery'[d] = "gone" /\ RecordedDeliveries[d] \in {"sent", "failed"}
        \/ delivery'[d] = RecordedDeliveries[d]
    BY <1>2
  <2>3. RecordedDeliveries[d] = IF d \in SentNow THEN "sent" ELSE FailPending(GivenUp)[d]
    BY DEF RecordedDeliveries
  <2>4. \/ FailPending(GivenUp)[d] = delivery[d]
        \/ FailPending(GivenUp)[d] = "failed" /\ delivery[d] = "pending"
    BY DEF FailPending, Pending
  <2> QED
    BY <2>1, <2>2, <2>3, <2>4 DEF Statuses
<1>7. \A d \in Deliveries : d \in SentNow =>
          /\ outcome[SubscriptionOf[d]] = "sent" /\ d \in claims[SubscriptionOf[d]]
          /\ received[d] > 0 /\ sub[SubscriptionOf[d]].status # "absent"
  BY <1>1 DEF SentNow, MarkedDeliveries, IInv, SentArrived, AbsentIsBlank
<1>8. delivery' \in [Deliveries -> Statuses]
  <2>1. \A d \in Deliveries : delivery'[d] \in Statuses
    BY <1>6 DEF Statuses
  <2> QED
    BY <2>1, <1>2
<1>9. \A d \in Deliveries :
          /\ delivery'[d] # "absent" => sub'[SubscriptionOf[d]].status # "absent"
          /\ delivery'[d] = "sent" => received[d] > 0
          /\ sub'[SubscriptionOf[d]].status \in {"absent", "removed"} => delivery'[d] # "pending"
  BY <1>1, <1>4, <1>6, <1>7 DEF IInv, AbsentIsBlank, SentArrived, SentWasReceived, TypeOK
<1>10. \A d \in Deliveries : delivery'[d] \in Unsettled => received[d] <= Disturbances'
  <2> SUFFICES ASSUME NEW d \in Deliveries, delivery'[d] \in Unsettled
               PROVE  received[d] <= Disturbances'
    OBVIOUS
  <2>1. d \notin SentNow /\ delivery[d] \in {"absent", "matched", "pending"}
    BY <1>6 DEF Unsettled
  <2>2. ~ (outcome[SubscriptionOf[d]] = "sent" /\ d \in claims[SubscriptionOf[d]])
    BY <2>1 DEF SentNow, MarkedDeliveries
  <2> QED
    BY <2>1, <2>2, <1>5 DEF IInv, AllAccounted, Accounted
<1>11. ASSUME NEW s \in Subscriptions, Disturbances' = 0 PROVE QuietSinceSent(s)'
  <2>1. Disturbances = 0 /\ sub[s].status # "removed"
    BY <1>5, <1>11, DisturbancesCount DEF IInv, Removed
  <2>2. CASE outcome[s] = "sent"
    <3>1. sub'[s].last_sent = 0 /\ quiet'[s] \in 0 .. Horizon
      BY <1>3, <1>4, <2>1, <2>2 DEF IInv, TypeOK
    <3> QED
      BY <3>1, DeliveryAssumption DEF QuietSinceSent
  <2>3. CASE outcome[s] # "sent"
    <3>1. sub'[s].last_sent = sub[s].last_sent /\ quiet'[s] = quiet[s] /\ QuietSinceSent(s)
      BY <1>3, <1>4, <2>1, <2>3 DEF IInv, SentOnRecord
    <3> QED
      BY <3>1 DEF QuietSinceSent
  <2> QED
    BY <2>2, <2>3
<1>12. \A s \in Subscriptions :
          /\ StreakOf(sub'[s])
          /\ sub'[s].status = "absent" => sub'[s].last_sent = NULL
  BY <1>4 DEF IInv, AbsentIsBlank
<1>13. sub' \in [Subscriptions -> Row] /\ faults' \in 0 .. MaxFaults
  BY <1>1, <1>3, <1>4
<1> QED
  BY <1>3, <1>5, <1>8, <1>9, <1>10, <1>11, <1>12, <1>13, RunLeft

(***************************************************************************)
(* Time passes: distances grow together, up to the Horizon.                *)
(***************************************************************************)
LEMMA AgedGrows ==
    ASSUME NEW x \in (0 .. Horizon) \cup {NULL}
    PROVE  /\ Aged(x) \in (0 .. Horizon) \cup {NULL}
           /\ Aged(x) = NULL <=> x = NULL
           /\ x # NULL => Aged(x) = IF x + 1 <= Horizon THEN x + 1 ELSE Horizon
  BY HorizonIsNat DEF Aged, Lesser

(* Growing together, distances keep their order and stay at least what they were. *)
LEMMA AgedKeepsOrder ==
    ASSUME NEW x \in 0 .. Horizon, NEW y \in 0 .. Horizon
    PROVE  /\ x >= y => Aged(x) >= Aged(y)
           /\ Aged(x) \in 0 .. Horizon /\ Aged(x) >= x
<1>1. /\ Horizon \in Nat /\ x # NULL /\ y # NULL
      /\ x \in (0 .. Horizon) \cup {NULL} /\ y \in (0 .. Horizon) \cup {NULL}
  BY HorizonIsNat
<1>2. /\ Aged(x) = IF x + 1 <= Horizon THEN x + 1 ELSE Horizon
      /\ Aged(y) = IF y + 1 <= Horizon THEN y + 1 ELSE Horizon
  BY <1>1, AgedGrows
<1> QED
  BY <1>1, <1>2

LEMMA TickKeeps == ASSUME IInv, Tick PROVE IInv'
<1>1. /\ sub \in [Subscriptions -> Row] /\ quiet \in [Subscriptions -> 0 .. Horizon]
      /\ Horizon \in Nat /\ MinInterval \in 0 .. Horizon /\ NULL \notin 0 .. Horizon
      /\ queue \in Seq(Subscriptions)
      /\ pc # "record" /\ \A s \in Subscriptions : loaded[s] = NULL
  BY HorizonIsNat DEF IInv, TypeOK, RunKnown, Tick
<1>2. /\ sub' = [s \in Subscriptions |->
              [sub[s] EXCEPT !.retry_in = IF @ > 0 THEN @ - 1 ELSE 0,
                             !.last_sent = Aged(@), !.failing = Aged(@)]]
      /\ quiet' = [s \in Subscriptions |-> Aged(quiet[s])]
      /\ UNCHANGED <<delivery, pc, queue, claims, outcome, loaded, received, faults, orders>>
  BY DEF Tick, runVars
<1>3. ASSUME NEW s \in Subscriptions
      PROVE  /\ sub'[s] \in Row
             /\ sub'[s].status = sub[s].status
             /\ sub'[s].last_sent = Aged(sub[s].last_sent)
             /\ sub'[s].failing = Aged(sub[s].failing)
             /\ sub[s].last_sent \in (0 .. Horizon) \cup {NULL}
             /\ sub[s].failing \in (0 .. Horizon) \cup {NULL}
  <2>1. /\ sub[s] \in Row /\ sub[s].retry_in \in Nat
        /\ sub[s].last_sent \in (0 .. Horizon) \cup {NULL}
        /\ sub[s].failing \in (0 .. Horizon) \cup {NULL}
    BY <1>1 DEF Row
  <2>2. /\ Aged(sub[s].last_sent) \in (0 .. Horizon) \cup {NULL}
        /\ Aged(sub[s].failing) \in (0 .. Horizon) \cup {NULL}
    BY <2>1, AgedGrows
  <2>3. (IF sub[s].retry_in > 0 THEN sub[s].retry_in - 1 ELSE 0) \in Nat
    BY <2>1
  <2> QED
    BY <1>2, <2>1, <2>2, <2>3 DEF Row
<1>4. ASSUME NEW s \in Subscriptions
      PROVE  /\ quiet'[s] \in 0 .. Horizon
             /\ quiet'[s] = IF quiet[s] + 1 <= Horizon THEN quiet[s] + 1 ELSE Horizon
  <2>1. quiet[s] \in 0 .. Horizon
    BY <1>1
  <2>2. quiet[s] \in (0 .. Horizon) \cup {NULL} /\ quiet[s] # NULL
    BY <1>1, <2>1
  <2> QED
    BY <1>2, <2>1, <2>2, AgedGrows
<1>5. Disturbances' = Disturbances
  BY <1>2, <1>3, SameDisturbances DEF IInv
<1>6. ~ RowsMissing'
  BY <1>1, <1>2 DEF RowsMissing
<1>7. TypeOK'
  <2>1. sub' \in [Subscriptions -> Row] /\ quiet' \in [Subscriptions -> 0 .. Horizon]
    BY <1>2, <1>3, <1>4
  <2> QED
    BY <2>1, <1>2, <1>3, DeliveryAssumption DEF IInv, TypeOK
<1>8. RunKnown' /\ SentArrived'
  BY <1>2 DEF IInv, RunKnown, SentArrived, SentWasReceived
<1>9. AbsentIsBlank'
  <2>1. \A s \in Subscriptions : sub[s].last_sent = NULL => sub'[s].last_sent = NULL
    BY <1>3, AgedGrows
  <2> QED
    BY <2>1, <1>2, <1>3, DeliveryAssumption DEF IInv, AbsentIsBlank
<1>10. StreaksAfterSuccess'
  <2> SUFFICES ASSUME NEW s \in Subscriptions PROVE StreakOf(sub'[s])
    BY <1>1, <1>2 DEF StreaksAfterSuccess
  <2>1. StreakOf(sub[s])
    BY DEF IInv, StreaksAfterSuccess
  <2>2. /\ sub[s].last_sent \in (0 .. Horizon) \cup {NULL}
        /\ sub[s].failing \in (0 .. Horizon) \cup {NULL}
        /\ sub'[s].last_sent = Aged(sub[s].last_sent)
        /\ sub'[s].failing = Aged(sub[s].failing)
    BY <1>3
  <2>3. /\ sub'[s].last_sent # NULL => sub[s].last_sent \in 0 .. Horizon
        /\ sub'[s].failing # NULL => sub[s].failing \in 0 .. Horizon
    BY <2>2, AgedGrows
  <2>4. CASE sub'[s].last_sent = NULL \/ sub'[s].failing = NULL
    BY <2>4 DEF StreakOf
  <2>5. CASE sub'[s].last_sent # NULL /\ sub'[s].failing # NULL
    <3>1. sub[s].last_sent # NULL /\ sub[s].failing # NULL
      BY <2>3, <2>5, <1>1
    <3>2. sub[s].last_sent >= sub[s].failing
      BY <2>1, <3>1 DEF StreakOf
    <3> QED
      BY <2>2, <2>3, <2>5, <3>2, AgedKeepsOrder DEF StreakOf
  <2> QED
    BY <2>4, <2>5
<1>11. AllAccounted'
  <2> SUFFICES ASSUME NEW d \in Deliveries PROVE Accounted(d)'
    BY DEF AllAccounted
  <2>1. Accounted(d)
    BY DEF IInv, AllAccounted
  <2> QED
    BY <2>1, <1>2, <1>5, <1>6 DEF Accounted
<1>12. SentOnRecord'
  <2> SUFFICES ASSUME Disturbances = 0
               PROVE  /\ \A s \in Subscriptions : outcome[s] # "sent" => QuietSinceSent(s)'
                      /\ \A i \in 1 .. Len(queue) :
                            sub'[queue[i]].last_sent \in {NULL} \cup MinInterval .. Horizon
    BY <1>2, <1>5 DEF SentOnRecord
  <2>1. ASSUME NEW s \in Subscriptions, QuietSinceSent(s) PROVE QuietSinceSent(s)'
    <3>1. quiet[s] \in 0 .. Horizon
      BY <1>1
    <3>2. CASE sub[s].last_sent = NULL
      <4>1. sub'[s].last_sent = NULL
        BY <3>2, <1>3, AgedGrows
      <4>2. quiet[s] >= Horizon
        BY <3>2, <2>1 DEF QuietSinceSent
      <4>3. quiet'[s] >= Horizon'
        <5> HIDE DEF Horizon
        <5>1. Horizon' = Horizon
          BY DEF Horizon
        <5> QED
          BY <4>2, <3>1, <1>1, <1>4, <5>1
      <4> QED
        BY <4>1, <4>3 DEF QuietSinceSent
    <3>3. CASE sub[s].last_sent # NULL
      <4>1. /\ sub[s].last_sent \in 0 .. Horizon /\ sub'[s].last_sent # NULL
            /\ sub'[s].last_sent
                  = IF sub[s].last_sent + 1 <= Horizon THEN sub[s].last_sent + 1 ELSE Horizon
        BY <3>3, <1>3, AgedGrows
      <4> QED
        BY <4>1, <3>1, <3>3, <2>1, <1>1, <1>4 DEF QuietSinceSent
    <3> QED
      BY <3>2, <3>3
  <2>2. ASSUME NEW s \in Subscriptions, sub[s].last_sent \in {NULL} \cup MinInterval .. Horizon
        PROVE  sub'[s].last_sent \in {NULL} \cup MinInterval .. Horizon
    <3>1. CASE sub[s].last_sent = NULL
      <4>1. sub'[s].last_sent = NULL
        BY <3>1, <1>3 DEF Aged
      <4> QED
        BY <4>1
    <3>2. CASE sub[s].last_sent \in MinInterval .. Horizon
      <4>1. sub[s].last_sent \in 0 .. Horizon /\ sub[s].last_sent >= MinInterval
        BY <3>2, <1>1
      <4>2. /\ Aged(sub[s].last_sent) \in 0 .. Horizon
            /\ Aged(sub[s].last_sent) >= sub[s].last_sent
        BY <4>1, AgedKeepsOrder
      <4>3. Aged(sub[s].last_sent) \in MinInterval .. Horizon
        BY <4>1, <4>2, <1>1
      <4> QED
        BY <4>3, <1>3
    <3> QED
      BY <2>2, <3>1, <3>2
  <2>3. \A i \in 1 .. Len(queue) : queue[i] \in Subscriptions
    BY <1>1
  <2> QED
    BY <2>1, <2>2, <2>3 DEF IInv, SentOnRecord
<1> QED
  BY <1>7, <1>8, <1>9, <1>10, <1>11, <1>12 DEF IInv

LEMMA Inductive == ASSUME IInv, [Next]_vars PROVE IInv'
<1>1. CASE \E d \in Deliveries : Match(d) \/ AddDelivery(d)
  BY <1>1, MatchKeeps, AddDeliveryKeeps
<1>2. CASE \E s \in Subscriptions : Add(s) \/ Pause(s) \/ Resume(s) \/ Remove(s)
  BY <1>2, AddKeeps, PauseKeeps, ResumeKeeps, RemoveKeeps
<1>3. CASE RunStep \/ Abort
  BY <1>3, ClaimKeeps, SendsKeep, BeginRecordKeeps, RecordKeeps, RunLost DEF RunStep
<1>4. CASE Tick
  BY <1>4, TickKeeps
<1>5. CASE UNCHANGED vars
  BY <1>5 DEF vars, runVars, IInv, TypeOK, RunKnown, AbsentIsBlank, StreaksAfterSuccess, StreakOf,
     SentArrived, SentWasReceived, AllAccounted, Accounted, Disturbances, RowsMissing, SentOnRecord,
     QuietSinceSent
<1> QED
  BY <1>1, <1>2, <1>3, <1>4, <1>5 DEF Next

LEMMA Invariance == Spec => []IInv
<1>1. Init => IInv
  BY Initially
<1>2. IInv /\ [Next]_vars => IInv'
  BY Inductive
<1> QED
  BY <1>1, <1>2, PTL DEF Spec

(***************************************************************************)
(* The variables keep their types; a claim with an outcome has deliveries, *)
(* and a subscription that is gone has nothing pending.                    *)
(***************************************************************************)
THEOREM TypeCorrect == Spec => []TypeOK
<1>1. IInv => TypeOK
  BY DEF IInv
<1> QED
  BY <1>1, Invariance, PTL

(***************************************************************************)
(* What is marked sent has arrived, whatever matching and the operator did *)
(* between the claim and the record (deliver.py 124-151).                  *)
(***************************************************************************)
THEOREM NothingSentInVain == Spec => []SentWasReceived
<1>1. IInv => SentWasReceived
  BY DEF IInv, SentArrived
<1> QED
  BY <1>1, Invariance, PTL

(***************************************************************************)
(* A delivery is repeated once at most for every aborted run, lost answer  *)
(* and removal, with any number of runs, orders and subscriptions.         *)
(***************************************************************************)
THEOREM RepeatsAreAccounted == Spec => []RepeatsAccounted
<1>1. IInv => RepeatsAccounted
  BY DEF IInv, AllAccounted, Accounted, RepeatsAccounted
<1> QED
  BY <1>1, Invariance, PTL

(***************************************************************************)
(* Undisturbed, two messages to a subscription are MinInterval apart, also *)
(* across pauses and resumes (ADR-0021).                                   *)
(***************************************************************************)
THEOREM MessagesAreApart == Spec => MessagesApart
<1> DEFINE A == \A s \in Subscriptions :
                   (\E d \in claims[s] : received'[d] # received[d]) /\ Disturbances' = 0
                       => quiet[s] >= MinInterval
<1>1. ASSUME IInv, [Next]_vars PROVE [A]_vars
  <2> SUFFICES ASSUME NEW s \in Subscriptions, NEW d \in claims[s], received'[d] # received[d],
                      Disturbances' = 0
               PROVE  quiet[s] >= MinInterval
    OBVIOUS
  <2>1. /\ queue \in Seq(Subscriptions) /\ claims \in [Subscriptions -> SUBSET Deliveries]
        /\ sub \in [Subscriptions -> Row] /\ d \in Deliveries
        /\ quiet \in [Subscriptions -> 0 .. Horizon] /\ SubscriptionOf[d] = s
    BY <1>1 DEF IInv, TypeOK, RunKnown
  <2>2. Send \/ SendFails
    BY <1>1 DEF Next, vars, Match, AddDelivery, Add, Pause, Resume, Remove, RunStep, Claim,
       SendSkipped, BeginRecord, Record, RecordFails, Abort, Tick
  <2>3. queue # <<>> /\ Arrives(Head(queue)) /\ sub' = sub
    BY <2>2 DEF Send, SendFails, SendEnds
  <2>4. Head(queue) = queue[1] /\ 1 \in 1 .. Len(queue) /\ queue[1] \in Subscriptions
    BY <2>1, <2>3
  <2>5. d \in claims[queue[1]]
    BY <2>1, <2>3, <2>4 DEF Arrives
  <2>6. queue[1] = s /\ outcome[s] = NULL
    BY <1>1, <2>1, <2>4, <2>5 DEF IInv, RunKnown
  <2>7. Disturbances = 0
    <3>1. Disturbances' = faults' + Cardinality(Removed)
      BY <2>3, SameRemoved
    <3>2. faults' = faults \/ faults' = faults + 1
      BY <2>2 DEF Send, SendFails, Fault
    <3> QED
      BY <1>1, <3>1, <3>2, DisturbancesCount DEF IInv
  <2>8. sub[s].last_sent \in {NULL} \cup MinInterval .. Horizon /\ QuietSinceSent(s)
    BY <1>1, <2>4, <2>6, <2>7, DeliveryAssumption DEF IInv, SentOnRecord
  <2> QED
    BY <2>1, <2>8, HorizonIsNat DEF QuietSinceSent
<1> QED
  BY <1>1, Invariance, PTL DEF Spec, MessagesApart

(***************************************************************************)
(* A run pauses a subscription only after PauseAfter without a message on  *)
(* record, though the operator may resume it in the middle of a record.    *)
(***************************************************************************)
THEOREM PausesAfterSilence == Spec => PausedAfterSilence
<1> DEFINE A == \A s \in Subscriptions :
                   (pc = "record" /\ pc' = "idle" /\ sub[s].status = "active" /\ sub'[s].status = "paused")
                       => sub[s].last_sent = NULL \/ sub[s].last_sent >= PauseAfter
<1>1. ASSUME IInv, [Next]_vars PROVE [A]_vars
  <2> SUFFICES ASSUME NEW s \in Subscriptions, pc = "record", pc' = "idle",
                      sub[s].status = "active", sub'[s].status = "paused"
               PROVE  sub[s].last_sent = NULL \/ sub[s].last_sent >= PauseAfter
    OBVIOUS
  <2>1. Record
    BY <1>1 DEF Next, vars, runVars, Match, AddDelivery, Add, Pause, Resume, Remove, RunStep, Claim,
       Send, SendFails, SendSkipped, SendEnds, BeginRecord, RecordFails, Abort, Tick
  <2>2. sub'[s] = Recorded(s)
    BY <2>1 DEF Record
  <2> QED
    BY <1>1, <2>2, RecordedRow
<1> QED
  BY <1>1, Invariance, PTL DEF Spec, PausedAfterSilence

=============================================================================
