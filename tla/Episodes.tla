------------------------------ MODULE Episodes ------------------------------
(***************************************************************************)
(* match_notifications: the batches of hazard_events crossed with one      *)
(* active subscription (notifications/use_cases/match_batch.py,            *)
(* services/episodes.py, repos/matching.py, repos/episode.py).  The outbox *)
(* dispatches an event late, out of order, more than once, and in two      *)
(* processes at a time after a broken connection; each dispatch is one     *)
(* transaction that reads the rows of the batch, locks the open episodes   *)
(* of their keys, and opens, escalates or touches.                         *)
(*                                                                         *)
(* A row belongs to the subscription: its area, types and severity_min are *)
(* taken as passed.  The items of a delivery, opened_at and               *)
(* last_matched_at are left out.                                           *)
(***************************************************************************)
EXTENDS Integers, Sequences, FiniteSets

CONSTANTS
    Ids,         \* external_id of the rows that match the subscription
    SourceOf,    \* SourceOf[id]: aemet, effis or ign
    Key,         \* Key[id]: episode_key
    Batches,     \* what a sync may write: functions from ids of one source to
                 \* [severity, ends_at], ends_at
    Severities,
    Grace,       \* NOTIFICATIONS_AEMET_EPISODE_GRACE_SECONDS
    QuakeMaxAge, \* NOTIFICATIONS_QUAKE_MAX_AGE_SECONDS
    Processes,   \* those that run a dispatch
    MaxTime,     \* bound: the instants of one behaviour, one batch in each
    CLOSED,      \* ends_at of a batch that closes the row
    NULL

Sources == {"aemet", "effis", "ign"}
Instants == 0 .. MaxTime
Keys == {Key[id] : id \in Ids}

ASSUME EpisodesAssumption ==
    /\ IsFiniteSet(Ids)
    /\ SourceOf \in [Ids -> Sources]
    /\ \A i, k \in Ids : Key[i] = Key[k] => i = k \/ SourceOf[i] = SourceOf[k]
    /\ \A i, k \in Ids : Key[i] = Key[k] => i = k \/ SourceOf[i] = "aemet"
    /\ Severities \subseteq 1 .. 4
    /\ Grace \in Nat
    /\ QuakeMaxAge \in Nat
    /\ MaxTime \in Nat
    /\ \A b \in Batches : DOMAIN b \subseteq Ids /\ \A id \in DOMAIN b :
        /\ b[id].severity \in Severities
        /\ b[id].ends_at \in Nat \cup {NULL, CLOSED}
        /\ SourceOf[id] = "aemet" => b[id].ends_at # NULL
    /\ NULL # CLOSED /\ {NULL, CLOSED} \cap Int = {}

VARIABLES
    now,        \* the clock
    rows,       \* hazard_events, from the ids present
    announced,  \* the outbox events: [source, batch_at]
    processed,  \* the events whose dispatch has committed once
    episodes,   \* episodes[k]: the episodes of key k, oldest first
    pc,         \* where the dispatch of each process is
    event,      \* event[p]: the event p dispatches, or NULL
    groups,     \* groups[p]: what p has matched, by key
    read_at,    \* read_at[p]: when p matched
    open        \* open[p]: the open episodes p read and locked, by key

dispatchVars == <<pc, event, groups, read_at, open>>
vars == <<now, rows, announced, processed, episodes, dispatchVars>>

Nothing == [k \in {} |-> NULL]

Row == [severity : Severities, starts_at : Instants, ends_at : Nat \cup {NULL},
        created_at : Instants, updated_at : Instants \cup {NULL}]
Event == [source : Sources, batch_at : Instants]
Episode == [notified_severity : Severities, expires_at : Nat \cup {NULL},
            closed : BOOLEAN, delivered : SUBSET Severities]
Group == [severity : Severities, expires_at : Nat \cup {NULL}]

IsMap(f, S, T) == DOMAIN f \subseteq S /\ f \in [DOMAIN f -> T]

TypeOK ==
    /\ now \in Instants
    /\ IsMap(rows, Ids, Row)
    /\ announced \subseteq Event
    /\ processed \subseteq announced
    /\ episodes \in [Keys -> Seq(Episode)]
    /\ pc \in [Processes -> {"idle", "matched", "locked"}]
    /\ event \in [Processes -> Event \cup {NULL}]
    /\ \A p \in Processes : IsMap(groups[p], Keys, Group)
    /\ read_at \in [Processes -> Instants]
    /\ \A p \in Processes : IsMap(open[p], DOMAIN groups[p], Episode)
    /\ \A k \in Keys, i \in 1 .. 2 * MaxTime :
        i < Len(episodes[k]) => episodes[k][i].closed

Init ==
    /\ now = 0
    /\ rows = Nothing
    /\ announced = {}
    /\ processed = {}
    /\ episodes = [k \in Keys |-> <<>>]
    /\ pc = [p \in Processes |-> "idle"]
    /\ event = [p \in Processes |-> NULL]
    /\ groups = [p \in Processes |-> Nothing]
    /\ read_at = [p \in Processes |-> 0]
    /\ open = [p \in Processes |-> Nothing]

(***************************************************************************)
(* A sync commits a batch with its event; AemetSync and EffisSync say      *)
(* which.  A close of an id the table lacks writes nothing.                *)
(***************************************************************************)
Written(b, id) ==
    [severity |-> b[id].severity,
     starts_at |-> IF id \in DOMAIN rows THEN rows[id].starts_at ELSE now,
     ends_at |-> IF b[id].ends_at = CLOSED THEN now ELSE b[id].ends_at,
     created_at |-> IF id \in DOMAIN rows THEN rows[id].created_at ELSE now,
     updated_at |-> IF id \in DOMAIN rows THEN now ELSE NULL]

Ingest(b) ==
    /\ \A e \in announced : e.batch_at # now
    /\ \A id \in DOMAIN b : b[id].ends_at = CLOSED =>
        id \in DOMAIN rows /\ b[id].severity = rows[id].severity
    /\ rows' = [id \in DOMAIN rows \cup DOMAIN b |->
            IF id \in DOMAIN b THEN Written(b, id) ELSE rows[id]]
    /\ announced' = announced \cup {[source |-> SourceOf[id], batch_at |-> now] : id \in DOMAIN b}
    /\ UNCHANGED <<now, processed, episodes, dispatchVars>>

(***************************************************************************)
(* matches: the rows of the batch that may notify, in groups.              *)
(***************************************************************************)
\* Mutant: the rows the batch inserted.
OfBatchInserted(id, e) == rows[id].created_at = e.batch_at

OfBatch(id, e) == e.batch_at \in {rows[id].created_at, rows[id].updated_at}

Notifiable(id, batch_at) ==
    CASE SourceOf[id] = "aemet" -> rows[id].ends_at > batch_at
      [] SourceOf[id] = "effis" -> rows[id].ends_at = NULL
      [] SourceOf[id] = "ign" -> rows[id].starts_at >= batch_at - QuakeMaxAge

Matches(e) ==
    {id \in DOMAIN rows :
        SourceOf[id] = e.source /\ OfBatch(id, e) /\ Notifiable(id, e.batch_at)}

Greatest(S) == CHOOSE x \in S : \A y \in S : y <= x

Grouped(ids) ==
    [k \in {Key[id] : id \in ids} |->
        LET group == {id \in ids : Key[id] = k}
        IN  [severity |-> Greatest({rows[id].severity : id \in group}),
             expires_at |-> IF \A id \in group : SourceOf[id] = "aemet"
                            THEN Greatest({rows[id].ends_at : id \in group}) ELSE NULL]]

Match(p, e) ==
    /\ pc[p] = "idle"
    /\ e \in announced
    /\ pc' = [pc EXCEPT ![p] = "matched"]
    /\ event' = [event EXCEPT ![p] = e]
    /\ groups' = [groups EXCEPT ![p] = Grouped(Matches(e))]
    /\ read_at' = [read_at EXCEPT ![p] = now]
    /\ UNCHANGED <<now, rows, announced, processed, episodes, open>>

(***************************************************************************)
(* open_episodes: FOR UPDATE waits for who holds one of the keys.          *)
(***************************************************************************)
OpenEpisodes(keys) ==
    [k \in {k \in keys : episodes[k] # <<>> /\ ~ episodes[k][Len(episodes[k])].closed} |->
        episodes[k][Len(episodes[k])]]

\* Mutant: without FOR UPDATE.
FreeAlways(p) == TRUE

Free(p) ==
    \A q \in Processes \ {p} : DOMAIN open[q] \cap DOMAIN groups[p] = {}

Lock(p) ==
    /\ pc[p] = "matched"
    /\ Free(p)
    /\ open' = [open EXCEPT ![p] = OpenEpisodes(DOMAIN groups[p])]
    /\ pc' = [pc EXCEPT ![p] = "locked"]
    /\ UNCHANGED <<now, rows, announced, processed, episodes, event, groups, read_at>>

(***************************************************************************)
(* decide, and what each decision writes.                                  *)
(***************************************************************************)
\* Mutant: without the grace.
IsCurrentToTheDot(ep, batch_at) == ep.expires_at = NULL \/ ep.expires_at > batch_at

IsCurrent(ep, batch_at) == ep.expires_at = NULL \/ ep.expires_at + Grace > batch_at

Current(p, k) == k \in DOMAIN open[p] /\ IsCurrent(open[p][k], event[p].batch_at)

Escalates(p, k) == groups[p][k].severity > open[p][k].notified_severity

\* Mutant: the expiry of the last batch, without greatest().
LaterLast(x, y) == y

Later(x, y) == IF y = NULL \/ x >= y THEN x ELSE y

Refreshed(ep, severity, expires_at) ==
    [ep EXCEPT !.notified_severity = Greatest({@, severity}),
               !.expires_at = Later(@, expires_at)]

Touched(p, k) ==
    Refreshed(episodes[k][Len(episodes[k])],
              open[p][k].notified_severity, groups[p][k].expires_at)

Escalated(p, k) ==
    [Refreshed(episodes[k][Len(episodes[k])], groups[p][k].severity, groups[p][k].expires_at)
        EXCEPT !.delivered = @ \cup {groups[p][k].severity}]

Opened(g) == [notified_severity |-> g.severity, expires_at |-> g.expires_at,
              closed |-> FALSE, delivered |-> {g.severity}]

\* Mutant: the stale episode is left open.
ClosedNot(eps) == eps

Closed(eps) == [eps EXCEPT ![Len(eps)].closed = TRUE]

After(p, k) ==
    IF Current(p, k)
    THEN [episodes[k] EXCEPT ![Len(episodes[k])] =
            IF Escalates(p, k) THEN Escalated(p, k) ELSE Touched(p, k)]
    ELSE Append(IF k \in DOMAIN open[p] THEN Closed(episodes[k]) ELSE episodes[k],
                Opened(groups[p][k]))

Leave(p) ==
    /\ pc' = [pc EXCEPT ![p] = "idle"]
    /\ event' = [event EXCEPT ![p] = NULL]
    /\ groups' = [groups EXCEPT ![p] = Nothing]
    /\ read_at' = [read_at EXCEPT ![p] = 0]
    /\ open' = [open EXCEPT ![p] = Nothing]

(* Someone opened one of the keys since the SELECT: the unique index says so. *)
OpenedConcurrently(p) ==
    DOMAIN OpenEpisodes(DOMAIN groups[p]) \ DOMAIN open[p] # {}

Commit(p) ==
    /\ pc[p] = "locked"
    /\ ~ OpenedConcurrently(p)
    /\ episodes' = [k \in Keys |-> IF k \in DOMAIN groups[p] THEN After(p, k) ELSE episodes[k]]
    /\ processed' = processed \cup {event[p]}
    /\ Leave(p)
    /\ UNCHANGED <<now, rows, announced>>

(* The RuntimeError of a concurrent open, or any failure: the outbox retries. *)
RollBack(p) ==
    /\ pc[p] # "idle"
    /\ Leave(p)
    /\ UNCHANGED <<now, rows, announced, processed, episodes>>

Tick ==
    /\ now < MaxTime
    /\ now' = now + 1
    /\ UNCHANGED <<rows, announced, processed, episodes, dispatchVars>>

Next ==
    \/ \E b \in Batches : Ingest(b)
    \/ \E p \in Processes :
        \/ \E e \in announced : Match(p, e)
        \/ Lock(p) \/ Commit(p) \/ RollBack(p)
    \/ Tick

Spec == Init /\ [][Next]_vars
-----------------------------------------------------------------------------
(***************************************************************************)
(* Properties                                                              *)
(***************************************************************************)

WrittenBy(id, e) ==
    /\ SourceOf[id] = e.source
    /\ e.batch_at = IF rows[id].updated_at = NULL THEN rows[id].created_at
                                                  ELSE rows[id].updated_at

(***************************************************************************)
(* Nothing is missed: once the event of the batch that last wrote a row is *)
(* processed, an episode that lasts as long as the row has notified its    *)
(* severity or a higher one, in whatever order and however often the       *)
(* events were dispatched (match_batch.py 49-109).                         *)
(***************************************************************************)
WhatMattersIsNotified ==
    \A e \in processed : \A id \in DOMAIN rows :
        (WrittenBy(id, e) /\ Notifiable(id, e.batch_at)) =>
            \E i \in DOMAIN episodes[Key[id]] :
                LET ep == episodes[Key[id]][i]
                IN  /\ \E s \in ep.delivered : s >= rows[id].severity
                    /\ SourceOf[id] = "aemet" => ep.expires_at >= rows[id].ends_at

(***************************************************************************)
(* No spam: inside an episode every notice is of a higher severity than    *)
(* all that went before, also when two processes match at the same time    *)
(* (episodes.py 45-52, episode.py 20-44).                                  *)
(***************************************************************************)
NoticesRise ==
    [][\A k \in Keys : \A i \in DOMAIN episodes[k] :
        \A s \in episodes'[k][i].delivered \ episodes[k][i].delivered :
            \A t \in episodes[k][i].delivered : s > t]_vars

(***************************************************************************)
(* An episode covers a phenomenon once: a new one opens only when the one  *)
(* before had expired, grace included, at the mark of a batch (ADR-0021).  *)
(***************************************************************************)
EpisodesFollowExpiry ==
    [][\A k \in Keys :
        (Len(episodes'[k]) > Len(episodes[k]) /\ episodes[k] # <<>>) =>
            \E e \in announced :
                LET last == episodes[k][Len(episodes[k])]
                IN  last.expires_at # NULL /\ last.expires_at + Grace <= e.batch_at]_vars

(***************************************************************************)
(* "matching is idempotent, so a late retry of the older event is          *)
(* harmless" (docs/adr/0021): what a dispatch notifies was not over when   *)
(* it matched.                                                             *)
(***************************************************************************)
LateRetryIsHarmless ==
    [][\A p \in Processes, k \in Keys :
        (k \in DOMAIN groups[p] /\ k \notin DOMAIN groups'[p] /\ episodes'[k] # episodes[k])
            => LET before == IF Len(episodes'[k]) = Len(episodes[k])
                             THEN episodes[k][Len(episodes[k])].delivered ELSE {}
               IN  episodes'[k][Len(episodes'[k])].delivered # before =>
                       groups[p][k].expires_at = NULL \/ groups[p][k].expires_at > read_at[p]]_vars
=============================================================================
