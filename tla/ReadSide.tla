------------------------------ MODULE ReadSide ------------------------------
(***************************************************************************)
(* The two planes that read the events.  The events API answers from the   *)
(* table; the analytics plane from one file per source, which the handler  *)
(* export_geoparquet of the event hazards.batch_ingested rewrites whole.   *)
(* Writers, analytics clients and a client that pages through a listing    *)
(* run against a table that goes on changing.                              *)
(*                                                                         *)
(* An attempt at an event (outbox: row lock, retries, backoff) is here     *)
(* what it does to the file; an event that failed comes back after its     *)
(* backoff, so that events are taken in any order.                         *)
(***************************************************************************)
EXTENDS EventQueries, HistoryQueries

CONSTANTS
    Workers,          \* processes that run the outbox worker
    Clients,          \* of the analytics plane
    Requests,         \* [route, and its parameters]
    Questions,        \* parameters of GET /events for a first page: no cursor, or a broken one
    MaxConcurrency,   \* ANALYTICS_MAX_CONCURRENCY
    Start,            \* the instant of the first state
    Scenes,           \* the workers and clients that run together, whether a listing does,
                      \* and the last instant: [workers, clients, lists, until]
    MaxFaults, MaxRequests   \* bounds

Parameters ==
    {"hazard_types", "source", "severity_min", "starts_after", "starts_before", "active",
     "bbox", "province", "limit", "cursor"}

ASSUME ReadSideAssumption ==
    /\ MaxConcurrency \in Nat \ {0} /\ Start \in Nat
    /\ IsFiniteSet(Clients)
    /\ \A s \in Sources : Len(Versions[s]) \in Nat
    /\ \A x \in Scenes : x.until \in Nat /\ x.until >= Start
    /\ \A p \in Questions :
          /\ p = [k \in Parameters |-> p[k]]
          /\ Given(p.cursor) => DecodeError(p.cursor) # "none"

VARIABLES
    scene,
    now,
    version,    \* source -> batches applied to the table
    todo,       \* source -> the batches whose event is pending
    handled,    \* source -> the last batch whose event was processed
    file,       \* source -> the version in its snapshot, 0 for no file
    blurred,    \* sources whose file was last replaced by one of several writes at a time
    hand,       \* worker -> the event it handles
    threads,    \* worker -> its writes that no handler waits for any more
    request,    \* client -> its request
    free,       \* slots of the limiter
    listing,    \* the listing of the client of the events API
    asked,      \* client -> requests made
    faults

readers == <<request, free, asked>>
writers == <<todo, handled, file, blurred, hand, threads>>
vars == <<scene, now, version, writers, readers, listing, faults>>

Idle == [phase |-> "idle"]
Gone(phase) == [phase |-> phase, left |-> <<>>, seen |-> {}, floor |-> [s \in Sources |-> 0]]
NoListing == [phase |-> "none"]

Init ==
    /\ scene \in Scenes
    /\ now = Start
    /\ version = [s \in Sources |-> 0]
    /\ todo = [s \in Sources |-> {}]
    /\ handled = [s \in Sources |-> 0]
    /\ file = [s \in Sources |-> 0]
    /\ blurred = {}
    /\ hand = [w \in Workers |-> Idle]
    /\ threads = [w \in Workers |-> {}]
    /\ request = [c \in Clients |-> Gone("none")]
    /\ free = MaxConcurrency
    /\ listing = NoListing
    /\ asked = [c \in Clients |-> 0]
    /\ faults = 0

Tick ==
    /\ now < scene.until
    /\ now' = now + 1
    /\ UNCHANGED <<scene, version, writers, readers, listing, faults>>

(* A sync commits a batch and its event together. *)
Ingest(s) ==
    /\ version[s] < Len(Versions[s])
    /\ version' = [version EXCEPT ![s] = @ + 1]
    /\ todo' = [todo EXCEPT ![s] = @ \cup {version'[s]}]
    /\ UNCHANGED <<scene, now, handled, file, blurred, hand, threads, readers, listing, faults>>

(***************************************************************************)
(* The export.                                                             *)
(***************************************************************************)
Writing(w, s) == hand[w].phase = "writing" /\ hand[w].source = s

OtherWrites(s) ==
    \E w \in Workers : Writing(w, s) \/ \E t \in threads[w] : t.source = s

(* Now there is another write of s at a time. *)
Joined(h, s) == IF h.phase = "writing" /\ h.source = s THEN [h EXCEPT !.alone = FALSE] ELSE h
JoinedThread(t, s) == IF t.source = s THEN [t EXCEPT !.alone = FALSE] ELSE t

Dispatch(w) ==
    /\ w \in scene.workers
    /\ hand[w].phase = "idle"
    /\ \E s \in Sources : \E v \in todo[s] :
          /\ \A x \in Workers : hand[x].phase # "idle" => <<hand[x].source, hand[x].event>> # <<s, v>>
          /\ hand' = [hand EXCEPT ![w] = [phase |-> "claimed", source |-> s, event |-> v]]
    /\ UNCHANGED <<scene, now, version, todo, handled, file, blurred, threads, readers, listing, faults>>

(* fetch_export_rows, whatever batch the event is of; then the write begins in a thread. *)
ReadRows(w) ==
    /\ hand[w].phase = "claimed"
    /\ LET s == hand[w].source
       IN /\ hand' = [x \in Workers |->
                         IF x = w THEN [phase |-> "writing", source |-> s, event |-> hand[w].event,
                                        rows |-> version[s], alone |-> ~ OtherWrites(s)]
                         ELSE Joined(hand[x], s)]
          /\ threads' = [x \in Workers |-> {JoinedThread(t, s) : t \in threads[x]}]
    /\ UNCHANGED <<scene, now, version, todo, handled, file, blurred, readers, listing, faults>>

Replaced(s, write) ==
    /\ file' = [file EXCEPT ![s] = write.rows]
    /\ blurred' = IF write.alone THEN blurred \ {s} ELSE blurred \cup {s}

(* os.replace, and the event is processed when the transaction commits. *)
Replace(w) ==
    /\ hand[w].phase = "writing"
    /\ LET s == hand[w].source
       IN /\ Replaced(s, hand[w])
          /\ todo' = [todo EXCEPT ![s] = @ \ {hand[w].event}]
          /\ handled' = [handled EXCEPT ![s] = Max({@, hand[w].event})]
    /\ hand' = [hand EXCEPT ![w] = Idle]
    /\ UNCHANGED <<scene, now, version, threads, readers, listing, faults>>

(* The file is replaced and the commit fails: the event stays pending. *)
CommitLost(w) ==
    /\ faults < MaxFaults
    /\ hand[w].phase = "writing"
    /\ Replaced(hand[w].source, hand[w])
    /\ hand' = [hand EXCEPT ![w] = Idle]
    /\ faults' = faults + 1
    /\ UNCHANGED <<scene, now, version, todo, handled, threads, readers, listing>>

\* Mutant: a handler that logs the error of the write and returns as if it had written.
WriteSwallowed(w) ==
    /\ faults < MaxFaults
    /\ hand[w].phase # "idle"
    /\ todo' = [todo EXCEPT ![hand[w].source] = @ \ {hand[w].event}]
    /\ handled' = [handled EXCEPT ![hand[w].source] = Max({@, hand[w].event})]
    /\ hand' = [hand EXCEPT ![w] = Idle]
    /\ faults' = faults + 1
    /\ UNCHANGED <<scene, now, version, file, blurred, threads, readers, listing>>

(* The query or the write raises: the event is retried. *)
WriteFails(w) ==
    /\ faults < MaxFaults
    /\ hand[w].phase # "idle"
    /\ hand' = [hand EXCEPT ![w] = Idle]
    /\ faults' = faults + 1
    /\ UNCHANGED <<scene, now, version, todo, handled, file, blurred, threads, readers, listing>>

(* wait_for gives up; it cancels the handler and not the thread that writes. *)
TimeOut(w) ==
    /\ faults < MaxFaults
    /\ hand[w].phase = "writing"
    /\ threads' = [threads EXCEPT ![w] = @ \cup {[source |-> hand[w].source, rows |-> hand[w].rows,
                                                  alone |-> hand[w].alone]}]
    /\ hand' = [hand EXCEPT ![w] = Idle]
    /\ faults' = faults + 1
    /\ UNCHANGED <<scene, now, version, todo, handled, file, blurred, readers, listing>>

LingeringReplace(w) ==
    \E t \in threads[w] :
       /\ Replaced(t.source, t)
       /\ threads' = [threads EXCEPT ![w] = @ \ {t}]
       /\ UNCHANGED <<scene, now, version, todo, handled, hand, readers, listing, faults>>

(* The process dies with its threads; a temporary file it leaves is nobody's. *)
Crash(w) ==
    /\ faults < MaxFaults
    /\ hand[w].phase # "idle" \/ threads[w] # {}
    /\ hand' = [hand EXCEPT ![w] = Idle]
    /\ threads' = [threads EXCEPT ![w] = {}]
    /\ faults' = faults + 1
    /\ UNCHANGED <<scene, now, version, todo, handled, file, blurred, readers, listing>>

(***************************************************************************)
(* A request to the analytics plane: parameters, whether there is a file,  *)
(* a slot of the limiter (or a wait for one, and a 503 when it is long),   *)
(* and the statements of its query, each of which opens its files anew.    *)
(***************************************************************************)
SourceOf == [burned_area |-> "effis", earthquake_frequency |-> "ign", warnings_summary |-> "aemet"]

RequestError(r) ==
    IF r.route = "zone_monthly" THEN ZoneError(r)
    ELSE IF ValidYear(r.year) THEN "none" ELSE "RequestValidationError"

(* Only the sources with a file. *)
Snapshots == {s \in Sources : file[s] # 0}

(* The sources each statement reads: one each, if it has a file, and all for history_since. *)
Statements(r) ==
    IF r.route \in DOMAIN SourceOf THEN <<{SourceOf[r.route]}>>
    ELSE <<{"aemet"} \cap Snapshots, {"ign"} \cap Snapshots, {"effis"} \cap Snapshots, Snapshots>>

Reads(S) == {[source |-> s, version |-> file[s], blurred |-> s \in blurred] : s \in S}

Asking(phase, left, seen) == [phase |-> phase, left |-> left, seen |-> seen, floor |-> handled]

Ends(c, phase) == request' = [request EXCEPT ![c] = Gone(phase)]

Arrive(c, r) ==
    /\ c \in scene.clients
    /\ request[c].phase \notin {"waiting", "running"}
    /\ asked[c] < MaxRequests
    /\ asked' = [asked EXCEPT ![c] = @ + 1]
    /\ \/ /\ RequestError(r) # "none"
          /\ request' = [request EXCEPT ![c] = Gone("refused")]
          /\ UNCHANGED free
       \/ /\ RequestError(r) = "none"
          /\ r.route \in DOMAIN SourceOf /\ SourceOf[r.route] \notin Snapshots
          /\ request' = [request EXCEPT ![c] = Asking("answered", <<>>, Reads({SourceOf[r.route]}))]
          /\ UNCHANGED free
       \/ /\ RequestError(r) = "none"
          /\ r.route \in DOMAIN SourceOf => SourceOf[r.route] \in Snapshots
          /\ IF free > 0 /\ \A d \in Clients : request[d].phase # "waiting"
             THEN /\ request' = [request EXCEPT ![c] = Asking("running", Statements(r), {})]
                  /\ free' = free - 1
             ELSE /\ request' = [request EXCEPT ![c] = Asking("waiting", Statements(r), {})]
                  /\ UNCHANGED free
    /\ UNCHANGED <<scene, now, version, writers, listing, faults>>

Acquire(c) ==
    /\ request[c].phase = "waiting"
    /\ free > 0
    /\ request' = [request EXCEPT ![c].phase = "running"]
    /\ free' = free - 1
    /\ UNCHANGED <<scene, now, version, writers, listing, faults, asked>>

(* ANALYTICS_ACQUIRE_TIMEOUT_SECONDS without a slot: 503. *)
Rejected(c) ==
    /\ request[c].phase = "waiting"
    /\ free = 0
    /\ Ends(c, "rejected")
    /\ UNCHANGED <<scene, now, version, writers, listing, faults, asked, free>>

Statement(c) ==
    /\ request[c].phase = "running"
    /\ request[c].left # <<>>
    /\ LET S == Head(request[c].left)
       IN IF S \subseteq Snapshots
          THEN /\ request' = [request EXCEPT ![c].left = Tail(@), ![c].seen = @ \cup Reads(S)]
               /\ UNCHANGED free
          ELSE Ends(c, "missing") /\ free' = free + 1
    /\ UNCHANGED <<scene, now, version, writers, listing, faults, asked>>

Answered(c) ==
    /\ request[c].phase = "running"
    /\ request[c].left = <<>>
    /\ Ends(c, "answered")
    /\ free' = free + 1
    /\ UNCHANGED <<scene, now, version, writers, listing, faults, asked>>

\* Mutant: the release is not in a finally, and an error keeps the slot.
QueryFailsHolding(c) ==
    /\ faults < MaxFaults
    /\ request[c].phase = "running"
    /\ Ends(c, "failed")
    /\ faults' = faults + 1
    /\ UNCHANGED <<scene, now, version, writers, listing, asked, free>>

(* DuckDB raises, out of memory for one: 500, and the slot is released. *)
QueryFails(c) ==
    /\ faults < MaxFaults
    /\ request[c].phase = "running"
    /\ Ends(c, "failed")
    /\ free' = free + 1
    /\ faults' = faults + 1
    /\ UNCHANGED <<scene, now, version, writers, listing, asked>>

(***************************************************************************)
(* A client pages through GET /events until there is no next cursor.       *)
(***************************************************************************)
AsListed(was, p, answer) ==
    IF answer.status # 200 THEN [phase |-> "refused", pages |-> was.pages, status |-> answer.status]
    ELSE [phase |-> IF Given(answer.nextCursor) THEN "paging" ELSE "done",
          p |-> [p EXCEPT !.cursor = answer.nextCursor],
          listed |-> was.listed \o answer.features,
          pages |-> was.pages + 1, since |-> was.since, at |-> was.at]

ListFirst(p) ==
    /\ scene.lists
    /\ listing.phase = "none"
    /\ listing' = AsListed([listed |-> <<>>, pages |-> 0, since |-> version, at |-> now],
                           p, ListEvents(Table(version), p, now))
    /\ UNCHANGED <<scene, now, version, writers, readers, faults>>

ListNext ==
    /\ listing.phase = "paging"
    /\ listing' = AsListed(listing, listing.p, ListEvents(Table(version), listing.p, now))
    /\ UNCHANGED <<scene, now, version, writers, readers, faults>>

Next ==
    \/ Tick
    \/ \E s \in Sources : Ingest(s)
    \/ \E w \in Workers :
          \/ Dispatch(w) \/ ReadRows(w) \/ Replace(w) \/ CommitLost(w)
          \/ WriteFails(w) \/ TimeOut(w) \/ LingeringReplace(w) \/ Crash(w)
    \/ \E c \in Clients :
          \/ \E r \in Requests : Arrive(c, r)
          \/ Acquire(c) \/ Rejected(c) \/ Statement(c) \/ Answered(c) \/ QueryFails(c)
    \/ \E p \in Questions : ListFirst(p)
    \/ ListNext

Spec == Init /\ [][Next]_vars

-----------------------------------------------------------------------------
(***************************************************************************)
(* Properties.                                                             *)
(***************************************************************************)
Phases ==
    {"none", "refused", "waiting", "running", "answered", "rejected", "failed", "missing"}

(* Types; and the slots of the limiter are those of the requests that run, *)
(* whichever way a request ends (run_analytics).                           *)
TypeOK ==
    /\ now \in Start .. scene.until
    /\ version \in [Sources -> Nat] /\ file \in [Sources -> Nat] /\ handled \in [Sources -> Nat]
    /\ \A s \in Sources : /\ version[s] <= Len(Versions[s])
                          /\ todo[s] \subseteq 1 .. version[s]
                          /\ file[s] <= version[s] /\ handled[s] <= version[s]
    /\ blurred \subseteq Sources
    /\ \A w \in Workers : hand[w].phase \in {"idle", "claimed", "writing"}
    /\ \A c \in Clients : request[c].phase \in Phases
    /\ free \in 0 .. MaxConcurrency
    /\ free + Cardinality({c \in Clients : request[c].phase = "running"}) = MaxConcurrency
    /\ listing.phase \in {"none", "paging", "done", "refused"}

(***************************************************************************)
(* What an analytics request reads of a source holds every batch whose     *)
(* event had been processed when the request came, unless the file was     *)
(* last replaced by one of several writes at a time; and no statement      *)
(* finds that a file it counted on is gone.                                *)
(***************************************************************************)
AnswersFresh ==
    \A c \in Clients :
        /\ request[c].phase # "missing"
        /\ \A r \in request[c].seen : r.version >= request[c].floor[r.source] \/ r.blurred

(***************************************************************************)
(* A listing, page after page, gives every row that all along matched the  *)
(* question and kept its place exactly once: before the cursor, listed;    *)
(* after it, not yet.  No later page is refused.                           *)
(***************************************************************************)
Steady(id) ==
    \E s \in Sources :
        /\ id \in DOMAIN ExportRows(s, listing.since[s])
        /\ \A v \in listing.since[s] .. version[s] :
              LET row == ExportRows(s, v)[id]
              IN /\ row.starts_at = ExportRows(s, version[s])[id].starts_at
                 /\ \A t \in listing.at .. now : Matches(row, listing.p, t)

TimesListed(id) == Cardinality({i \in DOMAIN listing.listed : listing.listed[i] = id})

ListedOnce ==
    /\ listing.phase = "refused" => listing.pages = 0
    /\ listing.phase \in {"paging", "done"} =>
          LET table == Table(version)
          IN \A id \in DOMAIN table :
                Steady(id) =>
                   TimesListed(id) =
                       IF /\ listing.phase = "paging"
                          /\ AfterCursor(Key(table, id), DecodeCursor(listing.p.cursor))
                       THEN 0 ELSE 1

(***************************************************************************)
(* The three views of the events agree on any table that fits a page.      *)
(* With the same filters: near gives the rows of the list of a box around  *)
(* the circle that lie in the circle, and its prefilter in degrees cuts    *)
(* none of them; the clusters of one row or more count every row of the    *)
(* list once; and their attributions name their sources.                   *)
(***************************************************************************)
NoFilters ==
    [hazard_types |-> {}, source |-> NULL, severity_min |-> NULL, starts_after |-> NULL,
     starts_before |-> NULL, active |-> FALSE]

World == <<-180, -90, 180, 90>>

Filters ==
    {NoFilters, [NoFilters EXCEPT !.active = TRUE], [NoFilters EXCEPT !.severity_min = 3],
     [NoFilters EXCEPT !.hazard_types = {"wildfire", "earthquake"}]}

With(f, more) ==
    [k \in DOMAIN f \cup DOMAIN more |-> IF k \in DOMAIN more THEN more[k] ELSE f[k]]

Elements(s) == {s[i] : i \in DOMAIN s}

ListAll(table, f, bbox, t) ==
    ListEvents(table, With(f, [bbox |-> bbox, province |-> NULL, limit |-> 1000, cursor |-> NULL]), t)

NearAll(table, f, q, radius_m, t) ==
    NearEvents(table, With(f, [lon |-> q[1], lat |-> q[2], radius_m |-> radius_m, limit |-> 1000]), t)

(* The whole degrees that hold the circle: at its corners they hold more. *)
DegreesIn(metres, per_degree) == 1 + metres \div per_degree

BoxAround(q, radius_m) ==
    LET lon == DegreesIn(radius_m, MetresPerLon)
        lat == DegreesIn(radius_m, MetresPerLat)
    IN <<q[1] - lon, q[2] - lat, q[1] + lon, q[2] + lat>>

ListAgreesWithNear(table, f, q, radius_m, t) ==
    LET near == NearAll(table, f, q, radius_m, t)
        list == ListAll(table, f, BoxAround(q, radius_m), t)
        circle == {id \in Elements(list.features) :
                      \E p \in table[id].geom : SquaredDistance(p, q) <= Square(radius_m)}
    IN /\ {n.id : n \in Elements(near.features)} = circle
       /\ Len(near.features) = Cardinality(circle)
       /\ near.attribution = AttributionsFor(SourcesOf(table, circle))
       /\ \A i, j \in DOMAIN near.features :
             i < j => near.features[i].distance_m2 <= near.features[j].distance_m2

ListAgreesWithClusters(table, f, eps_m, t) ==
    LET list == ListAll(table, f, World, t)
        clusters == ClusterEvents(table, With(f, [bbox |-> World, eps_m |-> eps_m, min_points |-> 1]), t)
    IN /\ SumFunction([i \in DOMAIN clusters.features |-> clusters.features[i].count])
             = Len(list.features)
       /\ list.attribution \subseteq clusters.attribution
       /\ list.features # <<>> =>
             Max({c.last_starts_at : c \in Elements(clusters.features)})
                = table[list.features[1]].starts_at
       /\ \A i \in DOMAIN list.features : GetEvent(table, list.features[i]).status = 200

FitsAPage(table) == Cardinality(DOMAIN table) <= 1000 /\ Cardinality(DOMAIN table) <= MaxClusters

ViewsAgreeOn(table, t) ==
    FitsAPage(table) =>
       \A f \in Filters :
          /\ \A q \in {<<0, 0>>, <<4, 2>>} : \A radius_m \in {3, 5} :
                ListAgreesWithNear(table, f, q, radius_m, t)
          /\ \A eps_m \in {3, 5} : ListAgreesWithClusters(table, f, eps_m, t)

(* As a set of constants alone, for TLC evaluates it once. *)
AllVersions ==
    {[effis |-> e, ign |-> i, aemet |-> a] :
        e \in 0 .. Len(Versions["effis"]), i \in 0 .. Len(Versions["ign"]),
        a \in 0 .. Len(Versions["aemet"])}

AgreeingViews ==
    {x \in {<<v, t>> : v \in AllVersions, t \in UNION {Start .. x.until : x \in Scenes}} :
        ViewsAgreeOn(Table(x[1]), x[2])}

ViewsAgree == <<version, now>> \in AgreeingViews

(***************************************************************************)
(* The histories, whatever versions the snapshots hold, tell of the same   *)
(* events: (1) the year of a province is the sum of its months, and its    *)
(* hectares differ by the rounding of each month at most; (2) a day counts *)
(* once in its month; (3) over all years, every earthquake counts once by  *)
(* month of UTC and once by civil month, (4) every warning under one       *)
(* phenomenon and level, (5) every burnt area in one province at most.     *)
(***************************************************************************)
SnapshotsOf(f) == [s \in {x \in Sources : f[x] # 0} |-> ExportRows(s, f[s])]

(* The years in which something begins, in either calendar, or ends. *)
YearsOf(rows) ==
    {YearOf(UtcDay(rows[id].starts_at)) : id \in DOMAIN rows}
        \cup {YearOf(LocalDay(rows[id].starts_at)) : id \in DOMAIN rows}
        \cup {YearOf(LocalDay(EndOf(rows[id]))) : id \in DOMAIN rows}

YearIsSumOfMonths(snapshots, year, code) ==
    LET whole == ProvincesSummary(snapshots, year)
        row == whole.rows[code]
        parts == ZoneMonthly(snapshots, year, ProvinceZone(code))
        months == parts.rows
        Maxima == {months[m].max_magnitude : m \in Months} \ {NULL}
    IN /\ whole.history_since = parts.history_since
       /\ \A level \in Levels :
             row.warning_days[level] = SumFunction([m \in Months |-> months[m].warning_days[level]])
       /\ row.earthquakes = SumFunction([m \in Months |-> months[m].earthquakes])
       /\ row.max_magnitude = IF Maxima = {} THEN NULL ELSE Max(Maxima)
       /\ row.burnt_areas = SumFunction([m \in Months |-> months[m].burnt_areas])
       /\ 2 * Magnitude(row.burned_area_ha - SumFunction([m \in Months |-> months[m].burned_area_ha]))
             <= 1 + Cardinality({m \in Months : months[m].burnt_areas > 0})

DaysCountOnce(snapshots, year, zone) ==
    \A m \in Months :
        SumFunction(ZoneMonthly(snapshots, year, zone).rows[m].warning_days) <= DaysPerMonth

EventsCountOnce(snapshots, years) ==
    LET quakes == RowsOf(snapshots, "ign")
        fires == RowsOf(snapshots, "effis")
        warnings == RowsOf(snapshots, "aemet")
        Civil(y) == ZoneMonthly(snapshots, y, Everywhere).rows
        Utc(y) == FrequencyByMonth(quakes, y, NULL)
        Summary(y) == SummaryByPhenomenon(warnings, y, NULL)
        Burned(y) == BurnedAreaByMonth(fires, y, NULL)
        Total(Part(_)) == SumFunction([y \in years |-> SumFunction(Part(y))])
    IN /\ Cardinality(Quakes(quakes)) = Total(LAMBDA y : [m \in Months |-> Civil(y)[m].earthquakes])
       /\ Cardinality(Quakes(quakes)) = Total(LAMBDA y : [m \in DOMAIN Utc(y) |-> Utc(y)[m].events])
       /\ Cardinality(DOMAIN warnings) =
             Total(LAMBDA y : [g \in DOMAIN Summary(y) |-> Summary(y)[g].warnings])
       /\ Cardinality(BurntAreasOf(fires)) >=
             Total(LAMBDA y : [g \in DOMAIN Burned(y) |-> Burned(y)[g].events])

HistoryAgrees(snapshots) ==
    LET years == UNION {YearsOf(snapshots[s]) : s \in DOMAIN snapshots}
    IN /\ \A y \in years :
             /\ \A code \in Provinces : YearIsSumOfMonths(snapshots, y, code)
             /\ \A zone \in {Everywhere} \cup {ProvinceZone(code) : code \in Provinces} :
                   DaysCountOnce(snapshots, y, zone)
       /\ EventsCountOnce(snapshots, years)

AgreeingHistories == {f \in AllVersions : HistoryAgrees(SnapshotsOf(f))}

HistoriesAgree == file \in AgreeingHistories
=============================================================================
