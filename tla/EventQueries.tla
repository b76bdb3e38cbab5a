---------------------------- MODULE EventQueries ----------------------------
(***************************************************************************)
(* What the events API answers for a table and a time: the routes of   *)
(* hazards/api/events.py, their use cases, and the reads of                *)
(* HazardEventRepo.  A request is the record of its parameters; a          *)
(* parameter not given is NULL (hazard_types: {}).                         *)
(***************************************************************************)
EXTENDS EventRows

CONSTANTS
    MaxClusters,   \* _MAX_CLUSTERS, 500 in the code
    BufferReach    \* of ST_Buffer, in thousandths of its radius (see Prefiltered)

(* What a page ends with: the key of its last row, and that key encoded. *)
Keys == Nat \X Nat
Cursors == [json : BOOLEAN, items : Seq([type : {"date", "uuid"}, value : Nat])]

(* What a bbox is parsed to. *)
Boxes == Int \X Int \X Int \X Int

ASSUME EventQueriesAssumption ==
    /\ MaxClusters \in Nat \ {0}
    /\ BufferReach \in 995 .. 1000
    /\ NULL \notin Keys /\ NULL \notin Cursors /\ NULL \notin Boxes

(***************************************************************************)
(* Parameters.                                                             *)
(***************************************************************************)
ValidFilters(p) ==
    /\ p.hazard_types \subseteq HazardTypes
    /\ p.source \in Sources \cup {NULL}
    /\ Given(p.severity_min) => p.severity_min \in 1 .. 4

ValidLimit(p) == p.limit \in 1 .. 1000

(* 200 km. *)
MaxRadius == 200000

Radii == 1 .. MaxRadius

ValidPoint(p) == p.lon \in -180 .. 180 /\ p.lat \in -90 .. 90 /\ p.radius_m \in Radii

ValidDbscan(p) == p.eps_m \in Radii /\ p.min_points \in 1 .. 1000

(* A bbox as it arrives is a sequence of numbers; NULL in it is what float() refuses. *)
ValidBbox(raw) ==
    \/ raw = NULL
    \/ /\ Len(raw) = 4 /\ \A i \in 1 .. 4 : Given(raw[i])
       /\ -180 <= raw[1] /\ raw[1] < raw[3] /\ raw[3] <= 180
       /\ -90 <= raw[2] /\ raw[2] < raw[4] /\ raw[4] <= 90

(***************************************************************************)
(* The opaque cursor is the JSON list of a date and a uuid, in base64.     *)
(* What does not decode as base64 and JSON has json = FALSE.  A second     *)
(* element that is a number makes uuid.UUID raise an AttributeError, which *)
(* no except of the code names.                                            *)
(***************************************************************************)
EncodeCursor(key) ==
    [json |-> TRUE, items |-> <<[type |-> "date", value |-> key[1]],
                                [type |-> "uuid", value |-> key[2]]>>]

DecodeError(c) ==
    IF ~ c.json \/ Len(c.items) # 2 THEN "BusinessValidationError"
    ELSE IF c.items[1].type # "date" THEN "BusinessValidationError"
    ELSE IF c.items[2].type = "number" THEN "Unhandled"
    ELSE IF c.items[2].type # "uuid" THEN "BusinessValidationError"
    ELSE "none"

DecodeCursor(c) == <<c.items[1].value, c.items[2].value>>

(***************************************************************************)
(* Filters.                                                                *)
(***************************************************************************)
InForce(row, time) ==
    row.starts_at <= time /\ (row.ends_at = NULL \/ row.ends_at >= time)

Passes(row, p, time) ==
    /\ p.hazard_types # {} => row.hazard_type \in p.hazard_types
    /\ Given(p.source) => row.source = p.source
    /\ Given(p.severity_min) => row.severity >= p.severity_min
    /\ Given(p.starts_after) => row.starts_at >= p.starts_after
    /\ Given(p.starts_before) => row.starts_at <= p.starts_before
    /\ p.active => InForce(row, time)

(* The elements of S in the order Before, which is total on it. *)
InOrder(S, Before(_, _)) ==
    [i \in 1 .. Cardinality(S) |->
        CHOOSE x \in S : Cardinality({y \in S : Before(y, x)}) = i - 1]

Limited(s, n) == SubSeq(s, 1, Min({n, Len(s)}))

(***************************************************************************)
(* GET /events: a page, newest first.                                      *)
(***************************************************************************)
Key(table, id) == <<table[id].starts_at, id>>

Newer(k, l) == k[1] > l[1] \/ (k[1] = l[1] /\ k[2] > l[2])

\* Mutant: the cursor compares starts_at alone, and the rows of one instant are cut short.
AfterCursorByDate(key, cursor) == key[1] < cursor[1]

AfterCursor(key, cursor) == Newer(cursor, key)

Matches(row, p, time) ==
    /\ Given(p.bbox) => Intersects(row.geom, p.bbox)
    /\ Given(p.province) => row.province_code = p.province
    /\ Passes(row, p, time)

Listable(table, p, time, cursor) ==
    {id \in DOMAIN table :
        /\ Matches(table[id], p, time)
        /\ Given(cursor) => AfterCursor(Key(table, id), cursor)}

(* One row more than asked for tells whether there is a next page. *)
ListPage(table, p, time, cursor) ==
    LET rows == Limited(InOrder(Listable(table, p, time, cursor),
                                LAMBDA a, b : Newer(Key(table, a), Key(table, b))),
                        p.limit + 1)
    IN IF Len(rows) <= p.limit
       THEN [items |-> rows, next_key |-> NULL]
       ELSE [items |-> Limited(rows, p.limit), next_key |-> Key(table, rows[p.limit])]

SourcesOf(table, ids) == {table[id].source : id \in ids}

ListEvents(table, p, time) ==
    IF ~ ValidFilters(p) \/ ~ ValidLimit(p) THEN Refused("RequestValidationError")
    ELSE IF ~ ValidBbox(p.bbox) THEN Refused("BusinessValidationError")
    ELSE IF Given(p.cursor) /\ DecodeError(p.cursor) # "none" THEN Refused(DecodeError(p.cursor))
    ELSE LET page == ListPage(table, p, time,
                              IF Given(p.cursor) THEN DecodeCursor(p.cursor) ELSE NULL)
         IN [status |-> 200,
             features |-> page.items,
             nextCursor |-> IF Given(page.next_key) THEN EncodeCursor(page.next_key) ELSE NULL,
             attribution |-> AttributionsFor(SourcesOf(table, {page.items[i] : i \in 1 .. Len(page.items)})
                                             \cup (IF Given(p.province) THEN {"cnig"} ELSE {}))]

(* GET /events/{event_id} *)
GetEvent(table, id) ==
    IF id \in DOMAIN table THEN [status |-> 200, feature |-> id] ELSE Refused("NotFoundError")

(***************************************************************************)
(* GET /events/near: those within radius_m, nearest first.  The prefilter  *)
(* is an envelope in degrees, that of a circle in metres one hundredth     *)
(* larger than asked for.  ST_Buffer draws the circle as a polygon of 32   *)
(* sides inscribed in it.  How far its corners reach to the east and to    *)
(* the north depends on how the projected grid is turned there: the whole  *)
(* radius at best, and the cosine of half a side's angle, 0.9951, at worst.*)
(***************************************************************************)
\* Mutant: without the hundredth, the sides of the polygon cut what is at the radius.
PrefilteredInscribed(geom, p) ==
    \E q \in geom :
       /\ 1000 * MetresPerLon * Magnitude(q[1] - p.lon) <= BufferReach * p.radius_m
       /\ 1000 * MetresPerLat * Magnitude(q[2] - p.lat) <= BufferReach * p.radius_m

Prefiltered(geom, p) ==
    \E q \in geom :
       /\ 100000 * MetresPerLon * Magnitude(q[1] - p.lon) <= 101 * BufferReach * p.radius_m
       /\ 100000 * MetresPerLat * Magnitude(q[2] - p.lat) <= 101 * BufferReach * p.radius_m

DistanceTo(row, p) == Distance(row.geom, {<<p.lon, p.lat>>})

NearPage(table, p, time) ==
    LET near == {id \in DOMAIN table :
                    /\ Prefiltered(table[id].geom, p)
                    /\ Within(table[id].geom, {<<p.lon, p.lat>>}, p.radius_m)
                    /\ Passes(table[id], p, time)}
        Nearer(a, b) ==
            \/ DistanceTo(table[a], p) < DistanceTo(table[b], p)
            \/ /\ DistanceTo(table[a], p) = DistanceTo(table[b], p)
               /\ a < b
    IN Limited(InOrder(near, Nearer), p.limit)

NearEvents(table, p, time) ==
    IF ~ ValidFilters(p) \/ ~ ValidLimit(p) \/ ~ ValidPoint(p) THEN Refused("RequestValidationError")
    ELSE LET ids == NearPage(table, p, time)
         IN [status |-> 200,
             features |-> [i \in 1 .. Len(ids) |->
                              [id |-> ids[i], distance_m2 |-> DistanceTo(table[ids[i]], p)]],
             attribution |-> AttributionsFor(SourcesOf(table, {ids[i] : i \in 1 .. Len(ids)}))]

(***************************************************************************)
(* GET /events/clusters: DBSCAN over the rows that pass, those with        *)
(* min_points rows (themselves included) within eps_m joined to each other *)
(* and the rest to one of the clusters they are near, or to none.          *)
(***************************************************************************)
(* Each element joins the parts that hold one close to it. *)
Components(S, close) ==
    FoldSet(LAMBDA a, parts :
                LET touching == {P \in parts : \E b \in P : <<a, b>> \in close}
                IN (parts \ touching) \cup {{a} \cup UNION touching},
            {}, S)

Clusters(table, p, rows) ==
    LET close == {e \in rows \X rows :
                     Within(table[e[1]].geom, table[e[2]].geom, p.eps_m)}
        Beside(a) == {b \in rows : <<a, b>> \in close}
        core == {a \in rows : Cardinality(Beside(a)) >= p.min_points}
        Border(part) == {a \in rows \ core : /\ Beside(a) \cap core # {}
                                             /\ Min(Beside(a) \cap core) \in part}
    IN {part \cup Border(part) : part \in Components(core, close)}

ClusterRows(table, p, time) ==
    LET rows == {id \in DOMAIN table :
                    /\ Given(p.bbox) => Intersects(table[id].geom, p.bbox)
                    /\ Passes(table[id], p, time)}
        Larger(c, d) ==
            \/ Cardinality(c) > Cardinality(d)
            \/ /\ Cardinality(c) = Cardinality(d)
               /\ Min(c) < Min(d)
        clusters == Limited(InOrder(Clusters(table, p, rows), Larger), MaxClusters)
    IN [i \in 1 .. Len(clusters) |->
            [count |-> Cardinality(clusters[i]),
             max_severity |-> Max({table[id].severity : id \in clusters[i]}),
             first_starts_at |-> Min({table[id].starts_at : id \in clusters[i]}),
             last_starts_at |-> Max({table[id].starts_at : id \in clusters[i]})]]

ClusterEvents(table, p, time) ==
    IF ~ ValidFilters(p) \/ ~ ValidDbscan(p) THEN Refused("RequestValidationError")
    ELSE IF ~ ValidBbox(p.bbox) \/ (~ Given(p.bbox) /\ ~ Given(p.starts_after))
    THEN Refused("BusinessValidationError")
    ELSE [status |-> 200,
          features |-> ClusterRows(table, p, time),
          attribution |-> AttributionsFor(IF Given(p.source) THEN {p.source} ELSE Sources)]
=============================================================================
