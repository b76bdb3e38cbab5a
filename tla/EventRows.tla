----------------------------- MODULE EventRows -----------------------------
(***************************************************************************)
(* The rows of hazard_events as their readers see them: the API, the       *)
(* export of the snapshots and the queries over the snapshots.  The table  *)
(* of a source goes through versions, one per batch that changed it; what  *)
(* a batch may do to it is HazardStore's business.                         *)
(*                                                                         *)
(* Geometry is PostGIS's: a geometry is a set of points <<lon, lat>> in    *)
(* whole degrees (EPSG:4326), and its projection in metres (EPSG:25830) is *)
(* taken as linear: so many metres to a degree of longitude, and others to *)
(* one of latitude.  That it also turns the grid does not matter to a      *)
(* distance.                                                               *)
(***************************************************************************)
EXTENDS Integers, Sequences, FiniteSetsExt

CONSTANTS
    NULL,
    Provinces,   \* the INE codes
    Versions,    \* Versions[s][v] is the table of source s after v batches
    MetresPerLon, MetresPerLat   \* the projection

Sources == {"effis", "ign", "aemet"}
HazardTypes == {"wildfire", "earthquake", "weather_warning"}

(* The type a source gives its rows. *)
HazardOf == [effis |-> "wildfire", ign |-> "earthquake", aemet |-> "weather_warning"]

(* What the queries read of the JSON column attrs; a phenomenon is its code and its name. *)
Attrs ==
    [effis |-> [kind : {"burnt_area"}, area_ha : Nat] \cup [kind : {"hotspot"}],
     ign |-> [magnitude : Nat],
     aemet |-> [phenomenon : STRING \X STRING, level : STRING, zone : STRING]]

(* id is the uuid of the row, of which only the order matters. *)
EventRow(row) ==
    /\ row.source \in Sources
    /\ row.hazard_type = HazardOf[row.source]
    /\ row.severity \in 1 .. 4
    /\ row.starts_at \in Nat
    /\ row.ends_at \in Nat \cup {NULL}
    /\ row.geom # {} /\ row.geom \subseteq Int \X Int
    /\ row.province_code \in Provinces \cup {NULL}
    /\ row.attrs \in Attrs[row.source]

(***************************************************************************)
(* No statement deletes a row, none changes its source, and no two sources *)
(* share one.                                                              *)
(***************************************************************************)
ASSUME EventRowsAssumption ==
    /\ IsFiniteSet(Provinces)
    /\ MetresPerLon \in Nat \ {0} /\ MetresPerLat \in Nat \ {0}
    /\ NULL \notin Int \cup Provinces
    /\ DOMAIN Versions = Sources
    /\ \A s \in Sources :
          \A v \in 1 .. Len(Versions[s]) :
             /\ DOMAIN Versions[s][v] \subseteq Nat
             /\ IsFiniteSet(DOMAIN Versions[s][v])
             /\ \A id \in DOMAIN Versions[s][v] :
                   /\ EventRow(Versions[s][v][id])
                   /\ Versions[s][v][id].source = s
             /\ v > 1 => DOMAIN Versions[s][v - 1] \subseteq DOMAIN Versions[s][v]
    /\ \A s, t \in Sources : s # t =>
          \A v \in 1 .. Len(Versions[s]), w \in 1 .. Len(Versions[t]) :
             DOMAIN Versions[s][v] \cap DOMAIN Versions[t][w] = {}

NoRows == [id \in {} |-> NULL]

(* fetch_export_rows: the rows of one source, by starts_at (the order is lost in a table). *)
ExportRows(s, v) == IF v = 0 THEN NoRows ELSE Versions[s][v]

(* The whole table, when source s has gone through v[s] batches. *)
Table(v) ==
    [id \in UNION {DOMAIN ExportRows(s, v[s]) : s \in Sources} |->
        LET s == CHOOSE s \in Sources : id \in DOMAIN ExportRows(s, v[s])
        IN ExportRows(s, v[s])[id]]

(***************************************************************************)
(* What the two planes share: a parameter not given, the status of each    *)
(* error (core/exceptions) and the attributions of an answer.              *)
(***************************************************************************)
Given(x) == x # NULL

StatusOf ==
    [BusinessValidationError |-> 400, NotFoundError |-> 404,
     RequestValidationError |-> 422, ServiceOverloadedError |-> 503, Unhandled |-> 500]

Refused(error) == [status |-> StatusOf[error]]

Attributed == Sources \cup {"cnig"}

AttributionsFor(sources) == sources \cap Attributed

(***************************************************************************)
(* Regions in degrees, distances in metres and squared: a comparison and   *)
(* an order are the same of the squares.                                   *)
(***************************************************************************)
Magnitude(n) == IF n < 0 THEN -n ELSE n

Square(n) == n * n

SquaredDistance(p, q) ==
    Square(MetresPerLon * (p[1] - q[1])) + Square(MetresPerLat * (p[2] - q[2]))

(* ST_Distance, squared, between the nearest points: 0 from inside a polygon. *)
Distance(g, h) == Min({SquaredDistance(p, q) : p \in g, q \in h})

(* ST_DWithin *)
Within(g, h, metres) == \E p \in g, q \in h : SquaredDistance(p, q) <= Square(metres)

InEnvelope(p, box) == p[1] \in box[1] .. box[3] /\ p[2] \in box[2] .. box[4]

Intersects(g, box) == \E p \in g : InEnvelope(p, box)
=============================================================================
