--------------------------- MODULE HistoryQueries ---------------------------
(***************************************************************************)
(* What the analytics plane answers from the snapshots: analytics/queries, *)
(* its use cases and the parameters of its routes.  A snapshot is the      *)
(* table of rows of one source; snapshots is a function from the sources   *)
(* that have a file to theirs.  A result is a function from the key of a   *)
(* row to the row.                                                         *)
(***************************************************************************)
EXTENDS EventRows

CONSTANTS
    HoursPerDay, DaysPerMonth,   \* of the calendar; a year has twelve months
    LocalOffset,                 \* hours that Europe/Madrid is ahead of UTC
    FirstYear,                   \* the year of instant 0
    ProvinceArea                 \* province -> its points

ASSUME HistoryQueriesAssumption ==
    /\ HoursPerDay \in Nat \ {0} /\ DaysPerMonth \in Nat \ {0}
    /\ LocalOffset \in Nat /\ FirstYear \in Nat
    /\ DOMAIN ProvinceArea = Provinces
    /\ \A c, d \in Provinces : c # d => ProvinceArea[c] \cap ProvinceArea[d] = {}

(***************************************************************************)
(* The calendar.  DuckDB's year and month read the instant in UTC; the     *)
(* queries by zone convert it first to the civil day of Madrid.            *)
(***************************************************************************)
UtcDay(instant) == instant \div HoursPerDay
LocalDay(instant) == (instant + LocalOffset) \div HoursPerDay

Months == 1 .. 12
MonthOf(day) == 1 + ((day \div DaysPerMonth) % 12)
YearOf(day) == FirstYear + day \div (12 * DaysPerMonth)

(* Areas come in hundredths of a hectare and are answered in tenths. *)
Rounded(hundredths) == (hundredths + 5) \div 10

(***************************************************************************)
(* Zones: a province, a circle, or neither for all of Spain.               *)
(***************************************************************************)
Everywhere == [province |-> NULL, circle |-> NULL]
ProvinceZone(code) == [province |-> code, circle |-> NULL]

InZone(row, zone) ==
    IF Given(zone.province) THEN row.province_code = zone.province
    ELSE IF Given(zone.circle)
    THEN Within(row.geom, {<<zone.circle.lon, zone.circle.lat>>}, zone.circle.radius_m)
    ELSE TRUE

(***************************************************************************)
(* Days with a warning, by level: every warning counts in each of the      *)
(* civil days it covers, and each day counts once, with its worst level.   *)
(***************************************************************************)
Levels == 2 .. 4

EndOf(row) == IF row.ends_at = NULL THEN row.starts_at ELSE row.ends_at

DaysOf(row) == LocalDay(row.starts_at) .. LocalDay(EndOf(row))

WarningsIn(rows, year, zone) ==
    {id \in DOMAIN rows :
        /\ rows[id].hazard_type = "weather_warning"
        /\ rows[id].severity >= 2
        /\ YearOf(LocalDay(rows[id].starts_at)) <= year
        /\ YearOf(LocalDay(EndOf(rows[id]))) >= year
        /\ InZone(rows[id], zone)}

(* A cell is a day (of a province, when the rows are grouped by province). *)
DayCells(rows, warnings, year, group) ==
    LET CodeOf(id) == IF group = "province" THEN rows[id].province_code ELSE NULL
        cells == UNION {{<<CodeOf(id), day>> : day \in {d \in DaysOf(rows[id]) : YearOf(d) = year}} :
                        id \in warnings}
    IN [cell \in cells |->
           {rows[id].severity : id \in {i \in warnings :
                                           CodeOf(i) = cell[1] /\ cell[2] \in DaysOf(rows[i])}}]

CellKey(cell, group) == IF group = "month" THEN MonthOf(cell[2]) ELSE cell[1]

\* Mutant: a day counts at every level it had, as without the worst of it.
WarningDaysByLevel(rows, year, group, zone) ==
    LET levels == DayCells(rows, WarningsIn(rows, year, zone), year, group)
    IN [k \in {CellKey(c, group) : c \in DOMAIN levels} \ {NULL} |->
           [level \in Levels |->
               Cardinality({c \in DOMAIN levels : CellKey(c, group) = k /\ level \in levels[c]})]]

WarningDays(rows, year, group, zone) ==
    LET levels == DayCells(rows, WarningsIn(rows, year, zone), year, group)
    IN [k \in {CellKey(c, group) : c \in DOMAIN levels} \ {NULL} |->
           [level \in Levels |->
               Cardinality({c \in DOMAIN levels :
                               CellKey(c, group) = k /\ level = Max(levels[c])})]]

(***************************************************************************)
(* Earthquakes and burnt areas.                                            *)
(***************************************************************************)
GroupKey(row, group) ==
    IF group = "month" THEN MonthOf(LocalDay(row.starts_at)) ELSE row.province_code

Quakes(rows) == {id \in DOMAIN rows : rows[id].hazard_type = "earthquake"}

BurntAreasOf(rows) ==
    {id \in DOMAIN rows :
        rows[id].hazard_type = "wildfire" /\ rows[id].attrs.kind = "burnt_area"}

(* The ids among S of a year and a zone, by the key of their group. *)
Grouped(rows, S, year, group, zone) ==
    LET chosen == {id \in S : /\ YearOf(LocalDay(rows[id].starts_at)) = year
                              /\ InZone(rows[id], zone)}
    IN [k \in {GroupKey(rows[id], group) : id \in chosen} \ {NULL} |->
           {id \in chosen : GroupKey(rows[id], group) = k}]

Earthquakes(rows, year, group, zone) ==
    LET ids == Grouped(rows, Quakes(rows), year, group, zone)
    IN [k \in DOMAIN ids |->
           [count |-> Cardinality(ids[k]),
            max_magnitude |-> Max({rows[id].attrs.magnitude : id \in ids[k]})]]

BurntAreas(rows, year, group, zone) ==
    LET ids == Grouped(rows, BurntAreasOf(rows), year, group, zone)
    IN [k \in DOMAIN ids |->
           [count |-> Cardinality(ids[k]),
            area |-> Rounded(SumFunction([id \in ids[k] |-> rows[id].attrs.area_ha]))]]

(***************************************************************************)
(* The first civil day with data of every source that has a snapshot.      *)
(***************************************************************************)
HistorySince(snapshots) ==
    LET present == {s \in DOMAIN snapshots : DOMAIN snapshots[s] # {}}
        FirstDay(rows) == Min({LocalDay(rows[id].starts_at) : id \in DOMAIN rows})
    IN IF present = {} THEN NULL ELSE Max({FirstDay(snapshots[s]) : s \in present})

(***************************************************************************)
(* GET /analytics/zone/monthly and /analytics/provinces/summary.  A source *)
(* with no snapshot, and a key with no events, are zeros.                  *)
(***************************************************************************)
RowsOf(snapshots, s) == IF s \in DOMAIN snapshots THEN snapshots[s] ELSE NoRows

Metrics(k, days, quakes, fires) ==
    [warning_days |-> IF k \in DOMAIN days THEN days[k] ELSE [level \in Levels |-> 0],
     earthquakes |-> IF k \in DOMAIN quakes THEN quakes[k].count ELSE 0,
     max_magnitude |-> IF k \in DOMAIN quakes THEN quakes[k].max_magnitude ELSE NULL,
     burnt_areas |-> IF k \in DOMAIN fires THEN fires[k].count ELSE 0,
     burned_area_ha |-> IF k \in DOMAIN fires THEN fires[k].area ELSE 0]

MetricsBy(keys, snapshots, year, group, zone) ==
    LET days == WarningDays(RowsOf(snapshots, "aemet"), year, group, zone)
        quakes == Earthquakes(RowsOf(snapshots, "ign"), year, group, zone)
        fires == BurntAreas(RowsOf(snapshots, "effis"), year, group, zone)
    IN [k \in keys |-> Metrics(k, days, quakes, fires)]

ZoneMonthly(snapshots, year, zone) ==
    [history_since |-> HistorySince(snapshots),
     rows |-> MetricsBy(Months, snapshots, year, "month", zone)]

ProvincesSummary(snapshots, year) ==
    [history_since |-> HistorySince(snapshots),
     rows |-> MetricsBy(Provinces, snapshots, year, "province", Everywhere)]

(***************************************************************************)
(* The routes of one snapshot.  Their months and years are those of UTC.   *)
(***************************************************************************)
UtcYear(row) == YearOf(UtcDay(row.starts_at))
UtcMonth(row) == MonthOf(UtcDay(row.starts_at))

FrequencyByMonth(rows, year, min_magnitude) ==
    LET floor == IF Given(min_magnitude) THEN min_magnitude ELSE 0
        quakes == {id \in Quakes(rows) :
                      UtcYear(rows[id]) = year /\ rows[id].attrs.magnitude >= floor}
        Of(m) == {id \in quakes : UtcMonth(rows[id]) = m}
    IN [m \in {UtcMonth(rows[id]) : id \in quakes} |->
           [events |-> Cardinality(Of(m)),
            max_magnitude |-> Max({rows[id].attrs.magnitude : id \in Of(m)})]]

SummaryByPhenomenon(rows, year, code) ==
    LET warnings == {id \in DOMAIN rows :
                        /\ rows[id].hazard_type = "weather_warning"
                        /\ UtcYear(rows[id]) = year
                        /\ Given(code) => rows[id].attrs.phenomenon[1] = code}
        GroupOf(id) == <<rows[id].attrs.phenomenon, rows[id].attrs.level>>
        Of(g) == {id \in warnings : GroupOf(id) = g}
    IN [g \in {GroupOf(id) : id \in warnings} |->
           [warnings |-> Cardinality(Of(g)),
            zones |-> Cardinality({rows[id].attrs.zone : id \in Of(g)})]]

(***************************************************************************)
(* A burnt area counts in the province its centroid falls in, so that one  *)
(* that crosses a border counts once.                                      *)
(***************************************************************************)
Centroid(geom) ==
    <<SumFunction([q \in geom |-> q[1]]) \div Cardinality(geom),
      SumFunction([q \in geom |-> q[2]]) \div Cardinality(geom)>>

CentroidProvinces(row) == {c \in Provinces : Centroid(row.geom) \in ProvinceArea[c]}

BurnedAreaByMonth(rows, year, province_code) ==
    LET fires == {id \in BurntAreasOf(rows) : UtcYear(rows[id]) = year}
        codes == IF Given(province_code) THEN {province_code} \cap Provinces ELSE Provinces
        Of(c, m) == {id \in fires : c \in CentroidProvinces(rows[id]) /\ UtcMonth(rows[id]) = m}
    IN [g \in {h \in codes \X Months : Of(h[1], h[2]) # {}} |->
           [events |-> Cardinality(Of(g[1], g[2])),
            burned_area_ha |-> Rounded(SumFunction([id \in Of(g[1], g[2]) |-> rows[id].attrs.area_ha]))]]

(***************************************************************************)
(* The parameters of the routes.                                           *)
(***************************************************************************)
ValidYear(year) == year \in 2000 .. 2100

CircleGiven(p) == Given(p.lon) /\ Given(p.lat) /\ Given(p.radius_m)

ValidCircle(p) ==
    /\ Given(p.lon) => p.lon \in -180 .. 180
    /\ Given(p.lat) => p.lat \in -90 .. 90
    /\ Given(p.radius_m) => p.radius_m \in 1 .. 200000

(* Exactly one zone: all of a circle or a province.  "none" when it is so. *)
ZoneError(p) ==
    IF ~ ValidYear(p.year) \/ ~ ValidCircle(p) THEN "RequestValidationError"
    ELSE IF ~ CircleGiven(p) /\ (Given(p.lon) \/ Given(p.lat) \/ Given(p.radius_m))
    THEN "BusinessValidationError"
    ELSE IF Given(p.province) = CircleGiven(p) THEN "BusinessValidationError"
    ELSE "none"

ZoneOf(p) ==
    [province |-> p.province,
     circle |-> IF CircleGiven(p) THEN [lon |-> p.lon, lat |-> p.lat, radius_m |-> p.radius_m]
                ELSE NULL]
=============================================================================
