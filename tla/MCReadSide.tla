----------------------------- MODULE MCReadSide -----------------------------
(***************************************************************************)
(* A small Spain for ReadSide: two provinces side by side, days of two     *)
(* hours and months of two days, and the turn of the year 2025 at instant  *)
(* 48 in UTC and 47 in Madrid.                                             *)
(***************************************************************************)
EXTENDS ReadSide, TLC

MCProvinces == {"30", "03"}
MCProvinceArea == [code \in MCProvinces |-> IF code = "30" THEN (0 .. 2) \X (0 .. 1) ELSE (3 .. 5) \X (0 .. 1)]

Event(type, severity, starts_at, ends_at, geom, province_code, attrs) ==
    [source |-> CASE type = "wildfire" -> "effis" [] type = "earthquake" -> "ign" [] OTHER -> "aemet",
     hazard_type |-> type, severity |-> severity, starts_at |-> starts_at, ends_at |-> ends_at,
     geom |-> geom, province_code |-> province_code, attrs |-> attrs]

Quake(starts_at, magnitude, q, code) ==
    Event("earthquake", IF magnitude < 3 THEN 1 ELSE IF magnitude < 4 THEN 2 ELSE 3,
          starts_at, starts_at, {q}, code, [magnitude |-> magnitude])

Warning(severity, starts_at, ends_at, code, zone) ==
    Event("weather_warning", severity, starts_at, ends_at, {<<0, 0>>, <<1, 0>>}, code,
          [phenomenon |-> <<"AT", "Temperaturas maximas">>, level |-> ToString(severity), zone |-> zone])

Fire(starts_at, ends_at, area_ha, geom, code) ==
    Event("wildfire", 2, starts_at, ends_at, geom, code, [kind |-> "burnt_area", area_ha |-> area_ha])

Hotspot == Event("wildfire", 2, 47, 47, {<<1, 1>>}, "30", [kind |-> "hotspot"])

(* The IGN revises the instant of quake 2 to that of quake 1. *)
IgnBefore == (1 :> Quake(46, 3, <<1, 0>>, "30")) @@ (2 :> Quake(47, 5, <<9, 9>>, NULL))
IgnAfter == (2 :> Quake(46, 5, <<9, 9>>, NULL)) @@ (3 :> Quake(47, 2, <<4, 0>>, "03")) @@ IgnBefore

(* Fire 4 crosses the border: most of it is in 03, and its centroid in 30. *)
EffisRows ==
    (4 :> Fire(44, NULL, 125, {<<2, 0>>, <<3, 0>>, <<3, 1>>}, "03")) @@ (5 :> Hotspot)
        @@ (6 :> Fire(40, 45, 125, {<<4, 1>>}, "03"))

(* Warning 10 was withdrawn before its onset. *)
AemetRows ==
    (7 :> Warning(2, 45, 48, "30", "z1")) @@ (8 :> Warning(3, 47, 49, "30", "z2"))
        @@ (9 :> Warning(4, 48, 49, "03", "z3")) @@ (10 :> Warning(3, 50, 46, "30", "z1"))

MCVersions ==
    [effis |-> <<EffisRows>>, ign |-> <<IgnBefore, IgnAfter>>, aemet |-> <<AemetRows>>]

Zone(year, province, lon) ==
    [route |-> "zone_monthly", year |-> year, province |-> province, lon |-> lon, lat |-> lon,
     radius_m |-> lon]

(* A request of one snapshot, one of all, and two that are refused. *)
MCRequests ==
    {[route |-> "earthquake_frequency", year |-> 2025], Zone(2025, "30", NULL),
     Zone(2025, "30", 1)}

All == With(NoFilters, [bbox |-> NULL, province |-> NULL, limit |-> 1, cursor |-> NULL])

BadCursor(type) == [json |-> TRUE, items |-> <<[type |-> "date", value |-> 47], [type |-> type, value |-> 1]>>]

MCQuestions ==
    {[All EXCEPT !.source = "ign"], [All EXCEPT !.active = TRUE, !.severity_min = 3, !.limit = 2],
     [All EXCEPT !.province = "30", !.limit = 2], [All EXCEPT !.cursor = BadCursor("number")],
     [All EXCEPT !.bbox = <<3, 0, 1, 1>>]}

PartySymmetry == Permutations(Clients) \cup Permutations(Workers)

MCScenes ==
    {[workers |-> Workers, clients |-> Clients, lists |-> FALSE, until |-> Start],
     [workers |-> {}, clients |-> {}, lists |-> TRUE, until |-> Start + 1]}
=============================================================================
