-------------------------- MODULE FastFileGdbDriver --------------------------
(***************************************************************************)
(* A layer of the GDAL driver plugin (fastfilegdb_driver.cpp): a cursor of *)
(* the unified facade behind OGR's ResetReading, GetNextFeature, filters,  *)
(* GetFeature and GetFeatureCount.                                         *)
(*                                                                         *)
(* A layer is filtered twice: the cursor is opened with the driver's own   *)
(* filters, a clause and an envelope, and what it delivers is put to OGR's *)
(* filters, the compiled clause and the geometry. OGR's part is external,  *)
(* as the driver uses it: a clause that OGR refuses clears its filter and  *)
(* resets the layer.                                                       *)
(***************************************************************************)
EXTENDS UnifiedRows

CONSTANTS
    Clauses,        \* what SetAttributeFilter is given; "" clears the filter
    Refused,        \* those of them that OGR cannot compile
    Geometries,     \* what SetSpatialFilter is given; "" clears the filter
    EnvelopeOf      \* the envelope of each geometry

\* A row that meets a geometry meets its envelope.
ASSUME DriverAssumption ==
    /\ Refused \subseteq Clauses
    /\ DOMAIN EnvelopeOf = Geometries \ {NoFilter}
    /\ \A v \in DOMAIN Versions : \A row \in RowsAt(v), g \in DOMAIN EnvelopeOf :
          g \in row.areas => EnvelopeOf[g] \in row.areas

VARIABLES
    user,              \* who uses the source: "caller" or "driver"
    attribute_filter,  \* the driver's
    spatial_filter,
    attr_query,        \* OGR's: m_poAttrQuery and m_poFilterGeom
    filter_geom,
    cursor_error,
    doing,             \* "next" or "count" while the loop runs, or "none"
    features,          \* what GetNextFeature has returned since the reset
    ended              \* it has returned no feature since the reset

dvars == <<attribute_filter, spatial_filter, attr_query, filter_geom,
           cursor_error, doing, features, ended>>
filters == <<attribute_filter, spatial_filter, attr_query, filter_geom>>
source == <<backend, version, writing, stopped>>

DriverInit ==
    /\ RowsInit
    /\ user \in {"caller", "driver"}
    /\ attribute_filter = NoFilter /\ spatial_filter = NoFilter
    /\ attr_query = NoFilter /\ filter_geom = NoFilter
    /\ cursor_error = FALSE /\ doing = "none" /\ features = <<>> /\ ended = FALSE

At(what) == user = "driver" /\ Idle /\ doing = what

----------------------------------------------------------------------------
(* Reading on.                                                             *)

Reset ==
    /\ cursor' = NoCursor /\ cursor_error' = FALSE
    /\ features' = <<>> /\ ended' = FALSE

ResetReading ==
    /\ At("none") /\ Reset
    /\ UNCHANGED <<source, user, given, said, call, answer, filters, doing>>

DriverQuery == Query(attribute_filter, spatial_filter, 0, 0, "Native", 0, FALSE)

\* The row a call of the cursor returned: one that was fetched at the opening
\* is as it was then.
Fetched(fid) ==
    {row \in RowsAt(IF cursor.prefetched # NoRow THEN cursor.opened ELSE version) :
        row.fid = fid}

\* WKB that cannot be read makes no feature.
to_ogr(fid) == \A row \in Fetched(fid) : row.wkb # "bad"

\* FilterGeometry and OGRFeatureQuery::Evaluate
Accepted(fid) ==
    \E row \in Fetched(fid) :
        /\ filter_geom = NoFilter \/ filter_geom \in row.areas
        /\ attr_query = NoFilter \/ attr_query \in row.filters

GetNextFeature ==
    /\ At("none")
    /\ doing' = "next" /\ answer' = NoAnswer
    /\ UNCHANGED <<source, user, cursor, given, said, call, filters, cursor_error,
                   features, ended>>

\* Counting calls GetNextFeature until there is no feature.
GetFeatureCount ==
    /\ At("none") /\ Reset
    /\ doing' = "count" /\ answer' = NoAnswer
    /\ UNCHANGED <<source, user, given, said, call, filters>>

CountIs(count, began) ==
    answer' = [kind |-> "count", count |-> count, began |-> began, ended |-> version]

\* Fault: the rows that came before an error are the count.
ReturnsNullUnseen(c, error) ==
    /\ doing' = "none"
    /\ \/ doing = "next" /\ cursor' = c /\ ended' = TRUE
          /\ cursor_error' = (cursor_error \/ error) /\ UNCHANGED <<features, answer>>
       \/ /\ doing = "count" /\ Reset
          /\ IF c = NoCursor THEN CountIs(-1, version) ELSE CountIs(Len(features), c.opened)

\* No feature, with or without an error. An error stays until the next reset,
\* and makes the count unknown.
ReturnsNull(c, error) ==
    /\ doing' = "none"
    /\ \/ doing = "next" /\ cursor' = c /\ ended' = TRUE
          /\ cursor_error' = (cursor_error \/ error) /\ UNCHANGED <<features, answer>>
       \/ /\ doing = "count" /\ Reset
          /\ IF cursor_error \/ error THEN CountIs(-1, version)
             ELSE CountIs(Len(features), c.opened)

ensure_cursor ==
    /\ user = "driver" /\ Idle /\ doing # "none" /\ cursor = NoCursor
    /\ \E c \in open_cursor(DriverQuery) :
          IF c = NoCursor THEN ReturnsNull(NoCursor, TRUE)
          ELSE /\ cursor' = c
               /\ UNCHANGED <<cursor_error, features, ended, doing, answer>>
    /\ UNCHANGED <<source, user, given, said, call, filters>>

\* One turn of the loop in GetNextFeature: a row that OGR's filters do not
\* accept is passed over.
NextRow ==
    /\ user = "driver" /\ Idle /\ doing # "none" /\ cursor # NoCursor
    /\ \E o \in feature_next(cursor) :
          \/ /\ o.returned = NoRow
             /\ ReturnsNull(o.cursor, FALSE)
          \/ /\ o.returned = Error \/ (o.returned # NoRow /\ ~to_ogr(o.returned))
             /\ ReturnsNull(o.cursor, TRUE)
          \/ /\ o.returned \notin {NoRow, Error} /\ to_ogr(o.returned)
             /\ cursor' = o.cursor
             /\ IF Accepted(o.returned)
                THEN /\ features' = Append(features, o.returned)
                     /\ doing' = IF doing = "next" THEN "none" ELSE doing
                ELSE UNCHANGED <<features, doing>>
             /\ UNCHANGED <<cursor_error, ended, answer>>
    /\ UNCHANGED <<source, user, given, said, call, filters>>

\* GetFeature looks at no filter and leaves the cursor alone.
GetFeature(fid) ==
    /\ At("none")
    /\ ByGdal(fid) \/ ReadByFid(fid)
    /\ UNCHANGED <<user, dvars>>

----------------------------------------------------------------------------
(* Filters.                                                                *)

\* After a clause that OGR refuses the driver goes on with its last one.
SetAttributeFilter(clause) ==
    /\ At("none") /\ Reset
    /\ IF clause \in Refused
       THEN attr_query' = NoFilter /\ UNCHANGED attribute_filter
       ELSE attr_query' = clause /\ attribute_filter' = clause
    /\ answer' = NoAnswer
    /\ UNCHANGED <<source, user, given, said, call, spatial_filter, filter_geom, doing>>

\* OGR refuses a geometry for a field there is not; the driver takes its
\* envelope all the same.
SetSpatialFilter(geometry, accepted) ==
    /\ At("none") /\ Reset
    /\ filter_geom' = IF accepted THEN geometry ELSE filter_geom
    /\ spatial_filter' = IF geometry = NoFilter THEN NoFilter ELSE EnvelopeOf[geometry]
    /\ answer' = NoAnswer
    /\ UNCHANGED <<source, user, given, said, call, attribute_filter, attr_query, doing>>

----------------------------------------------------------------------------
DriverStep ==
    \/ ResetReading \/ GetNextFeature \/ GetFeatureCount
    \/ ensure_cursor \/ NextRow
    \/ \E fid \in SomeFids : GetFeature(fid)
    \/ \E clause \in Clauses : SetAttributeFilter(clause)
    \/ \E geometry \in Geometries, accepted \in BOOLEAN :
          SetSpatialFilter(geometry, accepted)

DriverNext ==
    \/ user = "caller" /\ CallerStep /\ UNCHANGED <<user, dvars>>
    \/ CallStep /\ UNCHANGED <<user, dvars>>
    \/ WriterStep /\ UNCHANGED <<user, dvars>>
    \/ DriverStep

DriverSpec == DriverInit /\ [][DriverNext]_<<rvars, user, dvars>>

----------------------------------------------------------------------------
\* The rows the layer stands for by the filters that were accepted last.
WantedFids ==
    Fids({row \in RowsAt(version) :
            /\ attribute_filter = NoFilter \/ attribute_filter \in row.filters
            /\ filter_geom = NoFilter \/ filter_geom \in row.areas})
Wanted == InOrder(WantedFids)

Agreed == spatial_filter = IF filter_geom = NoFilter THEN NoFilter ELSE EnvelopeOf[filter_geom]

\* Since the last reset a layer has returned rows in order and none twice.
\* While the source is not changed they are the rows that its filters let
\* through, from the first, and all of them once it returns no feature without
\* an error; a row is missing only after an error, or after a geometry that
\* OGR refused. A count is the number of these rows, or unknown.
LayerGivesFiltered ==
    user = "driver" =>
        /\ Ascending(features)
        /\ cursor # NoCursor /\ cursor.opened = version =>
              /\ \A i \in DOMAIN features : features[i] \in WantedFids
              /\ Agreed /\ ~cursor_error =>
                    IsPrefix(features, Wanted) /\ (ended => features = Wanted)
        /\ /\ answer.kind = "count" /\ Agreed
           /\ answer.began = version /\ answer.ended = version
           => answer.count \in {-1, Len(Wanted)}
=============================================================================
