---------------------------- MODULE GeometryBlob ----------------------------
(***************************************************************************)
(* A stored geometry: how its header is peeked at and how it is decoded    *)
(* into a model (gdb_geometry.cpp, gdb_geometry_model.cpp).                *)
(*                                                                         *)
(* A blob is its type, the number of coordinates a vertex has beside x and *)
(* y, whether it announces curves, and its numbers, each a varuint or a    *)
(* varint of the file.  A damaged blob ends before its last number.        *)
(* Coordinates are deltas on the integer grid; origin and scale, which     *)
(* turn them into map units, are 0 and 1.                                  *)
(***************************************************************************)
EXTENDS CurveGeometry

\* The base types by what they hold; the general types 50 to 54 and the
\* types with Z and M are blobs with their own `extra`.
BlobTypes == {"null", "point", "multipoint", "line", "polygon", "multipatch",
              "unknown"}

Blob(type, extra, curve, numbers) ==
    [type |-> type, extra |-> extra, curve |-> curve, numbers |-> numbers]

Has(blob, count) == Len(blob.numbers) >= count

----------------------------------------------------------------------------
(* The header. Its fields stand at places that depend on the type. *)

IsMultipart(blob) == blob.type \in {"line", "polygon"}

\* Numbers before the box of the header.
HeaderSize(blob) ==
    CASE blob.type = "multipoint" -> 1
      [] blob.type = "multipatch" -> 3
      [] IsMultipart(blob) /\ blob.curve -> 3
      [] OTHER -> 2

CurveCount(blob) ==
    IF IsMultipart(blob) /\ blob.curve /\ Has(blob, 3)
    THEN blob.numbers[3] ELSE 0

----------------------------------------------------------------------------
(* The model *)

Model(kind, status) ==
    [kind |-> kind, status |-> status, source_was_curve |-> FALSE,
     points |-> <<>>, lines |-> <<>>, multipolygon |-> Unbuilt(status)]

Damaged(kind) == Model(kind, "InvalidEncoding")

IsValidModel(model) == model.status \in {"Valid", "Empty"}

\* The sizes of the parts: all but the last are stored.
PartSizes(sizes, point_count) ==
    LET Assigned[k \in 0 .. Len(sizes)] ==
            IF k = 0 THEN 0 ELSE Assigned[k - 1] + sizes[k]
        good == /\ \A k \in DOMAIN sizes :
                     sizes[k] > 0 /\ sizes[k] <= point_count - Assigned[k - 1]
                /\ Assigned[Len(sizes)] < point_count
    IN  [good |-> good,
         sizes |-> Append(sizes, point_count - Assigned[Len(sizes)])]

\* The vertices whose deltas begin after the number at `from`.
Vertices(numbers, from, count) ==
    LET Along[k \in 0 .. count] ==
            IF k = 0 THEN Point(0, 0)
            ELSE Point(Along[k - 1].x + numbers[from + 2 * k - 1],
                       Along[k - 1].y + numbers[from + 2 * k])
    IN  [good   |-> \A k \in 1 .. count : InRange(Along[k]),
         points |-> [k \in 1 .. count |-> Along[k]]]

\* Cuts the vertices into the parts.
Parts(points, sizes) ==
    LET Start[k \in 1 .. Len(sizes)] ==
            IF k = 1 THEN 0 ELSE Start[k - 1] + sizes[k - 1]
    IN  [k \in DOMAIN sizes |-> SubSeq(points, Start[k] + 1, Start[k] + sizes[k])]

\* A curve takes five numbers: the vertex it starts from, its kind, and what
\* its parameters come to.
CurveSize == 5

CurvesAt(numbers, from, count) ==
    [k \in 1 .. count |->
        LET n(i) == numbers[from + CurveSize * (k - 1) + i]
        IN  Curve(n(1), n(2), n(3), Point(n(4), n(5)))]

\* Curves in order of their start vertices, none starting at the last vertex.
\* (A curve may also stand without its M values behind a marker byte: that
\* second reading is left out.)
CurvesAreGood(curves, point_count) ==
    /\ point_count >= 2
    /\ \A k \in DOMAIN curves :
         /\ curves[k].kind \in CurveKinds
         /\ curves[k].start < point_count - 1
         /\ k > 1 => curves[k].start > curves[k - 1].start

decode_point(blob) ==
    LET n == blob.numbers
    IN  CASE ~Has(blob, 2) -> Damaged("Point")
          [] Has(blob, 2) /\ (n[1] = 0 \/ n[2] = 0) -> Model("Point", "Empty")
          [] OTHER ->
                IF Max({n[1], n[2]}) - 1 > CoordinateLimit
                THEN Model("Point", "NumericOverflow")
                ELSE IF ~Has(blob, 2 + blob.extra) THEN Damaged("Point")
                ELSE [Model("Point", "Valid") EXCEPT
                        !.points = <<Point(n[1] - 1, n[2] - 1)>>]

decode_multipoint(blob) ==
    LET count == blob.numbers[1]
        whole == Has(blob, 5 + (2 + blob.extra) * count)
        read == Vertices(blob.numbers, 5, count)
    IN  CASE ~Has(blob, 1) -> Damaged("MultiPoint")
          [] Has(blob, 1) /\ count = 0 -> Model("MultiPoint", "Empty")
          [] OTHER ->
                IF whole /\ read.good
                THEN [Model("MultiPoint", "Valid") EXCEPT !.points = read.points]
                ELSE Damaged("MultiPoint")

polygon_model(topology) ==
    [Model("MultiPolygon", topology.status) EXCEPT !.multipolygon = topology]

linear_model(kind, parts) ==
    IF kind = "MultiLineString"
    THEN [Model(kind, "Valid") EXCEPT !.lines = parts]
    ELSE polygon_model(build(parts))

straightened(kind, linear) ==
    IF linear.status = "Valid" THEN linear_model(kind, linear.parts)
    ELSE Model(kind, linear.status)

curve_model(kind, parts, curves) ==
    IF CurveBackend = "Builtin"
    THEN straightened(kind, linearize_curves(parts, curves))
    ELSE Model(kind, "UnsupportedCurve")

\* The parts after the header, the sizes of the parts and the vertices have
\* been read.
decode_parts(kind, parts, curves, point_count) ==
    CASE curves = <<>> -> linear_model(kind, parts)
      [] curves # <<>> /\ ~CurvesAreGood(curves, point_count) -> Damaged(kind)
      [] OTHER -> curve_model(kind, parts, curves)

decode_multipart(blob) ==
    LET n == blob.numbers
        kind == IF blob.type = "polygon" THEN "MultiPolygon" ELSE "MultiLineString"
        h == HeaderSize(blob) + 4
        count == n[1]
        parts == n[2]
        split == PartSizes(SubSeq(n, h + 1, h + parts - 1), count)
        first == h + parts - 1
        curves == CurveCount(blob)
        after == first + (2 + blob.extra) * count
        read == Vertices(n, first, count)
        model ==
            IF \/ ~Has(blob, h)
               \/ parts = 0 \/ parts > count
               \/ ~Has(blob, first) \/ ~split.good
               \/ ~Has(blob, after + CurveSize * curves) \/ ~read.good
            THEN Damaged(kind)
            ELSE decode_parts(kind, Parts(read.points, split.sizes),
                              CurvesAt(n, after, curves), count)
    IN  CASE ~Has(blob, 1) -> Damaged(kind)
          [] Has(blob, 1) /\ count = 0 -> Model(kind, "Empty")
          [] OTHER -> [model EXCEPT !.source_was_curve = curves > 0]

decode_model(blob) ==
    CASE blob.type = "null" -> Model("Point", "Empty")
      [] blob.type = "point" -> decode_point(blob)
      [] blob.type = "multipoint" -> decode_multipoint(blob)
      [] IsMultipart(blob) -> decode_multipart(blob)
      [] OTHER -> Model("Unknown", "UnsupportedType")

----------------------------------------------------------------------------
(* The box in the header *)

NoBounds == [some |-> FALSE, box |-> Box(0, 0, 0, 0)]
Bounds(box) == [some |-> TRUE, box |-> box]

\* The box of a blob with curves counts only when they can be made straight.
peek_bbox(blob) ==
    LET n == blob.numbers
        h == HeaderSize(blob)
    IN  CASE blob.type \in {"null", "unknown"} -> NoBounds
          [] blob.type = "point" ->
                IF Has(blob, 2) /\ n[1] # 0 /\ n[2] # 0
                THEN Bounds(Box(n[1] - 1, n[2] - 1, n[1] - 1, n[2] - 1))
                ELSE NoBounds
          [] OTHER ->
                IF /\ Has(blob, h + 4)
                   /\ n[1] # 0
                   /\ CurveCount(blob) > 0 =>
                        CurveBackend = "Builtin" /\ IsValidModel(decode_model(blob))
                THEN Bounds(Box(n[h + 1], n[h + 2],
                                n[h + 1] + n[h + 3], n[h + 2] + n[h + 4]))
                ELSE NoBounds

----------------------------------------------------------------------------
(* The checks of a query box *)

intersects_bbox(model, box) ==
    /\ model.status = "Valid"
    /\ CASE model.kind \in {"Point", "MultiPoint"} ->
              \E i \in DOMAIN model.points : point_in_bbox(model.points[i], box)
         [] model.kind = "MultiLineString" ->
              \E i \in DOMAIN model.lines :
                  line_intersects_bbox(model.lines[i], box, FALSE)
         [] OTHER -> polygons_intersect_bbox(model.multipolygon, box)

model_intersects_bbox(blob, box) == intersects_bbox(decode_model(blob), box)

\* The check of one feature by its FID: a multipatch is met by its box alone.
intersects_with_peek(blob, box) ==
    LET bounds == peek_bbox(blob)
    IN  /\ bounds.some
        /\ ~Disjoint(bounds.box, box)
        /\ blob.type = "multipatch" \/ model_intersects_bbox(blob, box)

\* The check of a row while its fields are read: the box of the header
\* decides alone when it is inside the query, or outside.
evaluate_spatial_ref(blob, box) ==
    LET bounds == peek_bbox(blob)
        model == decode_model(blob)
    IN  CASE bounds.some /\ Disjoint(bounds.box, box) -> "Reject"
          [] bounds.some /\ ~Disjoint(bounds.box, box)
                         /\ Encloses(box, bounds.box) -> "Match"
          [] OTHER ->
                IF ~IsValidModel(model) THEN "Invalid"
                ELSE IF intersects_bbox(model, box) THEN "Match" ELSE "Reject"
=============================================================================
