--------------------------- MODULE MCIndexedQuery ---------------------------
(***************************************************************************)
(* Instances of IndexedQuery: geometries of every type around a polygon    *)
(* with a hole and an island, damaged blobs, clauses over three columns,   *)
(* and indexes that are whole or damaged in one place.                     *)
(***************************************************************************)
EXTENDS IndexedQuery

\* The corners of a closed ring, and the same ring run the other way.
Square(xmin, ymin, xmax, ymax) ==
    <<Point(xmin, ymin), Point(xmax, ymin), Point(xmax, ymax), Point(xmin, ymax),
      Point(xmin, ymin)>>

Shape(kind, parts) == [kind |-> kind, parts |-> parts, sound |-> TRUE, header |-> TRUE]
Unsound(shape) == [shape EXCEPT !.sound = FALSE]

----------------------------------------------------------------------------
(* The blob that a writer makes of a shape: vertices are steps from one to *)
(* the next, through all parts; then Z or M, one number a vertex.          *)
Steps(points) ==
    FlattenSeq([i \in DOMAIN points |->
        IF i = 1 THEN <<points[1].x, points[1].y>>
        ELSE <<points[i].x - points[i - 1].x, points[i].y - points[i - 1].y>>])

Header(kind, count, parts, curves) ==
    CASE kind = "multipoint" -> <<count>>
      [] kind = "multipatch" -> <<count, parts, 0>>
      [] OTHER -> <<count, parts>> \o (IF curves = <<>> THEN <<>>
                                       ELSE <<Len(curves) \div CurveSize>>)

BoundsIn(box) == <<box.xmin, box.ymin, box.xmax - box.xmin, box.ymax - box.ymin>>

SizesIn(shape) ==
    IF shape.kind = "multipoint" THEN <<>>
    ELSE [i \in 1 .. Len(shape.parts) - 1 |-> Len(shape.parts[i])]

NumbersOf(shape, points, more, curves) ==
    IF shape.kind = "point" THEN <<points[1].x + 1, points[1].y + 1>> \o more
    ELSE Header(shape.kind, Len(points), Len(shape.parts), curves)
           \o BoundsIn(BoundsOf(points)) \o SizesIn(shape) \o Steps(points)
           \o more \o curves

WrittenThrough(shape, points, extra, curves) ==
    Blob(shape.kind, extra, curves # <<>>,
         NumbersOf(shape, points, [i \in 1 .. extra * Len(points) |-> 0], curves))

Written(shape, extra, curves) ==
    WrittenThrough(shape, FlattenSeq(shape.parts), extra, curves)

Cut(blob, last) == [blob EXCEPT !.numbers = SubSeq(@, 1, last)]

Row(shape, blob, values) == [shape |-> shape, geometry |-> blob, values |-> values]
Plain(shape) == Row(shape, Written(shape, 0, <<>>), <<>>)
Headless(shape) == [shape EXCEPT !.sound = FALSE, !.header = FALSE]

----------------------------------------------------------------------------
(* Geometries on even coordinates, in cells of 8 *)

Big == Square(0, 0, 24, 24)
Hole == Reverse(Square(4, 4, 20, 20))
Island == Square(8, 8, 16, 16)
Dented == <<Point(0, 0), Point(24, 0), Point(24, 24), Point(12, 4), Point(0, 24),
            Point(0, 0)>>
Bent == <<Point(2, 22), Point(2, 22), Point(12, 10), Point(22, 22)>>

Polygons ==
    << Shape("polygon", <<Big>>),
       Shape("polygon", <<Reverse(Big)>>),
       Shape("polygon", <<Hole, Big>>),
       Shape("polygon", <<Island, Big, Reverse(Hole)>>),
       Shape("polygon", <<Square(0, 0, 6, 6), Square(10, 0, 16, 6), Island>>),
       Shape("polygon", <<Dented, Square(10, 12, 14, 14)>>),
       Shape("polygon", <<Dented, Square(10, 1, 14, 2)>>) >>

BadPolygons ==
    << <<<<Point(0, 0), Point(8, 8), Point(8, 0), Point(0, 8), Point(0, 0)>>>>,
       <<Big, Reverse(Big)>>,
       <<Big, Square(16, 16, 32, 32)>>,
       <<Big, Square(24, 0, 32, 8)>>,
       <<<<Point(0, 0), Point(8, 0), Point(0, 0)>>>>,
       <<Island, <<Point(2, 2), Point(6, 6), Point(2, 2), Point(6, 2), Point(2, 2)>>>> >>

Others ==
    << Shape("point", <<<<Point(12, 12)>>>>),
       Shape("multipoint", <<<<Point(2, 2), Point(22, 12)>>>>),
       Shape("line", <<Bent>>),
       Shape("line", <<<<Point(0, 10), Point(24, 12)>>, <<Point(6, 0), Point(6, 4)>>>>) >>

BlobsOf(frame, whole, line, crowd, nothing) ==
    << Row(frame, whole, <<>>),
       Row(Unsound(frame), Cut(whole, Len(whole.numbers) - 10), <<>>),
       Row(Unsound(frame), Cut(whole, 7), <<>>),
       Row(Unsound(frame), Cut(whole, 6), <<>>),
       Row(Headless(frame), Cut(whole, 5), <<>>),
       Row(Unsound(frame), [whole EXCEPT !.numbers[7] = 10], <<>>),
       Row(Unsound(frame), [whole EXCEPT !.numbers[2] = 0], <<>>),
       Row(Unsound(frame), [whole EXCEPT !.numbers[8] = 1000], <<>>),
       Row(nothing, [whole EXCEPT !.numbers = <<0>>], <<>>),
       Row(Headless(line), Written(line, 0, <<0, 7, 0, 2, 2>>), <<>>),
       Row(Unsound(crowd), Cut(Written(crowd, 1, <<>>), 10), <<>>),
       Row(crowd, Written(crowd, 2, <<>>), <<>>),
       Row(Unsound([frame EXCEPT !.kind = "multipatch"]),
           Written([frame EXCEPT !.kind = "multipatch"], 0, <<>>), <<>>),
       Row(nothing, Blob("point", 0, FALSE, <<0, 0>>), <<>>),
       Row(nothing, Blob("null", 0, FALSE, <<>>), <<>>),
       Row(Headless(frame), Blob("unknown", 0, FALSE, whole.numbers), <<>>) >>

Blobs == BlobsOf(Polygons[3], Written(Polygons[3], 1, <<>>), Others[4], Others[2],
                 Shape("polygon", <<>>))

\* Lines and polygons with curves: an arc and a Bezier, an ellipse of no
\* extent, one drawn as a line, one that leads out of its part, two from one
\* vertex, and the curves cut off. The shape has their samples as corners, the
\* box in front of the blob is around them.
Stored == Shape("line", <<<<Point(0, 0), Point(12, 0), Point(24, 0)>>,
                           <<Point(2, 20), Point(22, 20)>>>>)
Arched == <<Point(0, 0), Point(6, 8), Point(12, 0), Point(24, 0)>>
Sampled == Shape("line", <<Arched, <<Point(2, 20), Point(12, 12), Point(22, 20)>>>>)
Straight == Shape("line", <<Arched, Stored.parts[2]>>)

Ring == Shape("polygon", <<Square(8, 8, 16, 16)>>)
Bulging(at_top) ==
    Shape("polygon", <<<<Point(8, 8), Point(12, at_top), Point(16, 8), Point(16, 16),
                         Point(8, 16), Point(8, 8)>>>>)

Arc == <<0, 1, 0, 6, 8>>
Spline == <<3, 4, 0, 12, 12>>

CurvedFrom(shape, stored, curves) ==
    Row([shape EXCEPT !.sound = @ /\ CurveBackend = "Builtin",
                      !.header = @ /\ CurveBackend = "Builtin"],
        [Written(stored, 0, curves) EXCEPT
            !.numbers = SubSeq(@, 1, 3) \o BoundsIn(ShapeBounds(shape))
                          \o SubSeq(@, 8, Len(@))], <<>>)
Curved(shape, curves) ==
    CurvedFrom(shape, IF shape.kind = "line" THEN Stored ELSE Ring, curves)

CurvesOf(sampled, arcs) ==
    << Curved(sampled, arcs),
       Curved(Straight, Arc \o <<3, 5, 1, 12, 12>>),
       Curved(Headless(sampled), Arc \o <<3, 1, 2, 12, 12>>),
       Curved(Headless(sampled), <<2, 1, 0, 6, 8>> \o Spline),
       Curved(Headless(sampled), Arc \o Arc),
       Curved(Headless(sampled), Arc \o <<4, 1, 0, 6, 8>>),
       Curved(Headless(sampled), Arc \o <<3, 4, 0, 12, 1000>>),
       Row(Headless(sampled), Cut(Curved(sampled, arcs).geometry, 26), <<>>),
       Row(Headless(sampled), Cut(Curved(sampled, arcs).geometry, 6), <<>>),
       Curved(Bulging(2), <<0, 1, 0, 12, 2>>),
       Curved(Headless(Bulging(20)), <<0, 5, 0, 12, 20>>) >>

Curves == CurvesOf(Sampled, Arc \o Spline)

----------------------------------------------------------------------------
(* Requests and layers *)

InBox(box) == [kind |-> "Bbox", box |-> box]
FeatureIn(box) == [kind |-> "Feature", box |-> box]

Boxes ==
    << Box(0, 0, 24, 24), Box(-9, -9, 40, 40), Box(11, 11, 13, 13), Box(5, 5, 7, 7),
      Box(21, 9, 23, 11), Box(4, 9, 4, 9), Box(12, 5, 12, 5), Box(7, 11, 11, 11),
      Box(25, 25, 30, 30), Box(0, 9, 3, 30), Box(13, 15, 30, 17), Box(-5, 7, 29, 21) >>

OnLevel(rows, Level(_)) ==
    [f \in DOMAIN rows |-> [box |-> ShapeBounds(rows[f].shape), level |-> Level(rows[f])]]

\* A shape without vertices is filed nowhere.
Filed(rows) == SelectSeq(rows, LAMBDA row : row.shape.parts # <<>>)

Layer(fields, rows, spx, grids, spx_file, indexes, requests) ==
    [fields |-> fields, rows |-> rows, grids |-> grids, first_gdal_fid |-> 1,
     extent |-> [ymin |-> 0, ymax |-> 24], spx |-> spx, spx_file |-> spx_file,
     indexes |-> indexes, requests |-> requests]

Small(row) == IF ShapeBounds(row.shape).xmax - ShapeBounds(row.shape).xmin <= 8
              THEN 1 ELSE 2
Fine(row) == 1

GeometryRows ==
    [i \in DOMAIN Polygons |-> Plain(Polygons[i])]
    \o [i \in DOMAIN BadPolygons |-> Plain(Unsound(Shape("polygon", BadPolygons[i])))]
    \o [i \in DOMAIN Others |-> Plain(Others[i])]

GeometryRequests ==
    [i \in DOMAIN Boxes |-> InBox(Boxes[i])]
    \o [i \in DOMAIN Boxes |-> FeatureIn(Boxes[i])]

\* With an index of rows filed by the levels of their shapes.
Indexed(rows, sizes, Level(_), requests) ==
    Layer(<<>>, rows, "sound", sizes, SpxFile(OnLevel(rows, Level), sizes), <<>>, requests)
Unindexed(rows, requests) == Layer(<<>>, rows, "missing", <<8>>, <<>>, <<>>, requests)

GeometryLayer == Indexed(GeometryRows, <<8>>, Fine, GeometryRequests)

TwoLevelLayer ==
    Indexed(SubSeq(GeometryRows, 3, 9), <<8, 32>>, Small, GeometryRequests)

\* Points all over the layer, in several pages, and a few large squares.
Crowd ==
    [i \in 1 .. 30 |->
        LET side == 2 * i
            shape == IF i % 10 = 0 THEN Shape("polygon", <<Square(0, 0, 24, 24)>>)
                     ELSE Shape("point", <<<<Point(side % 26, (7 * side) % 26)>>>>)
        IN  Plain(shape)]

PointLayer ==
    Indexed(SelectSeq(Crowd, LAMBDA row : row.shape.kind = "point"), <<8>>, Fine,
            [i \in DOMAIN Boxes |-> InBox(Boxes[i])])

\* The hybrid reader, with each of its options; then with FIDs that GDAL does
\* not have.
HybridIn(box, options) == [kind |-> "Hybrid", box |-> box, options |-> options]
HybridRequests ==
    [i \in DOMAIN Boxes |-> HybridIn(Boxes[i], HybridOptions(1, FALSE, TRUE))]
    \o [i \in 1 .. 6 |-> HybridIn(Boxes[2 * i], HybridOptions(1, TRUE, FALSE))]
    \o [i \in 1 .. 6 |-> HybridIn(Boxes[2 * i], HybridOptions(-1, TRUE, TRUE))]

CurveRows == Curves \o SubSeq(GeometryRows, 4, 12)
CurveLayers ==
    << Unindexed(CurveRows, GeometryRequests \o HybridRequests),
       [Indexed(SelectSeq(CurveRows, LAMBDA row : row.shape.sound), <<8>>, Fine,
                HybridRequests) EXCEPT !.first_gdal_fid = 0],
       Unindexed(Blobs, GeometryRequests \o HybridRequests) >>

----------------------------------------------------------------------------
(* Rows with values: numbers, numbers with NaN, and texts with a space, a  *)
(* control character, a character beyond the BMP, or longer than a key.    *)

Columns ==
    << [name |-> "n", type |-> "Int32"], [name |-> "x", type |-> "Float64"],
       [name |-> "s", type |-> "String"], [name |-> "t", type |-> "String"] >>

Valued(shape, n, x, s, t) ==
    Row(shape, Written(shape, 0, <<>>), <<n, x, Text(s), Text(t)>>)
At(place) == Shape("point", <<<<Point(place, 24 - place)>>>>)

ValueRows ==
    << Valued(At(2), Number(1), Number(5), <<3>>, <<3>>),
       Valued(At(4), Number(3), NaN, <<3, 4>>, <<4>>),
       Valued(At(6), NullValue, Number(2), <<3, 2, 4>>, <<3, 4>>),
       Valued(At(8), Number(3), Number(-1), <<3, 1>>, <<4>>),
       Valued(At(14), Number(7), NaN, <<7>>, <<6>>),
       Valued(At(18), Number(2), Number(5), <<6, 3, 3, 4>>, <<3>>),
       Valued(At(22), Number(3), NullValue, <<6, 3, 3, 3>>, <<4, 4, 3>>) >>

\* The rows that have a value are in an index.
FileFrom(rows, column, filed) ==
    AtxFile(column > 2,
            [k \in DOMAIN filed |->
               [fid |-> filed[k], key |-> KeyOf(rows[filed[k]].values[column])]])
FileOf(rows, column) ==
    FileFrom(rows, column,
             SelectSeq([i \in DOMAIN rows |-> i],
                       LAMBDA i : rows[i].values[column].sort # "null"))

IndexOn(column, file) == [column |-> Columns[column].name, direct |-> TRUE, file |-> file]
Lowered(index) == [index EXCEPT !.direct = FALSE, !.file.pages[2].entries = <<>>]
WholeIndexes == [column \in 1 .. 4 |-> IndexOn(column, FileOf(ValueRows, column))]

\* One thing wrong with the pages of the index on n: two leaves of three.
Damages(file) ==
    << [file EXCEPT !.whole = FALSE],
       [file EXCEPT !.is_string = TRUE],
       [file EXCEPT !.total = 7],
       [file EXCEPT !.depth = 0],
       [file EXCEPT !.depth = 1],
       [file EXCEPT !.depth = 4],
       [file EXCEPT !.pages[1].first = 0],
       [file EXCEPT !.pages[1].first = 3],
       [file EXCEPT !.pages[1].count = 0],
       [file EXCEPT !.pages[2].next = 0],
       [file EXCEPT !.pages[2].next = 9],
       [file EXCEPT !.pages[3].next = 2],
       [file EXCEPT !.pages[3].next = 9],
       [file EXCEPT !.pages[3].count = 9],
       [file EXCEPT !.pages[3].entries[1].fid = 0],
       [file EXCEPT !.pages[3].entries[3].fid = 8] >>

----------------------------------------------------------------------------
(* Clauses *)

ColN == Identifier("n")
ColX == Identifier("x")
ColS == Identifier("s")
ColT == Identifier("t")
Num(value) == Literal(FALSE, value)
Str(value) == Literal(TRUE, value)
Compares(name, op, literal) == <<name, Token(op), literal>>
And == <<Token("and")>>
Or == <<Token("or")>>
InBrackets(tokens) == <<Token("(")>> \o tokens \o <<Token(")")>>
OneOf(name, literals) == <<name, Token("in"), Token("(")>> \o literals \o <<Token(")")>>
Ended(tokens) == Append(tokens, Token("end"))

Comma == Token(",")

Comparisons ==
    << Compares(ColN, "=", Num(3)), Compares(ColN, ">=", Num(3)), Compares(ColN, "<", Num(3)), Compares(ColN, "!=", Num(3)),
       Compares(ColX, "=", Num(5)), Compares(ColX, "<=", Num(2)), Compares(ColX, "!=", Num(5)), Compares(ColS, "=", Num(3)),
       Compares(ColS, "=", Str(<<3>>)), Compares(ColS, ">=", Str(<<3>>)), Compares(ColS, "=", Str(<<3, 2, 4>>)),
       Compares(ColS, ">=", Str(<<3, 2, 4>>)), Compares(ColS, "=", Str(<<6, 3, 3, 4>>)),
       Compares(ColS, ">=", Str(<<6, 3, 3, 4>>)), Compares(ColS, "=", Str(<<7>>)), Compares(ColS, ">=", Str(<<7>>)),
       Compares(ColS, ">=", Str(<<3, 1>>)), Compares(ColS, "<", Str(<<3, 4>>)), Compares(ColT, "=", Str(<<4>>)) >>

Joins ==
    LET a == Compares(ColN, "=", Num(3))
        b == Compares(ColT, "=", Str(<<4>>))
        c == Compares(ColX, ">=", Num(2))
    IN  << a \o And \o b \o Or \o c, a \o Or \o b \o And \o c,
           InBrackets(a \o Or \o b) \o And \o c, a \o And \o InBrackets(b \o Or \o c),
           a \o And \o b \o And \o c, InBrackets(InBrackets(c)),
           OneOf(ColN, <<Num(1), Comma, Num(3)>>),
           OneOf(ColT, <<Str(<<3>>)>>) \o Or \o OneOf(ColN, <<Num(7), Comma, Num(2)>>) >>

Malformed ==
    LET a == Compares(ColN, "=", Num(3))
    IN  << <<ColN, Token("=")>>, a \o And, a \o a, <<Token("(")>> \o a, a \o <<Token(")")>>,
           OneOf(ColN, <<>>), OneOf(ColN, <<Num(1), Comma>>), Or \o a,
           Compares(Identifier("missing"), "=", Num(3)) \o Or \o a, <<ColN, ColN, Num(3)>> >>

Clause(kind, box, tokens) ==
    [kind |-> kind, box |-> box, tokens |-> Ended(tokens), malformed |-> FALSE]
Broken(asked) == [asked EXCEPT !.malformed = TRUE]

ClauseRequests(clauses, box) ==
    [i \in DOMAIN clauses |-> Clause("SpatialWhere", box, clauses[i])]
Wide == Box(0, 0, 24, 24)
Narrow == Box(3, 1, 17, 23)

ValueLayer(spx, spx_file, indexes, requests) ==
    Layer(Columns, ValueRows, spx, <<8>>, spx_file, indexes, requests)

ClauseLayer ==
    ValueLayer("sound", SpxFile(OnLevel(ValueRows, Fine), <<8>>), WholeIndexes,
          ClauseRequests(Comparisons, Narrow) \o ClauseRequests(Joins, Wide)
          \o [i \in DOMAIN Joins |-> Clause("Where", Wide, Joins[i])]
          \o [i \in DOMAIN Malformed |-> Broken(Clause("Where", Wide, Malformed[i]))]
          \o << Broken([Clause("SpatialWhere", Wide, <<>>) EXCEPT !.tokens = <<>>]) >>)

\* An index on a function of the field is not asked, nor is a field without
\* one; then the same field twice.
OtherIndexes(index) == << <<Lowered(index)>>, <<Lowered(index), index>>, <<>> >>

OtherLayers ==
    [i \in 1 .. 3 |->
        ValueLayer("missing", <<>>, OtherIndexes(IndexOn(3, FileOf(ValueRows, 3)))[i],
                   ClauseRequests(SubSeq(Comparisons, 9, 12), Wide))]

DamagedLayers(damages) ==
    [i \in DOMAIN damages |->
        ValueLayer("unparsable", <<>>, <<IndexOn(1, damages[i])>>,
                   ClauseRequests(SubSeq(Comparisons, 1, 3), Wide))]

\* The entry by the name of an index.
ByName(index, op, literal, plain) ==
    [kind |-> "Attribute", index |-> index, column |-> index, op |-> op,
     literal |-> literal, plain |-> plain]

NamedLayer ==
    ValueLayer("missing", <<>>, WholeIndexes,
          << ByName(1, "=", Num(3), TRUE), ByName(1, "!=", Num(3), FALSE),
             ByName(1, "<", Num(3), TRUE), ByName(2, ">=", Num(5), TRUE),
             ByName(2, "=", Num(5), TRUE), ByName(3, "=", Str(<<3, 2, 4>>), FALSE),
             ByName(4, "=", Str(<<4>>), TRUE), ByName(4, ">", Str(<<3>>), TRUE),
             ByName(4, "<=", Str(<<3, 4>>), TRUE) >>)

MCLayers ==
    <<GeometryLayer, TwoLevelLayer, PointLayer, ClauseLayer, NamedLayer>>
        \o OtherLayers \o DamagedLayers(Damages(FileOf(ValueRows, 1))) \o CurveLayers

\* The layers are what the theorems about IndexedQuery take for granted.
ASSUME MCLayersAreSound ==
    \A l \in DOMAIN MCLayers :
        SpatialIndexIsSound(MCLayers[l]) /\ AttributeIndexIsSound(MCLayers[l])

----------------------------------------------------------------------------
(* Two instances that are not among these: two grids in a tree of two page *)
(* levels, and an index with pages that say they are empty.                *)
TwoLevelTrees == <<Indexed(Crowd, <<8, 32>>, Small, GeometryRequests)>>

Nothing == [keys |-> <<>>, fids |-> <<>>, children |-> <<>>]
Emptied(file) ==
    [depth |-> 2,
     pages |-> [k \in DOMAIN file.pages |-> IF k > 6 THEN Nothing ELSE file.pages[k]]]

EmptyPages == <<[GeometryLayer EXCEPT !.spx_file = Emptied(@)]>>
=============================================================================
